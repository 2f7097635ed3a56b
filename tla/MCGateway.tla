----------------------------- MODULE MCGateway -----------------------------
EXTENDS Gateway

\* Deployments.
MCConfigs ==
  {[mode |-> "direct", provider |-> "echo", keys |-> {}, fixed_charge |-> 1]}
    \cup [mode : {"proxy"}, provider : {"echo", "http-proxy"}, keys : {{}},
          fixed_charge : {1}]
    \cup [mode : {"proxy"}, provider : {"metered"},
          keys : {{"openai"}, {"openai", "openrouter"}}, fixed_charge : {1}]

\* A field that may be missing.
Maybe(key, values) == {<< >>} \cup {key :> v : v \in values}

Joined(sets) == {FoldLeft(LAMBDA f, g : f @@ g, << >>, fs) : fs \in sets}

Prompts == {"messages" :> [kind |-> "array", content |-> "talk"],
            "input" :> [kind |-> "string", content |-> "talk"],
            "input" :> [kind |-> "array", content |-> "items"]}

MiniDated == <<"gpt-4", "o", "-mini", "-2024-07-18">>
Four      == <<"gpt-4", ".1">>
Unknown   == <<"gpt-5">>
Vendor    == <<"openai", "/", "gpt-4", "o">>

\* Bodies that differ in their limits, and in what they say of streams.
LimitBodies ==
  Joined({<<a, b, c, d>> :
            a \in Maybe("max_tokens", {10, Null}),
            b \in Maybe("max_completion_tokens", {20}),
            c \in Maybe("max_output_tokens", {30}),
            d \in Maybe("options", {[num_predict |-> 40]})})
    \cup Joined({<<a, b>> : a \in Maybe("options", {[num_predict |-> 40]}),
                           b \in Maybe("stream", {TRUE, FALSE, Null})})

\* Bodies that differ in prompt, model and temperature.
PromptBodies ==
  Joined({<<a, b, c>> :
            a \in Prompts,
            b \in Maybe("model", {MiniDated, Vendor, Null}),
            c \in {"stream" :> FALSE}})
    \cup {[stream |-> FALSE, model |-> m] : m \in {Four, Unknown}}
    \cup {[stream |-> FALSE, temperature |-> 2, options |-> [temperature |-> 1]]}

MCCalls ==
  [endpoint : {"chat", "responses", "ollama"}, body : LimitBodies, session : {None}]
    \cup [endpoint : {"chat", "responses", "ollama", "inference"}, body : PromptBodies,
          session : {"good"}]
    \cup [endpoint : {"chat"}, body : {<< >>}, session : {"bad"}]

MCLines == Stream!StreamLines

Usage(p, c, usd) == [prompt |-> p, completion |-> c, cost |-> usd]

MCAnswers ==
  [model : {None, Four, MiniDated},
   usage : {None, Usage(0, 0, 0), Usage(2, 0, None), Usage(1, 1, -5), Usage(20, 3, 250),
            Usage(7, 9, 1)}]

MCTexts == {"hello"}

OaStrings == {OA!Str(w) : w \in OA!Words}
OaHourly == OA!Str("hourly text")

\* Objects that differ in what they say, and in what they say next to it.
OaLeaf ==
  Joined({<<a, b>> : a \in Maybe("reason", OaStrings), b \in Maybe("code", OaStrings)})
    \cup {[message |-> w] : w \in OaStrings}
    \cup {[reason |-> w, message |-> OaHourly, retry_after |-> OA!Num(9)] : w \in OaStrings}

MCOaRefusals ==
  [header : {None, 5}, body : {OA!Text(w) : w \in OA!Words} \cup {OA!Obj(<<o>>) : o \in OaLeaf}]
    \cup [header : {None},
          body : {OA!Obj(<< << >>, o>>) : o \in OaLeaf}
            \cup {OA!Obj(<< [detail |-> d] >>) : d \in OaStrings}
            \cup {OA!Obj(<< [code |-> c, retry_after |-> OA!Num(7)],
                            [reason |-> d, retry_after |-> OA!Num(9)] >>) : c, d \in OaStrings}
            \cup {OA!Obj(<< [code |-> OA!Str("other")], [code |-> c], [reason |-> d] >>) :
                     c, d \in OaStrings}]

=============================================================================
