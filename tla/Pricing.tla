------------------------------ MODULE Pricing ------------------------------
(***************************************************************************)
(* What a proxied request costs and what is forwarded for it: pricing.rs,  *)
(* metered_provider.rs and provider.rs.  A model id is the sequence of its *)
(* parts, so that "gpt-4" is a prefix of "gpt-4o-mini" as it is as a       *)
(* string.  Money is counted in hundredths of a credit, of which every     *)
(* price of the table is a whole number per token.                         *)
(***************************************************************************)
EXTENDS Compatibility, SequencesExt

\* Cap: the request charge cap, in credits.
CONSTANT Cap

ASSUME PricingAssumption == Cap \in Nat

-----------------------------------------------------------------------------
(* The price table *)

ModelPrice(id, prompt, completion) ==
  [id |-> id, prompt |-> prompt, completion |-> completion]

OPENAI_PRICES ==
  << ModelPrice(<<"gpt-4", "o", "-mini">>, 15, 60),
     ModelPrice(<<"gpt-4", "o">>, 250, 1000),
     ModelPrice(<<"gpt-4", ".1", "-nano">>, 10, 40),
     ModelPrice(<<"gpt-4", ".1", "-mini">>, 40, 160),
     ModelPrice(<<"gpt-4", ".1">>, 200, 800),
     ModelPrice(<<"gpt-4", "-turbo">>, 1000, 3000),
     ModelPrice(<<"gpt-4">>, 3000, 6000),
     ModelPrice(<<"gpt-3.5", "-turbo">>, 50, 150),
     ModelPrice(<<"o4", "-mini">>, 110, 440),
     ModelPrice(<<"o3", "-mini">>, 110, 440),
     ModelPrice(<<"o3">>, 200, 800),
     ModelPrice(<<"o1", "-mini">>, 110, 440),
     ModelPrice(<<"o1">>, 1500, 6000) >>

FALLBACK_PRICE == ModelPrice(<< >>, 15, 60)

Better(model, best, price) ==
  IF IsPrefix(price.id, model) /\ Len(price.id) > Len(best.id) THEN price ELSE best

\* Mistake: the shortest matching id is taken.
openai_price_Shortest(model) ==
  LET best[i \in 0 .. Len(OPENAI_PRICES)] ==
        IF i > 0 /\ ~ IsPrefix(OPENAI_PRICES[i].id, model) THEN best[i - 1]
        ELSE IF i > 0 THEN OPENAI_PRICES[i] ELSE FALLBACK_PRICE
  IN  best[Len(OPENAI_PRICES)]

\* The table is walked once; a longer matching id replaces a shorter one.
openai_price(model) ==
  LET best[i \in 0 .. Len(OPENAI_PRICES)] ==
        IF i = 0 THEN FALLBACK_PRICE ELSE Better(model, best[i - 1], OPENAI_PRICES[i])
  IN  best[Len(OPENAI_PRICES)]

cost_usd(price, usage) ==
  usage.prompt * price.prompt + usage.completion * price.completion

\* The credits for a cost.  The code rounds a product of doubles up, and a
\* product that should be a whole number of credits may come out a little
\* above it, which costs one credit more.
usd_to_credits(cost) ==
  IF cost <= 0 THEN {0} ELSE {(cost + 99) \div 100, cost \div 100 + 1}

clamp_charge(credits) == IF credits > Cap THEN Cap ELSE credits

-----------------------------------------------------------------------------
(* The metered provider *)

Envelope(path, body) == [path |-> path, body |-> body]

\* A payload without path and body is itself the body of a chat completion.
decode_envelope(payload) ==
  IF Has(payload, "path") /\ Has(payload, "body") THEN payload
  ELSE Envelope("/v1/chat/completions", payload)

\* Everything becomes an OpenAI chat completion that is not streamed.
normalize_chat_request(path, object) ==
  IF path = "/v1/chat/completions" THEN Insert(object, "stream", FALSE)
  ELSE Insert(CleanObject(object, {"model", "temperature", "max_tokens", "usage"}),
              "stream", FALSE)

\* A vendor-prefixed id is a model of OpenRouter, a bare one of OpenAI.
route_upstream(model) ==
  IF model # None /\ Contains(model, "/") THEN "openrouter" ELSE "openai"

\* The body sent to the upstream: OpenRouter must report the cost, whatever
\* the caller asked for; OpenAI stores the completion unless told not to.
UpstreamBody(upstream, body) ==
  IF upstream = "openrouter" THEN Insert(body, "usage", "include")
                             ELSE OrInsert(body, "store", TRUE)

\* A usage block that is missing or cannot be read counts as no usage.
UsageOf(answer) ==
  IF answer.usage = None THEN [prompt |-> 0, completion |-> 0, cost |-> None]
                         ELSE answer.usage

\* The cost in hundredths of a credit.
derive_cost(usage, model, upstream) ==
  CASE upstream = "openrouter" ->
         IF usage.cost = None \/ usage.cost < 0 THEN 0 ELSE usage.cost
    [] upstream = "openai" /\ model # None -> cost_usd(openai_price(model), usage)
    [] OTHER -> 0

\* The charges the metered provider may report for an answer.
MeteredCharges(answer, request_model) ==
  LET model == IF answer.model # None THEN answer.model ELSE request_model
      cost  == derive_cost(UsageOf(answer), model, route_upstream(request_model))
  IN  {clamp_charge(c) : c \in usd_to_credits(cost)}

-----------------------------------------------------------------------------
(* Reference definitions for the properties *)

\* The most specific entry of the table for a model.
MostSpecific(model) ==
  LET hits == {p \in ToSet(OPENAI_PRICES) : IsPrefix(p.id, model)}
  IN  IF hits = {} THEN FALLBACK_PRICE
      ELSE CHOOSE p \in hits : \A q \in hits : IsPrefix(q.id, p.id)

\* The real cost of an answer to a request for request_model, as reported.
RealCost(answer, request_model) ==
  LET usage == UsageOf(answer)
      model == IF answer.model # None THEN answer.model ELSE request_model
      price == MostSpecific(model)
  IN  IF request_model # None /\ "/" \in ToSet(request_model)
      THEN IF usage.cost = None THEN 0 ELSE usage.cost
      ELSE IF model = None THEN 0
      ELSE usage.prompt * price.prompt + usage.completion * price.completion

=============================================================================
