--------------------------- MODULE Compatibility ---------------------------
(***************************************************************************)
(* The request and response shims of the client daemon (compat.rs).  A     *)
(* JSON object is a function whose domain is the set of its keys; a string *)
(* or an array of messages is a record of its kind and its content.  The   *)
(* fields whose values no property tells apart (tools, stop, top_p ...)    *)
(* are copied like "temperature", which stands for them.                   *)
(***************************************************************************)
EXTENDS Integers, Sequences

\* Null: a JSON value of none of the types the code asks for.
\* None: a missing optional value (Option::None).
CONSTANTS Null, None

CHAT_PATH == "/chat/completions"

DIRECT_OPENROUTER_DEFAULT_MAX_TOKENS == 256

-----------------------------------------------------------------------------
(* JSON objects *)

Has(object, key) == key \in DOMAIN object

Insert(object, key, value) ==
  [k \in DOMAIN object \cup {key} |-> IF k = key THEN value ELSE object[k]]

\* serde_json::Map::entry(key).or_insert(value)
OrInsert(object, key, value) ==
  [k \in DOMAIN object \cup {key} |-> IF k \in DOMAIN object THEN object[k] ELSE value]

\* Fill a key from a field of another object, where both leave room for it.
OrCopy(object, key, from, field) ==
  IF Has(from, field) THEN OrInsert(object, key, from[field]) ELSE object

Copy(object, keys) == [k \in keys \cap DOMAIN object |-> object[k]]

Without(object, key) == [k \in DOMAIN object \ {key} |-> object[k]]

Options(object) == IF Has(object, "options") THEN object["options"] ELSE << >>

-----------------------------------------------------------------------------
(* Requests *)

\* The messages of a request: its own, or its input turned into messages.
UserMessages(input) ==
  IF input.kind = "string" THEN [kind |-> "array", content |-> input.content]
                           ELSE input

WithMessages(clean, object) ==
  IF Has(object, "messages") THEN Insert(clean, "messages", object["messages"])
  ELSE IF Has(object, "input") THEN Insert(clean, "messages", UserMessages(object["input"]))
  ELSE clean

\* Only a chat completion that says so is streamed.
stream_requested(body) == Has(body, "stream") /\ body["stream"] = TRUE

\* Ollama streams unless the caller explicitly opts out.
ollama_stream_requested(body) == ~ (Has(body, "stream") /\ body["stream"] = FALSE)

LimitKeys == {"max_tokens", "max_completion_tokens"}

HasLimit(object) == \E k \in LimitKeys : Has(object, k)

ensure_direct_completion_limit(object) ==
  IF HasLimit(object) THEN object
  ELSE Insert(Without(object, "max_output_tokens"), "max_tokens",
              IF Has(object, "max_output_tokens")
              THEN object["max_output_tokens"]
              ELSE DIRECT_OPENROUTER_DEFAULT_MAX_TOKENS)

\* A clean chat object: the known keys, the messages and the Ollama options.
CleanObject(object, keys) ==
  LET said == WithMessages(Copy(object, keys), object)
      warm == OrCopy(said, "temperature", Options(object), "temperature")
  IN  OrCopy(warm, "max_tokens", Options(object), "num_predict")

\* Mistake: the limit of the Ollama options is looked at too late.
CleanRequest_LateOptions(object) ==
  CleanObject(ensure_direct_completion_limit(object),
              LimitKeys \cup {"model", "temperature", "stream"})

\* The request of an endpoint that is not the chat completion itself.
CleanRequest(object) ==
  LET clean == CleanObject(object, LimitKeys \cup {"model", "temperature", "stream"})
  IN  IF HasLimit(clean) THEN clean
      ELSE Insert(clean, "max_tokens",
                  IF Has(object, "max_output_tokens")
                  THEN object["max_output_tokens"]
                  ELSE DIRECT_OPENROUTER_DEFAULT_MAX_TOKENS)

\* The chat path keeps the caller's object.
openrouter_request(path, object) ==
  LET shaped == IF path \in {"/v1/chat/completions", CHAT_PATH}
                THEN ensure_direct_completion_limit(object)
                ELSE CleanRequest(object)
  IN  [path |-> CHAT_PATH, body |-> OrInsert(shaped, "stream", FALSE)]

-----------------------------------------------------------------------------
(* Responses: the payload of a core response is what its JSON holds, or    *)
(* None when the raw text is no JSON.                                      *)

\* The serialised JSON and the raw text, when no assistant text is found.
Blob == "serialised payload"
Raw  == "raw payload"

Payloads(texts) ==
  [kind : {"choices", "output"}, text : texts \cup {None}]
    \cup [kind : {"string", "message"}, text : texts]
    \cup {[kind |-> "other", text |-> None], [kind |-> "not json", text |-> None]}

\* Mistake: only the daemon's own text payloads are unpacked.
response_text_NoChoices(payload) ==
  CASE payload.kind = "string" -> payload.text
    [] payload.kind = "not json" -> Raw
    [] OTHER -> Blob

\* An assistant text that is no string (a tool call) leaves the whole JSON.
response_text(payload) ==
  CASE payload.kind = "string" -> payload.text
    [] payload.kind \in {"choices", "output"} /\ payload.text # None -> payload.text
    [] payload.kind = "not json" -> Raw
    [] OTHER -> Blob

\* A payload that already has the shape of the endpoint is passed on.
Reply(shape, own, payload) ==
  [shape |-> shape,
   text  |-> IF payload.kind = own THEN payload.text ELSE response_text(payload)]

chat_completion(payload) == Reply("chat.completion", "choices", payload)

responses_api(payload) == Reply("response", "output", payload)

ollama_chat(payload) == Reply("ollama", "message", payload)

=============================================================================
