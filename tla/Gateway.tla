------------------------------ MODULE Gateway ------------------------------
(***************************************************************************)
(* One application call through the client daemon to the model: the        *)
(* OpenAI, Responses, Ollama and inference endpoints (clientd/routes.rs),  *)
(* the direct path with its retries, its replaced key and its streams      *)
(* (clientd/service.rs), and the proxied path through a provider of the    *)
(* protocol server.  The wallet, the leases and the locks around a call    *)
(* are ClientDaemon's; here a lease is obtained, refused or lost.  The     *)
(* clock counts quarters of a second from the second the lease was taken.  *)
(***************************************************************************)
EXTENDS Pricing, FiniteSets

CONSTANTS
  Configs,      \* request mode, provider and configured upstream keys
  Calls,        \* what applications may ask
  Lines,        \* the lines of an event stream
  MaxLines,     \* bound: the lines of one stream
  Answers,      \* the upstream's answers to the metered provider
  Texts,        \* assistant texts
  OaRefusals,   \* the OA org's refusals of a key: header and body
  Lifetimes,    \* seconds a lease has left
  RetryAfters,  \* the Retry-After headers of OpenRouter
  Waits,        \* how long an answer of OpenRouter may take
  Phases,       \* when in its second a lease may be taken
  Overruns      \* how late the daemon may wake up, at most a second

Stream == INSTANCE OllamaStream
OA == INSTANCE OaRateLimit

Paths == [chat      |-> "/v1/chat/completions",
          responses |-> "/v1/responses",
          ollama    |-> "/api/chat",
          inference |-> "/v1/chat/completions"]

\* The responses to an application.
Response == [status : Nat, said : Texts \cup {None},
             reply : {None} \cup [shape : {"chat.completion", "response", "ollama", "core"},
                                  text : Texts \cup {None, Blob, Raw}]]

ASSUME GatewayAssumption ==
  /\ None \notin Nat \cup Response \cup OA!Reasons \cup {"closed", "broken"}
  /\ Lines \subseteq Stream!StreamLines
  /\ \A g \in Configs : g.fixed_charge \in Nat
  /\ \A c \in Calls :
       /\ c.endpoint \in DOMAIN Paths
       /\ Has(c.body, "model") => c.body["model"] \in Seq(STRING) \cup {Null}
  /\ \A a \in Answers :
       /\ a.model \in Seq(STRING) \cup {None}
       /\ a.usage \in [prompt : Nat, completion : Nat, cost : Int \cup {None}] \cup {None}
  /\ \A r \in OaRefusals : r.header \in Nat \cup {None} /\ OA!IsBody(r.body)
  /\ Lifetimes \subseteq Nat /\ RetryAfters \subseteq Nat /\ Waits \subseteq Nat
  /\ Phases \subseteq Nat /\ Overruns \subseteq 0 .. 4

VARIABLES
  config,     \* the deployment
  pc,         \* where the call is
  call,       \* the application's call: endpoint, body, session header
  wire,       \* the request to the upstream
  clock, lease, try,
  conn,       \* the upstream's side of a stream
  converter,  \* OllamaStreamState
  delivered,  \* what the application has got of the stream
  answer,     \* the upstream's answer to the metered provider
  charge,     \* the provider's charge
  told,       \* a refusal of a key, as the server reported it
  outcome     \* the response to the application

vars == <<config, pc, call, wire, clock, lease, try, conn, converter,
          delivered, answer, charge, told, outcome>>

NoCall == [endpoint |-> "chat", body |-> << >>, session |-> None]
FirstTry == [attempt |-> 1, replaced |-> FALSE, delay |-> 0, posted |-> None]
NoConn == [lines |-> << >>, text |-> << >>, break |-> << >>, ended |-> None]

Init ==
  /\ config \in Configs
  /\ pc = "idle" /\ call = NoCall /\ wire = None
  /\ clock = 0 /\ lease = None /\ try = FirstTry
  /\ conn = NoConn /\ converter = Stream!OllamaStreamState /\ delivered = << >>
  /\ answer = None /\ charge = None /\ told = None /\ outcome = None

\* The response to the application ends the call.  said is history: the
\* assistant's text in an upstream's answer of one of the OpenAI formats.
Respond(status, reply) ==
  /\ outcome' = [status |-> status, reply |-> reply, said |-> None]
  /\ pc' = "answered"

-----------------------------------------------------------------------------
(* The endpoints *)

Streams(c) ==
  \/ c.endpoint = "chat" /\ stream_requested(c.body)
  \/ c.endpoint = "ollama" /\ ollama_stream_requested(c.body)

\* A session id is optional, short and plain.
normalize_session_id(session) == session # "bad"

\* The Ollama default of streaming is made explicit in the body.
ShapedBody(c) ==
  IF c.endpoint = "ollama" /\ Streams(c) THEN Insert(c.body, "stream", TRUE)
                                         ELSE c.body

\* A call: it is refused, handed to the server, or shaped for OpenRouter.
Receive(c) ==
  /\ pc = "idle"
  /\ call' = c
  /\ IF config.mode = "proxy"
     THEN /\ wire' = None
          /\ IF Streams(c) THEN Respond(400, None)
                           ELSE pc' = "provider" /\ UNCHANGED outcome
     ELSE /\ wire' = openrouter_request(Paths[c.endpoint], ShapedBody(c))
          /\ IF normalize_session_id(c.session) THEN pc' = "lease" /\ UNCHANGED outcome
                                                ELSE Respond(400, None)
  /\ UNCHANGED <<config, clock, lease, try, conn, converter, delivered, answer, charge,
                 told>>

\* The reply in the format of the endpoint; it is a success whatever the
\* status of the proxied answer was.
ReplyFor(endpoint, payload) ==
  CASE endpoint = "chat"      -> chat_completion(payload)
    [] endpoint = "responses" -> responses_api(payload)
    [] endpoint = "ollama"    -> ollama_chat(payload)
    [] endpoint = "inference" -> [shape |-> "core", text |-> payload.text]

RespondWith(payload) ==
  /\ outcome' = [status |-> 200, reply |-> ReplyFor(call.endpoint, payload),
                 said |-> IF payload.kind = "message" THEN None ELSE payload.text]
  /\ pc' = "answered"

-----------------------------------------------------------------------------
(* The direct path: a lease, then at most three attempts with its key *)

DIRECT_REMOTE_MAX_ATTEMPTS == 3
DIRECT_REMOTE_RETRY_BASE_DELAY == 1     \* quarters of a second
DIRECT_REMOTE_RETRY_MAX_DELAY == 20

\* A live lease of the session is used again while it has more than a second
\* left; a new one only has to be alive.  The clock starts in this second.
ObtainLease(now, left, served) ==
  /\ pc = "lease"
  /\ left > (IF served THEN 1 ELSE 0)
  /\ clock' = now
  /\ lease' = [expires_at |-> left, served |-> served]
  /\ try' = [try EXCEPT !.attempt = 1]
  /\ pc' = "send"
  /\ UNCHANGED <<config, call, wire, conn, converter, delivered, answer, charge,
                 told, outcome>>

\* The server reports the OA org's refusal as a status 429; the daemon makes
\* a wallet error of it.
LeaseRefused(refusal) ==
  /\ pc = "lease"
  /\ told' = [refusal |-> refusal,
              report |-> OA!parse_oa_rate_limit(refusal.header, refusal.body)]
  /\ call' = NoCall /\ wire' = None
  /\ Respond(502, None)
  /\ UNCHANGED <<config, clock, lease, try, conn, converter, delivered, answer, charge>>

\* No note, no balance, a pending lease, another session, a failed check.
LeaseFails(status) ==
  /\ pc = "lease"
  /\ Respond(status, None)
  /\ UNCHANGED <<config, call, wire, clock, lease, try, conn, converter, delivered,
                 answer, charge, told>>

Post ==
  /\ pc = "send"
  /\ try' = [try EXCEPT !.posted = clock]
  /\ pc' = "await"
  /\ UNCHANGED <<config, call, wire, clock, lease, conn, converter, delivered,
                 answer, charge, told, outcome>>

is_transient_remote_status(status) ==
  status \in {408, 425, 429, 500, 502, 503, 504, 524, 529}

\* A Retry-After header is obeyed; the backoff doubles up to its maximum.
direct_remote_retry_delay(attempt, retry_after) ==
  LET backoff == DIRECT_REMOTE_RETRY_BASE_DELAY * <<1, 2, 4>>[attempt]
  IN  CASE retry_after # None -> 4 * retry_after
        [] retry_after = None /\ backoff <= DIRECT_REMOTE_RETRY_MAX_DELAY -> backoff
        [] OTHER -> DIRECT_REMOTE_RETRY_MAX_DELAY

\* Mistake: the second of slack is forgotten.
retry_fits_lease_NoSlack(now, expires_at, delay) ==
  now \div 4 + (delay + 3) \div 4 < expires_at

\* Whole seconds: the delay is rounded up, and one more is left.
retry_fits_lease(now, expires_at, delay) ==
  now \div 4 + (delay + 3) \div 4 + 1 < expires_at

\* OpenRouter's refusals: the status and, for a 403, whether its message says
\* that the total limit of the key is reached.
Refusals == {[status |-> s, limit |-> FALSE] : s \in {400, 401, 402, 403, 429, 503}}
              \cup {[status |-> 403, limit |-> TRUE]}

is_rejected_openrouter_key(refusal) ==
  refusal.status = 401 \/ (refusal.status = 403 /\ refusal.limit)

is_exhausted_openrouter_key(refusal) == refusal.status = 402

\* Mistake: the replacement is replaced as well.
MayReplaceKey_Again(refusal) ==
  \/ is_rejected_openrouter_key(refusal)
  \/ lease.served /\ is_exhausted_openrouter_key(refusal)

\* One rejected key is replaced in a call, a spent one only if it has served.
MayReplaceKey(refusal) ==
  /\ ~ try.replaced
  /\ \/ is_rejected_openrouter_key(refusal)
     \/ lease.served /\ is_exhausted_openrouter_key(refusal)

\* The attempt is repeated if the key still lives then.
Retry(now, retry_after) ==
  LET delay == direct_remote_retry_delay(try.attempt, retry_after)
  IN  /\ try.attempt < DIRECT_REMOTE_MAX_ATTEMPTS
      /\ retry_fits_lease(now, lease.expires_at, delay)
      /\ try' = [try EXCEPT !.delay = delay]
      /\ pc' = "sleep"
      /\ UNCHANGED outcome

CannotRetry(now, retry_after) ==
  \/ try.attempt = DIRECT_REMOTE_MAX_ATTEMPTS
  \/ ~ retry_fits_lease(now, lease.expires_at,
                        direct_remote_retry_delay(try.attempt, retry_after))

\* OpenRouter refuses, after a while: a transient refusal is retried, a
\* refused key replaced, and anything else is the application's answer.
OpenRouterRefuses(refusal, retry_after, wait) ==
  /\ pc = "await"
  /\ clock' = clock + wait
  /\ \/ /\ is_transient_remote_status(refusal.status)
        /\ Retry(clock + wait, retry_after)
     \/ /\ is_transient_remote_status(refusal.status) =>
             CannotRetry(clock + wait, retry_after)
        /\ UNCHANGED try
        /\ IF MayReplaceKey(refusal) THEN pc' = "replace" /\ UNCHANGED outcome
                                     ELSE Respond(refusal.status, None)
  /\ UNCHANGED <<config, call, wire, lease, conn, converter, delivered, answer,
                 charge, told>>

\* No answer, or one whose body cannot be read, which is not retried.
OpenRouterFails(wait) ==
  /\ pc = "await"
  /\ clock' = clock + wait
  /\ \/ Retry(clock + wait, None)
     \/ Respond(502, None) /\ UNCHANGED try
  /\ UNCHANGED <<config, call, wire, lease, conn, converter, delivered, answer,
                 charge, told>>

Wake(late) ==
  /\ pc = "sleep"
  /\ clock' = clock + try.delay + late
  /\ try' = [try EXCEPT !.attempt = @ + 1, !.delay = 0]
  /\ pc' = "send"
  /\ UNCHANGED <<config, call, wire, lease, conn, converter, delivered, answer,
                 charge, told, outcome>>

\* The refused key is retired, and another lease obtained; a retirement that
\* fails is the application's answer.
ReplaceKey ==
  /\ pc = "replace"
  /\ lease' = None
  /\ \/ /\ try' = [try EXCEPT !.replaced = TRUE]
        /\ pc' = "lease"
        /\ UNCHANGED outcome
     \/ Respond(502, None) /\ UNCHANGED try
  /\ UNCHANGED <<config, call, wire, clock, conn, converter, delivered, answer,
                 charge, told>>

\* The answer to a request for an event stream is no JSON, also on endpoints
\* that do not stream.
DirectPayloads ==
  IF Has(wire.body, "stream") /\ wire.body["stream"] = TRUE
  THEN {[kind |-> "not json", text |-> None]}
  ELSE [kind : {"choices"}, text : Texts \cup {None}]

OpenRouterAnswers(payload) ==
  /\ pc = "await"
  /\ ~ Streams(call)
  /\ \/ payload \in DirectPayloads /\ RespondWith(payload)
     \/ Respond(502, None)
  /\ UNCHANGED <<config, call, wire, clock, lease, try, conn, converter, delivered,
                 answer, charge, told>>

-----------------------------------------------------------------------------
(* The streams: chat completions are passed on, Ollama's are converted *)

OpenRouterStreams(break) ==
  /\ pc = "await"
  /\ Streams(call)
  /\ conn' = [NoConn EXCEPT !.break = break]
  /\ call' = [NoCall EXCEPT !.endpoint = call.endpoint]
  /\ wire' = None /\ lease' = None /\ try' = FirstTry /\ clock' = 0
  /\ pc' = "stream"
  /\ UNCHANGED <<config, converter, delivered, answer, charge, told, outcome>>

\* OpenRouter writes the next line of its answer.
UpstreamWrites(line) ==
  /\ pc = "stream" /\ conn.ended = None /\ Len(conn.lines) < MaxLines
  /\ conn' = [conn EXCEPT !.lines = Append(@, line),
                          !.text = @ \o Stream!LinePieces(line) \o conn.break]
  /\ UNCHANGED <<config, pc, call, wire, clock, lease, try, converter, delivered,
                 answer, charge, told, outcome>>

\* The next poll of the upstream: what was converted has been handed over.
Polling ==
  /\ pc = "stream"
  /\ converter.output = << >>
  /\ ~ converter.finished
  /\ conn.ended = None

UpstreamSends(n) ==
  LET chunk == SubSeq(conn.text, 1, n)
  IN  /\ Polling
      /\ conn' = [conn EXCEPT !.text = SubSeq(@, n + 1, Len(@))]
      /\ IF call.endpoint = "chat"
         THEN delivered' = delivered \o chunk /\ UNCHANGED converter
         ELSE converter' = Stream!ChunkArrives(converter, chunk) /\ UNCHANGED delivered
      /\ UNCHANGED <<config, pc, call, wire, clock, lease, try, answer, charge, told, outcome>>

\* The connection ends, possibly before the answer does.
UpstreamCloses ==
  /\ Polling
  /\ conn' = [conn EXCEPT !.ended = "closed"]
  /\ converter' = IF call.endpoint = "chat" THEN converter
                  ELSE Stream!UpstreamEnds(converter)
  /\ UNCHANGED <<config, pc, call, wire, clock, lease, try, delivered, answer, charge,
                 told, outcome>>

\* The connection breaks, at the latest when the HTTP client's time is over.
UpstreamBreaks ==
  /\ Polling
  /\ conn' = [conn EXCEPT !.ended = "broken"]
  /\ IF call.endpoint = "chat"
     THEN delivered' = Append(delivered, Stream!Piece("broken", 0)) /\ UNCHANGED converter
     ELSE converter' = Stream!UpstreamBreaks(converter) /\ UNCHANGED delivered
  /\ UNCHANGED <<config, pc, call, wire, clock, lease, try, answer, charge, told, outcome>>

\* The application is handed the oldest converted line.
Deliver ==
  /\ pc = "stream"
  /\ converter.output # << >>
  /\ delivered' = Append(delivered, Head(converter.output))
  /\ converter' = [converter EXCEPT !.output = Tail(@)]
  /\ UNCHANGED <<config, pc, call, wire, clock, lease, try, conn, answer, charge,
                 told, outcome>>

StreamEnds ==
  /\ pc = "stream"
  /\ converter.output = << >>
  /\ IF call.endpoint = "chat" THEN conn.ended # None ELSE converter.finished
  /\ Respond(200, None)
  /\ UNCHANGED <<config, call, wire, clock, lease, try, conn, converter, delivered,
                 answer, charge, told>>

-----------------------------------------------------------------------------
(* The proxied path: the provider of the server answers and charges *)

\* A provider error leaves the request reserved; the daemon reports it.
ProviderFails ==
  /\ pc \in {"provider", "metered"}
  /\ Respond(502, None)
  /\ UNCHANGED <<config, call, wire, clock, lease, try, conn, converter, delivered,
                 answer, charge, told>>

\* The echo provider returns the envelope it got.
EchoProvider ==
  /\ pc = "provider" /\ config.provider = "echo"
  /\ charge' = config.fixed_charge
  /\ RespondWith([kind |-> "other", text |-> None])
  /\ UNCHANGED <<config, call, wire, clock, lease, try, conn, converter, delivered,
                 answer, told>>

\* The upstream of the HTTP provider may name the charge; a header that
\* cannot be read is an error (ProviderFails).
HttpProxyProvider(header, payload) ==
  /\ pc = "provider" /\ config.provider = "http-proxy"
  /\ charge' = IF header = None THEN config.fixed_charge ELSE header
  /\ RespondWith(payload)
  /\ UNCHANGED <<config, call, wire, clock, lease, try, conn, converter, delivered,
                 answer, told>>

RequestModel(body) == IF Has(body, "model") /\ body["model"] # Null THEN body["model"]
                                                                   ELSE None

\* The metered provider shapes the request and picks the upstream, whose key
\* must be configured.
execute_passthrough ==
  LET envelope == decode_envelope(Envelope(Paths[call.endpoint], call.body))
      body     == normalize_chat_request(envelope.path, envelope.body)
      upstream == route_upstream(RequestModel(body))
  IN  /\ pc = "provider" /\ config.provider = "metered"
      /\ IF upstream \in config.keys
         THEN /\ wire' = [path |-> upstream, body |-> UpstreamBody(upstream, body)]
              /\ pc' = "metered"
              /\ UNCHANGED outcome
         ELSE Respond(502, None) /\ UNCHANGED wire
      /\ UNCHANGED <<config, call, clock, lease, try, conn, converter, delivered,
                     answer, charge, told>>

MeteredAnswer(a, payload) ==
  /\ pc = "metered"
  /\ answer' = a
  /\ charge' \in MeteredCharges(a, RequestModel(wire.body))
  /\ RespondWith(payload)
  /\ UNCHANGED <<config, call, wire, clock, lease, try, conn, converter, delivered, told>>

-----------------------------------------------------------------------------

\* The application takes its answer or hangs up on a stream, and may call again.
EndCall ==
  /\ pc \in {"answered", "stream"}
  /\ pc' = "idle" /\ call' = NoCall /\ wire' = None
  /\ clock' = 0 /\ lease' = None /\ try' = FirstTry
  /\ conn' = NoConn /\ converter' = Stream!OllamaStreamState /\ delivered' = << >>
  /\ answer' = None /\ charge' = None /\ told' = None /\ outcome' = None
  /\ UNCHANGED config

Lease ==
  \/ \E now \in Phases, left \in Lifetimes, served \in BOOLEAN :
       ObtainLease(now, left, served)
  \/ \E refusal \in OaRefusals : LeaseRefused(refusal)
  \/ \E status \in {400, 402, 409, 502} : LeaseFails(status)

OpenRouter ==
  \/ \E refusal \in Refusals, after \in RetryAfters \cup {None}, wait \in Waits :
       OpenRouterRefuses(refusal, after, wait)
  \/ \E wait \in Waits : OpenRouterFails(wait)
  \/ \E payload \in Payloads(Texts) : OpenRouterAnswers(payload)
  \/ \E break \in {<<Stream!NewLine>>, <<Stream!Return, Stream!NewLine>>} :
       OpenRouterStreams(break)

Provider ==
  \/ ProviderFails
  \/ EchoProvider
  \/ \E header \in {None, 0, Cap}, payload \in Payloads(Texts) :
       HttpProxyProvider(header, payload)
  \/ execute_passthrough
  \/ \E a \in Answers, kind \in {"choices", "other"} :
       MeteredAnswer(a, [kind |-> kind, text |-> None])

Next ==
  \/ \E c \in Calls : Receive(c)
  \/ Lease \/ Post \/ OpenRouter \/ \E late \in Overruns : Wake(late)
  \/ ReplaceKey
  \/ \E line \in Lines : UpstreamWrites(line)
  \/ \E n \in 1 .. Len(conn.text) : UpstreamSends(n)
  \/ UpstreamCloses \/ UpstreamBreaks \/ Deliver \/ StreamEnds
  \/ Provider
  \/ EndCall

Spec == Init /\ [][Next]_vars

\* The daemon goes on with a call, and what it waits for answers or fails: its
\* HTTP client gives every exchange, the body included, a limited time.
FairSpec ==
  /\ Spec
  /\ WF_vars(LeaseFails(502)) /\ WF_vars(Post)
  /\ WF_vars(\E wait \in Waits : OpenRouterFails(wait))
  /\ WF_vars(\E late \in Overruns : Wake(late)) /\ WF_vars(ReplaceKey)
  /\ WF_vars(UpstreamBreaks) /\ WF_vars(Deliver) /\ WF_vars(StreamEnds)
  /\ WF_vars(ProviderFails)

-----------------------------------------------------------------------------
(* Properties *)

\* The state of a call: an attempt is counted up to its maximum, and there is a
\* response exactly when the call is answered.
GatewayTypeOK ==
  /\ config \in Configs
  /\ pc \in {"idle", "lease", "send", "await", "sleep", "replace", "stream",
             "provider", "metered", "answered"}
  /\ call.endpoint \in DOMAIN Paths
  /\ try \in [attempt : 1 .. DIRECT_REMOTE_MAX_ATTEMPTS, replaced : BOOLEAN,
              delay : Nat, posted : Nat \cup {None}]
  /\ clock \in Nat
  /\ pc \in {"send", "await", "sleep", "replace"} =>
       lease \in [expires_at : Nat, served : BOOLEAN]
  /\ IF pc = "answered" THEN outcome \in Response ELSE outcome = None
  /\ charge \in Nat \cup {None}

\* The completion limits a caller may give on an endpoint.
Given(c) ==
  LET named == LimitKeys \cup {"max_output_tokens"}
      own   == {c.body[k] : k \in named \cap DOMAIN c.body}
  IN  IF Paths[c.endpoint] = "/v1/chat/completions" \/ ~ Has(Options(c.body), "num_predict")
      THEN own ELSE own \cup {Options(c.body)["num_predict"]}

\* What reaches OpenRouter with a bounded key is what the caller asked for
\* (openrouter_request): always a completion limit, the caller's own if one
\* was given in any of the dialects and the small default otherwise; the
\* caller's limits under OpenRouter's names unchanged; the prompt, as messages;
\* and the stream the endpoint is going to read.
RequestReachesUpstream ==
  pc = "await" =>
    LET body  == wire.body
        input == call.body
    IN  /\ HasLimit(body)
        /\ \A k \in LimitKeys \cap DOMAIN body :
             IF Given(call) = {} THEN body[k] = DIRECT_OPENROUTER_DEFAULT_MAX_TOKENS
                                 ELSE body[k] \in Given(call)
        /\ \A k \in (LimitKeys \cup {"model", "messages", "temperature"}) \cap DOMAIN input :
             body[k] = input[k]
        /\ Has(input, "input") /\ ~ Has(input, "messages") =>
             \/ Paths[call.endpoint] = "/v1/chat/completions" /\ body["input"] = input["input"]
             \/ body["messages"] = UserMessages(input["input"])
        /\ Streams(call) => body["stream"] = TRUE

\* However the upstream's bytes are cut into chunks, an Ollama client gets the
\* messages of the complete lines in order and, once the stream has ended,
\* exactly one terminator with the last finish reason and counts; nothing
\* follows it (OllamaStreamState).  A stream that was cut off inside a line
\* ends with the end of its complete lines, or with an error if the line was
\* not whole.  A chat client gets the bytes as they are.
StreamIsFaithful ==
  pc = "stream" =>
    LET whole    == Stream!TextOf(conn.lines, conn.break)
        received == SubSeq(whole, 1, Len(whole) - Len(conn.text))
        complete == SubSeq(conn.lines, 1, Cardinality({i \in DOMAIN received :
                                             received[i] = Stream!NewLine}))
        produced == delivered \o converter.output
        line     == conn.lines[Len(complete) + 1]
    IN  IF call.endpoint = "chat"
        THEN produced = received \o (IF conn.ended = "broken"
                                     THEN <<Stream!Piece("broken", 0)>> ELSE << >>)
        ELSE LET said == Stream!Translation(complete)
                 one  == Stream!Translation(Append(complete, line))
                 over == Stream!Ending(complete) # {}
             IN  CASE conn.ended = None \/ over -> produced = said
                   [] conn.ended = "broken" /\ ~ over ->
                        produced = Append(said, Stream!BrokenItem)
                   [] conn.ended = "closed" /\ ~ over ->
                        \/ produced = Append(said, Stream!DoneFor(complete))
                        \/ conn.text # << >> /\ produced = Append(said, Stream!BrokenItem)
                        \/ /\ conn.text # << >>
                           /\ Head(conn.text) \in {Stream!Return, Stream!NewLine}
                           /\ produced \in {one, Append(one, Stream!DoneFor(Append(complete, line)))}

\* A retry is sent while the key is certain to be alive (retry_fits_lease): the
\* whole-second comparison leaves room for the fraction of the second, for the
\* rounding of the delay and for the daemon waking up late.
RetryBeforeExpiry ==
  pc = "await" /\ try.attempt > 1 => try.posted < 4 * lease.expires_at

\* A retry that was found to fit still does, however late the daemon wakes up: at most
\* a second.
RetryFits ==
  /\ pc = "sleep" => /\ try.attempt < DIRECT_REMOTE_MAX_ATTEMPTS
                     /\ clock + try.delay + 4 < 4 * lease.expires_at
  /\ pc = "send" /\ try.attempt > 1 => clock < 4 * lease.expires_at

\* Through leases, attempts and a replaced key, the request is the one the call was
\* shaped into; the metered provider knows the model it asked for; and a charge is
\* reported with the answer it is for.
RequestIsKept ==
  /\ pc \in {"lease", "send", "await", "sleep", "replace"} =>
       /\ call \in Calls
       /\ wire = openrouter_request(Paths[call.endpoint], ShapedBody(call))
  /\ pc = "provider" => call \in Calls
  /\ pc = "metered" => RequestModel(wire.body) \in Seq(STRING) \cup {None}
  /\ answer # None => pc = "answered"

\* The state of a call at every point of its attempts: it is typed, with a response
\* exactly when it is answered, its request is the caller's, and no retry meets an
\* expired key.
GatewayInv == GatewayTypeOK /\ RetryBeforeExpiry /\ RetryFits /\ RequestIsKept

\* The metered provider charges what the call cost (derive_cost, openai_price,
\* usd_to_credits, clamp_charge): the operator is not underpaid below the cap,
\* the caller pays at most one credit more than the cost, free calls are free,
\* the cap holds, and the price is the one of the most specific entry.
FairCharge ==
  answer # None =>
    LET cost == RealCost(answer, RequestModel(wire.body))
    IN  /\ charge <= Cap
        /\ IF cost <= 0 THEN charge = 0
           ELSE /\ charge = Cap \/ 100 * charge >= cost
                /\ 100 * charge <= cost + 100

\* The caller of an endpoint that does not stream gets the assistant's text,
\* whichever of the OpenAI formats the upstream speaks, in the endpoint's own
\* format (response_text, chat_completion, responses_api, ollama_chat).
TextReachesCaller ==
  pc = "answered" /\ outcome.reply # None =>
    /\ outcome.reply.shape = [chat |-> "chat.completion", responses |-> "response",
                              ollama |-> "ollama", inference |-> "core"][call.endpoint]
    /\ outcome.said # None => outcome.reply.text = outcome.said

\* The server's report of a refused key names the limit the OA org means, never
\* the org's own wording, and the wait the org asked for, the header first
\* (parse_oa_rate_limit).
RateLimitIsReported ==
  told # None =>
    /\ told.report.reason \in OA!Meant(told.refusal.body)
    /\ told.refusal.header # None => told.report.retry_after_seconds = told.refusal.header
    /\ told.refusal.header = None =>
         told.report.retry_after_seconds \in
           (IF OA!StatedWaits(told.refusal.body) = {} THEN {OA!DEFAULT_OA_RETRY_AFTER_SECONDS}
                                                ELSE OA!StatedWaits(told.refusal.body))

\* Every call is answered: refused keys are replaced once in a call, attempts
\* are counted, and a stream ends with its upstream (open_direct_openrouter_response,
\* send_openrouter_request, streaming_ollama_response).
EveryCallIsAnswered == (pc # "idle") ~> (pc \in {"idle", "answered"})

=============================================================================
