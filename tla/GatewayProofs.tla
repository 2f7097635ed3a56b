--------------------------- MODULE GatewayProofs ---------------------------
(***************************************************************************)
(* Proofs about Gateway: GatewayInv is inductive, and with the lemmas on   *)
(* the shims and on the prices it gives what reaches the upstream, what    *)
(* reaches the caller, what is charged and what is reported of a refusal.  *)
(***************************************************************************)
EXTENDS Gateway, PricingProofs

-----------------------------------------------------------------------------
(* What the actions compute *)

\* The text of a reply is a text of the upstream, or the whole payload.
LEMMA ReplyIsTyped ==
  ASSUME NEW endpoint \in DOMAIN Paths, NEW payload, payload.text \in Texts \cup {None}
  PROVE  ReplyFor(endpoint, payload) \in
           [shape : {"chat.completion", "response", "ollama", "core"},
            text : Texts \cup {None, Blob, Raw}]
<1>1. response_text(payload) \in Texts \cup {None, Blob, Raw}
  BY DEF response_text
<1>2. endpoint \in {"chat", "responses", "ollama", "inference"}
  BY DEF Paths
<1> QED BY <1>1, <1>2 DEF ReplyFor, chat_completion, responses_api, ollama_chat, Reply

\* What the upstreams may answer has a text or none.
LEMMA PayloadsHaveText ==
  ASSUME NEW payload \in Payloads(Texts) \cup DirectPayloads
  PROVE  payload.text \in Texts \cup {None}
<1> DEFINE other == [kind |-> "other", text |-> None]
           unread == [kind |-> "not json", text |-> None]
<1>1. \/ payload \in [kind : {"choices", "output"}, text : Texts \cup {None}]
      \/ payload \in [kind : {"string", "message"}, text : Texts]
      \/ payload = other
      \/ payload = unread
  BY DEF Payloads, DirectPayloads
<1>2. other.text = None /\ unread.text = None
  OBVIOUS
<1> HIDE DEF other, unread
<1> QED BY <1>1, <1>2

\* A response ends a call with a response of its type.
LEMMA RespondAnswers ==
  ASSUME NEW status \in Nat, Respond(status, None)
  PROVE  outcome' \in Response /\ pc' = "answered"
BY DEF Respond, Response

\* So does the conversion of an upstream's answer.
LEMMA RespondWithAnswers ==
  ASSUME NEW payload, payload.text \in Texts \cup {None}, RespondWith(payload),
         call.endpoint \in DOMAIN Paths
  PROVE  outcome' \in Response /\ pc' = "answered"
<1>1. ReplyFor(call.endpoint, payload) \in
        [shape : {"chat.completion", "response", "ollama", "core"},
         text : Texts \cup {None, Blob, Raw}]
  BY ReplyIsTyped
<1>2. (IF payload.kind = "message" THEN None ELSE payload.text) \in Texts \cup {None}
  OBVIOUS
<1> QED BY <1>1, <1>2 DEF RespondWith, Response

\* The delay before a retry is a whole number of quarters of a second.
LEMMA DelayIsNat ==
  ASSUME NEW attempt \in 1 .. 3, NEW after \in RetryAfters \cup {None}
  PROVE  direct_remote_retry_delay(attempt, after) \in Nat
<1>1. <<1, 2, 4>>[attempt] \in {1, 2, 4}
  OBVIOUS
<1>2. after # None => after \in Nat
  BY GatewayAssumption
<1> QED BY <1>1, <1>2 DEF direct_remote_retry_delay, DIRECT_REMOTE_RETRY_BASE_DELAY,
                          DIRECT_REMOTE_RETRY_MAX_DELAY

\* The whole seconds in which retry_fits_lease counts leave room for the rest of the
\* second, for the fraction of the delay and for a second of waking up late.
LEMMA FittingRetry ==
  ASSUME NEW now \in Nat, NEW expires_at \in Nat, NEW delay \in Nat,
         retry_fits_lease(now, expires_at, delay)
  PROVE  now + delay + 4 < 4 * expires_at
BY DEF retry_fits_lease

\* The model the metered provider asks for is the caller's.
LEMMA RequestModelIsKept ==
  ASSUME NEW endpoint \in DOMAIN Paths, NEW object, NEW upstream
  PROVE  LET envelope == decode_envelope(Envelope(Paths[endpoint], object))
             body     == normalize_chat_request(envelope.path, envelope.body)
         IN  RequestModel(UpstreamBody(upstream, body)) = RequestModel(object)
<1> DEFINE envelope == decode_envelope(Envelope(Paths[endpoint], object))
           body == normalize_chat_request(envelope.path, envelope.body)
           keys == {"model", "temperature", "max_tokens", "usage"}
           clean == CleanObject(object, keys)
           sent == UpstreamBody(upstream, body)
<1>1. envelope = Envelope(Paths[endpoint], object)
  BY DEF decode_envelope, Envelope, Has
<1>2. envelope.path = Paths[endpoint] /\ envelope.body = object
  BY <1>1 DEF Envelope
<1> HIDE DEF envelope
<1>3. /\ \A k \in keys \cap DOMAIN object : k \in DOMAIN clean /\ clean[k] = object[k]
      /\ \A k \in DOMAIN clean \ {"messages", "temperature", "max_tokens"} : k \in DOMAIN object
  BY CleanObjectIs
<1>4. /\ "model" \in DOMAIN clean <=> "model" \in DOMAIN object
      /\ "model" \in DOMAIN object => clean["model"] = object["model"]
  BY <1>3
<1> HIDE DEF clean
<1>5. /\ "model" \in DOMAIN body <=> "model" \in DOMAIN object
      /\ "model" \in DOMAIN object => body["model"] = object["model"]
  <2>1. CASE Paths[endpoint] = "/v1/chat/completions"
    <3>1. body = Insert(object, "stream", FALSE)
      BY <1>2, <2>1 DEF normalize_chat_request
    <3> QED BY <3>1 DEF Insert
  <2>2. CASE Paths[endpoint] # "/v1/chat/completions"
    <3>1. body = Insert(clean, "stream", FALSE)
      BY <1>2, <2>2 DEF normalize_chat_request, clean
    <3> QED BY <1>4, <3>1 DEF Insert
  <2> QED BY <2>1, <2>2
<1> HIDE DEF body
<1>6. /\ "model" \in DOMAIN sent <=> "model" \in DOMAIN body
      /\ "model" \in DOMAIN body => sent["model"] = body["model"]
  BY DEF UpstreamBody, Insert, OrInsert
<1> HIDE DEF sent
<1>7. RequestModel(sent) = RequestModel(object)
  BY <1>5, <1>6 DEF RequestModel, Has
<1> QED BY <1>7 DEF sent, body, envelope

-----------------------------------------------------------------------------
(* GatewayInv is inductive: one lemma for each action *)

\* The idle call is of the chat endpoint.
LEMMA NoCallIsTyped ==
  NoCall.endpoint \in DOMAIN Paths
BY DEF NoCall, Paths

\* The first try is typed.
LEMMA FirstTryIsTyped ==
  FirstTry \in [attempt : 1 .. DIRECT_REMOTE_MAX_ATTEMPTS, replaced : BOOLEAN,
                delay : Nat, posted : Nat \cup {None}]
BY DEF FirstTry, DIRECT_REMOTE_MAX_ATTEMPTS

\* A daemon without a call satisfies the invariant.
LEMMA InitHolds ==
  ASSUME Init
  PROVE  GatewayInv
BY NoCallIsTyped, FirstTryIsTyped
   DEF Init, GatewayInv, GatewayTypeOK, RetryBeforeExpiry, RetryFits, RequestIsKept

\* A step that ends a call keeps the invariant: it leaves a response of its type and
\* no claim on the attempts.
LEMMA AnsweringKeepsInv ==
  ASSUME GatewayTypeOK, pc' = "answered", outcome' \in Response,
         call.endpoint' \in DOMAIN Paths, UNCHANGED <<config, try>>,
         clock' \in Nat, charge' \in Nat \cup {None}
  PROVE  GatewayInv'
<1>1. GatewayTypeOK'
  BY DEF GatewayTypeOK
<1> QED BY <1>1 DEF GatewayInv, RetryBeforeExpiry, RetryFits, RequestIsKept

\* Receive: the request is shaped from the call that is now served.
LEMMA ReceiveKeepsInv ==
  ASSUME GatewayInv, NEW c \in Calls, Receive(c)
  PROVE  GatewayInv'
<1>1. c.endpoint \in DOMAIN Paths
  BY GatewayAssumption
<1>2. CASE Respond(400, None)
  <2>1. outcome' \in Response /\ pc' = "answered"
    BY <1>2, RespondAnswers
  <2>2. UNCHANGED <<config, try, clock, charge>> /\ call' = c
    BY DEF Receive
  <2> QED BY <1>1, <2>1, <2>2, AnsweringKeepsInv DEF GatewayInv, GatewayTypeOK
<1>3. CASE ~ Respond(400, None)
  <2>1. /\ pc = "idle" /\ call' = c /\ pc' \in {"provider", "lease"} /\ UNCHANGED outcome
        /\ pc' = "lease" => wire' = openrouter_request(Paths[c.endpoint], ShapedBody(c))
        /\ UNCHANGED <<config, try, clock, charge, answer, lease>>
    BY <1>3 DEF Receive
  <2>2. GatewayTypeOK'
    BY <1>1, <2>1 DEF GatewayInv, GatewayTypeOK
  <2>3. RequestIsKept'
    BY <2>1 DEF GatewayInv, RequestIsKept
  <2> QED BY <2>1, <2>2, <2>3 DEF GatewayInv, RetryBeforeExpiry, RetryFits
<1> QED BY <1>2, <1>3

\* ObtainLease: attempts are counted anew with a new key.
LEMMA ObtainLeaseKeepsInv ==
  ASSUME GatewayInv, NEW now \in Phases, NEW left \in Lifetimes, NEW served \in BOOLEAN,
         ObtainLease(now, left, served)
  PROVE  GatewayInv'
<1>1. now \in Nat /\ left \in Nat
  BY GatewayAssumption
<1>2. /\ try' \in [attempt : 1 .. DIRECT_REMOTE_MAX_ATTEMPTS, replaced : BOOLEAN,
                   delay : Nat, posted : Nat \cup {None}]
      /\ try'.attempt = 1
  BY DEF ObtainLease, GatewayInv, GatewayTypeOK, DIRECT_REMOTE_MAX_ATTEMPTS
<1>3. GatewayTypeOK'
  BY <1>1, <1>2 DEF ObtainLease, GatewayInv, GatewayTypeOK
<1>4. RequestIsKept'
  BY DEF ObtainLease, GatewayInv, RequestIsKept
<1>5. RetryBeforeExpiry' /\ RetryFits'
  BY <1>2 DEF ObtainLease, RetryBeforeExpiry, RetryFits
<1> QED BY <1>3, <1>4, <1>5 DEF GatewayInv

\* LeaseRefused and LeaseFails end the call.
LEMMA LeaseEndsKeepInv ==
  ASSUME GatewayInv,
         \/ \E refusal \in OaRefusals : LeaseRefused(refusal)
         \/ \E status \in {400, 402, 409, 502} : LeaseFails(status)
  PROVE  GatewayInv'
<1>1. PICK status \in {400, 402, 409, 502} : Respond(status, None)
  BY DEF LeaseRefused, LeaseFails
<1>2. outcome' \in Response /\ pc' = "answered"
  BY <1>1, RespondAnswers
<1>3. UNCHANGED <<config, try, clock, charge>> /\ call' \in {call, NoCall}
  BY DEF LeaseRefused, LeaseFails
<1> QED BY <1>2, <1>3, NoCallIsTyped, AnsweringKeepsInv DEF GatewayInv, GatewayTypeOK

\* Post: a retry that is sent was found to fit.
LEMMA PostKeepsInv ==
  ASSUME GatewayInv, Post
  PROVE  GatewayInv'
<1>1. /\ try' \in [attempt : 1 .. DIRECT_REMOTE_MAX_ATTEMPTS, replaced : BOOLEAN,
                   delay : Nat, posted : Nat \cup {None}]
      /\ try'.attempt = try.attempt /\ try'.posted = clock
  BY DEF Post, GatewayInv, GatewayTypeOK
<1>2. GatewayTypeOK'
  BY <1>1 DEF Post, GatewayInv, GatewayTypeOK
<1>3. RequestIsKept'
  BY DEF Post, GatewayInv, RequestIsKept
<1>4. RetryBeforeExpiry' /\ RetryFits'
  BY <1>1 DEF Post, GatewayInv, RetryBeforeExpiry, RetryFits
<1> QED BY <1>2, <1>3, <1>4 DEF GatewayInv

\* Retry: the daemon sleeps only if the retry fits the lease.
LEMMA RetryKeepsInv ==
  ASSUME GatewayInv, pc = "await", NEW wait \in Waits, NEW after \in RetryAfters \cup {None},
         clock' = clock + wait, Retry(clock + wait, after),
         UNCHANGED <<config, call, wire, lease, answer, charge>>
  PROVE  GatewayInv'
<1> DEFINE delay == direct_remote_retry_delay(try.attempt, after)
<1>1. /\ try.attempt \in 1 .. 3 /\ clock \in Nat /\ wait \in Nat
      /\ lease \in [expires_at : Nat, served : BOOLEAN]
  BY GatewayAssumption DEF GatewayInv, GatewayTypeOK, DIRECT_REMOTE_MAX_ATTEMPTS
<1>2. delay \in Nat
  BY <1>1, DelayIsNat
<1>3. /\ try.attempt < DIRECT_REMOTE_MAX_ATTEMPTS
      /\ retry_fits_lease(clock + wait, lease.expires_at, delay)
      /\ try' = [try EXCEPT !.delay = delay]
      /\ pc' = "sleep" /\ UNCHANGED outcome
  BY DEF Retry
<1> HIDE DEF delay
<1>4. clock' + delay + 4 < 4 * lease.expires_at
  BY <1>1, <1>2, <1>3, FittingRetry
<1>5. /\ try' \in [attempt : 1 .. DIRECT_REMOTE_MAX_ATTEMPTS, replaced : BOOLEAN,
                   delay : Nat, posted : Nat \cup {None}]
      /\ try'.attempt = try.attempt /\ try'.delay = delay
  BY <1>2, <1>3 DEF GatewayInv, GatewayTypeOK
<1>6. GatewayTypeOK'
  BY <1>1, <1>3, <1>5 DEF GatewayInv, GatewayTypeOK
<1>7. RequestIsKept'
  BY <1>3 DEF GatewayInv, RequestIsKept
<1>8. RetryBeforeExpiry' /\ RetryFits'
  BY <1>3, <1>4, <1>5 DEF RetryBeforeExpiry, RetryFits
<1> QED BY <1>6, <1>7, <1>8 DEF GatewayInv

\* OpenRouterRefuses: a retry, a key to be replaced, or the application's answer.
LEMMA OpenRouterRefusesKeepsInv ==
  ASSUME GatewayInv, NEW refusal \in Refusals, NEW after \in RetryAfters \cup {None},
         NEW wait \in Waits, OpenRouterRefuses(refusal, after, wait)
  PROVE  GatewayInv'
<1>1. wait \in Nat /\ refusal.status \in Nat
  BY GatewayAssumption DEF Refusals
<1>2. CASE Retry(clock + wait, after)
  BY <1>2, RetryKeepsInv DEF OpenRouterRefuses
<1>3. CASE UNCHANGED try /\ Respond(refusal.status, None)
  <2>1. outcome' \in Response /\ pc' = "answered"
    BY <1>1, <1>3, RespondAnswers
  <2> QED BY <1>1, <1>3, <2>1, AnsweringKeepsInv DEF OpenRouterRefuses, GatewayInv, GatewayTypeOK
<1>4. CASE UNCHANGED <<try, outcome>> /\ pc' = "replace"
  <2>1. GatewayTypeOK'
    BY <1>1, <1>4 DEF OpenRouterRefuses, GatewayInv, GatewayTypeOK
  <2>2. RequestIsKept'
    BY <1>4 DEF OpenRouterRefuses, GatewayInv, RequestIsKept
  <2> QED BY <1>4, <2>1, <2>2 DEF GatewayInv, RetryBeforeExpiry, RetryFits
<1> QED BY <1>2, <1>3, <1>4 DEF OpenRouterRefuses

\* OpenRouterFails: a retry, or the application's answer.
LEMMA OpenRouterFailsKeepsInv ==
  ASSUME GatewayInv, NEW wait \in Waits, OpenRouterFails(wait)
  PROVE  GatewayInv'
<1>1. wait \in Nat
  BY GatewayAssumption
<1>2. CASE Retry(clock + wait, None)
  BY <1>2, RetryKeepsInv DEF OpenRouterFails
<1>3. CASE UNCHANGED try /\ Respond(502, None)
  <2>1. outcome' \in Response /\ pc' = "answered"
    BY <1>3, RespondAnswers
  <2> QED BY <1>1, <1>3, <2>1, AnsweringKeepsInv DEF OpenRouterFails, GatewayInv, GatewayTypeOK
<1> QED BY <1>2, <1>3 DEF OpenRouterFails

\* Wake: however late, at most a second, the key is still alive.
LEMMA WakeKeepsInv ==
  ASSUME GatewayInv, NEW late \in Overruns, Wake(late)
  PROVE  GatewayInv'
<1>1. late \in 0 .. 4
  BY GatewayAssumption
<1>2. /\ try \in [attempt : 1 .. 3, replaced : BOOLEAN, delay : Nat, posted : Nat \cup {None}]
      /\ clock \in Nat /\ lease \in [expires_at : Nat, served : BOOLEAN]
      /\ try.attempt < 3 /\ clock + try.delay + 4 < 4 * lease.expires_at
  BY DEF Wake, GatewayInv, GatewayTypeOK, RetryFits, DIRECT_REMOTE_MAX_ATTEMPTS
<1>3. /\ try' \in [attempt : 1 .. 3, replaced : BOOLEAN, delay : Nat, posted : Nat \cup {None}]
      /\ clock' \in Nat /\ clock' < 4 * lease.expires_at
  <2>1. try' = [try EXCEPT !.attempt = try.attempt + 1, !.delay = 0] /\ clock' = clock + try.delay + late
    BY DEF Wake
  <2>2. try.attempt + 1 \in 1 .. 3
    BY <1>2
  <2>3. clock' \in Nat /\ clock' < 4 * lease.expires_at
    BY <1>1, <1>2, <2>1
  <2> QED BY <1>2, <2>1, <2>2, <2>3
<1>4. GatewayTypeOK'
  BY <1>3 DEF Wake, GatewayInv, GatewayTypeOK, DIRECT_REMOTE_MAX_ATTEMPTS
<1>5. RequestIsKept'
  BY DEF Wake, GatewayInv, RequestIsKept
<1>6. RetryBeforeExpiry' /\ RetryFits'
  BY <1>3 DEF Wake, RetryBeforeExpiry, RetryFits
<1> QED BY <1>4, <1>5, <1>6 DEF GatewayInv

\* ReplaceKey: another lease is asked for, for the same request.
LEMMA ReplaceKeyKeepsInv ==
  ASSUME GatewayInv, ReplaceKey
  PROVE  GatewayInv'
<1>1. CASE Respond(502, None) /\ UNCHANGED try
  <2>1. outcome' \in Response /\ pc' = "answered"
    BY <1>1, RespondAnswers
  <2> QED BY <1>1, <2>1, AnsweringKeepsInv DEF ReplaceKey, GatewayInv, GatewayTypeOK
<1>2. CASE try' = [try EXCEPT !.replaced = TRUE] /\ pc' = "lease" /\ UNCHANGED outcome
  <2>1. GatewayTypeOK'
    BY <1>2 DEF ReplaceKey, GatewayInv, GatewayTypeOK
  <2>2. RequestIsKept'
    BY <1>2 DEF ReplaceKey, GatewayInv, RequestIsKept
  <2> QED BY <1>2, <2>1, <2>2 DEF GatewayInv, RetryBeforeExpiry, RetryFits
<1> QED BY <1>1, <1>2 DEF ReplaceKey

\* OpenRouterAnswers: the application gets the answer in its own format.
LEMMA OpenRouterAnswersKeepsInv ==
  ASSUME GatewayInv, NEW payload \in Payloads(Texts), OpenRouterAnswers(payload)
  PROVE  GatewayInv'
<1>1. call.endpoint \in DOMAIN Paths /\ payload.text \in Texts \cup {None}
  BY PayloadsHaveText DEF GatewayInv, GatewayTypeOK
<1>2. outcome' \in Response /\ pc' = "answered"
  BY <1>1, RespondWithAnswers, RespondAnswers DEF OpenRouterAnswers
<1> QED BY <1>2, AnsweringKeepsInv DEF OpenRouterAnswers, GatewayInv, GatewayTypeOK

\* OpenRouterStreams: the attempts of the call are over.
LEMMA OpenRouterStreamsKeepsInv ==
  ASSUME GatewayInv, NEW break, OpenRouterStreams(break)
  PROVE  GatewayInv'
<1>1. call'.endpoint = call.endpoint
  BY DEF OpenRouterStreams, NoCall
<1>2. GatewayTypeOK'
  BY <1>1, FirstTryIsTyped DEF OpenRouterStreams, GatewayInv, GatewayTypeOK
<1>3. RequestIsKept'
  BY DEF OpenRouterStreams, GatewayInv, RequestIsKept
<1> QED BY <1>2, <1>3 DEF OpenRouterStreams, GatewayInv, RetryBeforeExpiry, RetryFits

\* What the invariant speaks of, which a stream does not change.
kept == <<config, pc, call, wire, clock, lease, try, answer, charge, outcome>>

\* A step that changes nothing the invariant speaks of.
LEMMA StutteringKeepsInv ==
  ASSUME GatewayInv, UNCHANGED kept
  PROVE  GatewayInv'
<1>1. GatewayTypeOK'
  BY DEF kept, GatewayInv, GatewayTypeOK
<1>2. RequestIsKept'
  BY DEF kept, GatewayInv, RequestIsKept
<1> QED BY <1>1, <1>2 DEF kept, GatewayInv, RetryBeforeExpiry, RetryFits

\* The steps of a stream, until it ends.
LEMMA StreamKeepsInv ==
  ASSUME GatewayInv,
         \/ \E line \in Lines : UpstreamWrites(line)
         \/ \E n \in 1 .. Len(conn.text) : UpstreamSends(n)
         \/ UpstreamCloses \/ UpstreamBreaks \/ Deliver
  PROVE  GatewayInv'
<1>1. UNCHANGED kept
  BY DEF kept, UpstreamWrites, UpstreamSends, UpstreamCloses, UpstreamBreaks, Deliver
<1> QED BY <1>1, StutteringKeepsInv

\* StreamEnds, ProviderFails and the two providers without a meter end the call.
LEMMA ProviderEndsKeepInv ==
  ASSUME GatewayInv,
         \/ StreamEnds \/ ProviderFails \/ EchoProvider
         \/ \E header \in {None, 0, Cap}, payload \in Payloads(Texts) :
              HttpProxyProvider(header, payload)
  PROVE  GatewayInv'
<1>1. UNCHANGED <<config, call, try, clock>>
  BY DEF StreamEnds, ProviderFails, EchoProvider, HttpProxyProvider
<1>2. charge' \in Nat \cup {None}
  <2>1. config.fixed_charge \in Nat
    BY GatewayAssumption DEF GatewayInv, GatewayTypeOK
  <2> QED BY <2>1, PricingAssumption DEF StreamEnds, ProviderFails, EchoProvider, HttpProxyProvider,
                                         GatewayInv, GatewayTypeOK
<1>3. outcome' \in Response /\ pc' = "answered"
  <2>1. call.endpoint \in DOMAIN Paths
    BY DEF GatewayInv, GatewayTypeOK
  <2>2. CASE StreamEnds \/ ProviderFails
    BY <2>2, RespondAnswers DEF StreamEnds, ProviderFails
  <2>3. CASE EchoProvider
    BY <2>1, <2>3, RespondWithAnswers DEF EchoProvider
  <2>4. ASSUME NEW header \in {None, 0, Cap}, NEW payload \in Payloads(Texts),
               HttpProxyProvider(header, payload)
        PROVE  outcome' \in Response /\ pc' = "answered"
    BY <2>1, <2>4, RespondWithAnswers, PayloadsHaveText DEF HttpProxyProvider
  <2> QED BY <2>2, <2>3, <2>4
<1> QED BY <1>1, <1>2, <1>3, AnsweringKeepsInv DEF GatewayInv, GatewayTypeOK

\* execute_passthrough: the model it asks for is the caller's.
LEMMA PassthroughKeepsInv ==
  ASSUME GatewayInv, execute_passthrough
  PROVE  GatewayInv'
<1> DEFINE envelope == decode_envelope(Envelope(Paths[call.endpoint], call.body))
           body == normalize_chat_request(envelope.path, envelope.body)
           upstream == route_upstream(RequestModel(body))
<1>1. CASE Respond(502, None)
  <2>1. outcome' \in Response /\ pc' = "answered"
    BY <1>1, RespondAnswers
  <2>2. UNCHANGED <<config, call, try, clock, charge>>
    BY DEF execute_passthrough
  <2> QED BY <2>1, <2>2, AnsweringKeepsInv DEF GatewayInv, GatewayTypeOK
<1>2. CASE ~ Respond(502, None)
  <2>1. /\ pc = "provider" /\ pc' = "metered"
        /\ UNCHANGED <<config, call, try, clock, charge, outcome, answer, lease>>
        /\ wire' = [path |-> upstream, body |-> UpstreamBody(upstream, body)]
    BY <1>2 DEF execute_passthrough
  <2>2. call \in Calls /\ call.endpoint \in DOMAIN Paths
    BY <2>1 DEF GatewayInv, GatewayTypeOK, RequestIsKept
  <2>3. RequestModel(UpstreamBody(upstream, body)) = RequestModel(call.body)
    BY <2>2, RequestModelIsKept
  <2>4. RequestModel(call.body) \in Seq(STRING) \cup {None}
    BY <2>2, GatewayAssumption DEF RequestModel
  <2> HIDE DEF upstream, body
  <2>5. RequestModel(wire'.body) \in Seq(STRING) \cup {None}
    BY <2>1, <2>3, <2>4
  <2>6. GatewayTypeOK'
    BY <2>1 DEF GatewayInv, GatewayTypeOK
  <2>7. RequestIsKept'
    BY <2>1, <2>5 DEF GatewayInv, RequestIsKept
  <2> QED BY <2>1, <2>6, <2>7 DEF GatewayInv, RetryBeforeExpiry, RetryFits
<1> QED BY <1>1, <1>2

\* The answers of the upstreams are what costs are derived of.
LEMMA AnswersAreTyped ==
  ASSUME NEW a \in Answers
  PROVE  IsAnswer(a)
BY GatewayAssumption DEF IsAnswer

\* MeteredAnswer: the charge is a whole number of credits.
LEMMA MeteredAnswerKeepsInv ==
  ASSUME GatewayInv, NEW a \in Answers, NEW kind,
         MeteredAnswer(a, [kind |-> kind, text |-> None])
  PROVE  GatewayInv'
<1>1. RequestModel(wire.body) \in Seq(STRING) \cup {None}
  BY DEF MeteredAnswer, GatewayInv, RequestIsKept
<1>2. charge' \in Nat
  <2>1. charge' \in MeteredCharges(a, RequestModel(wire.body))
    BY DEF MeteredAnswer
  <2> QED BY <1>1, <2>1, AnswersAreTyped, ChargeIsFair
<1>3. outcome' \in Response /\ pc' = "answered"
  BY RespondWithAnswers DEF MeteredAnswer, GatewayInv, GatewayTypeOK
<1>4. UNCHANGED <<config, call, try, clock>>
  BY DEF MeteredAnswer
<1> QED BY <1>2, <1>3, <1>4, AnsweringKeepsInv DEF GatewayInv, GatewayTypeOK

\* EndCall: the daemon is as it was before the call.
LEMMA EndCallKeepsInv ==
  ASSUME GatewayInv, EndCall
  PROVE  GatewayInv'
<1>1. GatewayTypeOK'
  BY NoCallIsTyped, FirstTryIsTyped DEF EndCall, GatewayInv, GatewayTypeOK
<1> QED BY <1>1 DEF EndCall, GatewayInv, RetryBeforeExpiry, RetryFits, RequestIsKept

\* Every step keeps the invariant.
LEMMA NextKeepsInv ==
  ASSUME GatewayInv, [Next]_vars
  PROVE  GatewayInv'
<1>1. CASE UNCHANGED vars
  <2>1. UNCHANGED kept
    BY <1>1 DEF vars, kept
  <2> QED BY <2>1, StutteringKeepsInv
<1>2. ASSUME NEW c \in Calls, Receive(c) PROVE GatewayInv'
  BY <1>2, ReceiveKeepsInv
<1>3. CASE Lease
  BY <1>3, ObtainLeaseKeepsInv, LeaseEndsKeepInv DEF Lease
<1>4. CASE Post
  BY <1>4, PostKeepsInv
<1>5. CASE OpenRouter
  BY <1>5, OpenRouterRefusesKeepsInv, OpenRouterFailsKeepsInv, OpenRouterAnswersKeepsInv,
     OpenRouterStreamsKeepsInv DEF OpenRouter
<1>6. ASSUME NEW late \in Overruns, Wake(late) PROVE GatewayInv'
  BY <1>6, WakeKeepsInv
<1>7. CASE ReplaceKey
  BY <1>7, ReplaceKeyKeepsInv
<1>8. CASE \/ \E line \in Lines : UpstreamWrites(line)
           \/ \E n \in 1 .. Len(conn.text) : UpstreamSends(n)
           \/ UpstreamCloses \/ UpstreamBreaks \/ Deliver
  BY <1>8, StreamKeepsInv
<1>9. CASE StreamEnds
  BY <1>9, ProviderEndsKeepInv
<1>10. CASE Provider
  BY <1>10, ProviderEndsKeepInv, PassthroughKeepsInv, MeteredAnswerKeepsInv DEF Provider
<1>11. CASE EndCall
  BY <1>11, EndCallKeepsInv
<1> QED BY <1>1, <1>2, <1>3, <1>4, <1>5, <1>6, <1>7, <1>8, <1>9, <1>10, <1>11 DEF Next

\* At every point of every call the gateway's state is typed, its request is the one
\* the application's call was shaped into, and no retry is sent with an expired key
\* (retry_fits_lease, send_openrouter_request), for all lifetimes, delays and waits.
THEOREM GatewayInvariance ==
  Spec => []GatewayInv
<1>1. Init => GatewayInv
  BY InitHolds
<1>2. GatewayInv /\ [Next]_vars => GatewayInv'
  BY NextKeepsInv
<1> QED BY <1>1, <1>2, PTL DEF Spec

-----------------------------------------------------------------------------
(* What reaches the upstream *)

\* The body of the request for a shaped call: its stream defaults to none.
LEMMA StreamDefaults ==
  ASSUME NEW shaped
  PROVE  LET body == OrInsert(shaped, "stream", FALSE) IN
         /\ DOMAIN body = DOMAIN shaped \cup {"stream"}
         /\ \A k \in DOMAIN shaped : body[k] = shaped[k]
         /\ HasLimit(shaped) => HasLimit(body)
         /\ LimitKeys \cap DOMAIN body = LimitKeys \cap DOMAIN shaped
BY DEF OrInsert, HasLimit, Has, LimitKeys

\* The Ollama default of streaming changes no other key.
LEMMA ShapedBodyIs ==
  ASSUME NEW c
  PROVE  /\ \A k : k # "stream" => (k \in DOMAIN ShapedBody(c) <=> k \in DOMAIN c.body)
         /\ \A k \in DOMAIN c.body : k # "stream" => ShapedBody(c)[k] = c.body[k]
         /\ c.endpoint # "ollama" => ShapedBody(c) = c.body
         /\ c.endpoint = "ollama" /\ Streams(c) =>
              "stream" \in DOMAIN ShapedBody(c) /\ ShapedBody(c)["stream"] = TRUE
BY DEF ShapedBody, Insert

\* A chat completion goes upstream as the caller wrote it, with a limit.
LEMMA ChatRequestIsFaithful ==
  ASSUME NEW c, Paths[c.endpoint] = "/v1/chat/completions", c.endpoint # "ollama",
         pc = "await", call = c, wire = openrouter_request(Paths[c.endpoint], ShapedBody(c))
  PROVE  RequestReachesUpstream
<1> DEFINE input == c.body
           shaped == ensure_direct_completion_limit(input)
           body == OrInsert(shaped, "stream", FALSE)
           named == LimitKeys \cup {"max_output_tokens"}
           own == {input[k] : k \in named \cap DOMAIN input}
<1>1. ShapedBody(c) = input
  BY ShapedBodyIs
<1>2. wire.body = body
  BY <1>1 DEF openrouter_request
<1>3. Given(c) = own
  BY DEF Given
<1>4. /\ HasLimit(shaped)
      /\ \A k \in LimitKeys \cap DOMAIN shaped :
           IF own = {} THEN shaped[k] = DIRECT_OPENROUTER_DEFAULT_MAX_TOKENS ELSE shaped[k] \in own
  BY ChatLimits
<1>5. \A k \in DOMAIN input \ {"max_output_tokens"} : k \in DOMAIN shaped /\ shaped[k] = input[k]
  BY ChatKeepsKeys
<1>6. Streams(c) => "stream" \in DOMAIN input /\ input["stream"] = TRUE
  BY DEF Streams, stream_requested, Has
<1> HIDE DEF shaped, own
<1>7. /\ DOMAIN body = DOMAIN shaped \cup {"stream"}
      /\ \A k \in DOMAIN shaped : body[k] = shaped[k]
      /\ HasLimit(body)
      /\ LimitKeys \cap DOMAIN body = LimitKeys \cap DOMAIN shaped
  BY <1>4, StreamDefaults
<1> HIDE DEF body
<1>8. \A k \in LimitKeys \cap DOMAIN body :
        IF Given(c) = {} THEN body[k] = DIRECT_OPENROUTER_DEFAULT_MAX_TOKENS
                         ELSE body[k] \in Given(c)
  BY <1>3, <1>4, <1>7
<1>9. \A k \in DOMAIN input \ {"max_output_tokens"} : body[k] = input[k]
  BY <1>5, <1>7
<1>10. \A k \in (LimitKeys \cup {"model", "messages", "temperature"}) \cap DOMAIN input :
         body[k] = input[k]
  BY <1>9 DEF LimitKeys
<1>11. Has(input, "input") => body["input"] = input["input"]
  BY <1>9 DEF Has
<1>12. Streams(c) => body["stream"] = TRUE
  BY <1>6, <1>9
<1> QED BY <1>2, <1>7, <1>8, <1>10, <1>11, <1>12 DEF RequestReachesUpstream

\* The request of another endpoint becomes a chat completion that asks for the same.
LEMMA CleanRequestIsFaithful ==
  ASSUME NEW c, Paths[c.endpoint] \notin {"/v1/chat/completions", CHAT_PATH}, c.endpoint # "chat",
         pc = "await", call = c, wire = openrouter_request(Paths[c.endpoint], ShapedBody(c))
  PROVE  RequestReachesUpstream
<1> DEFINE input == c.body
           object == ShapedBody(c)
           shaped == CleanRequest(object)
           body == OrInsert(shaped, "stream", FALSE)
           named == LimitKeys \cup {"max_output_tokens"}
           own == {object[k] : k \in named \cap DOMAIN object}
           given == IF Has(Options(object), "num_predict")
                    THEN own \cup {Options(object)["num_predict"]} ELSE own
<1>1. wire.body = body
  BY DEF openrouter_request
<1>2. /\ \A k : k # "stream" => (k \in DOMAIN object <=> k \in DOMAIN input)
      /\ \A k \in DOMAIN input : k # "stream" => object[k] = input[k]
  BY ShapedBodyIs
<1>3. Streams(c) => "stream" \in DOMAIN object /\ object["stream"] = TRUE
  BY ShapedBodyIs DEF Streams
<1>4. /\ HasLimit(shaped)
      /\ \A k \in LimitKeys \cap DOMAIN shaped :
           IF given = {} THEN shaped[k] = DIRECT_OPENROUTER_DEFAULT_MAX_TOKENS ELSE shaped[k] \in given
  BY CleanLimits
<1>5. /\ \A k \in (LimitKeys \cup {"model", "messages", "temperature", "stream"}) \cap DOMAIN object :
           k \in DOMAIN shaped /\ shaped[k] = object[k]
      /\ Has(object, "input") /\ ~ Has(object, "messages") =>
           "messages" \in DOMAIN shaped /\ shaped["messages"] = UserMessages(object["input"])
  BY CleanKeepsKeys
<1> HIDE DEF object
<1>6. Given(c) = given
  <2>1. Options(object) = Options(input)
    BY <1>2 DEF Options, Has
  <2>2. named \cap DOMAIN object = named \cap DOMAIN input
    BY <1>2 DEF LimitKeys
  <2>3. \A k \in named \cap DOMAIN input : object[k] = input[k]
    BY <1>2 DEF LimitKeys
  <2>4. own = {input[k] : k \in named \cap DOMAIN input}
    BY <2>2, <2>3
  <2> HIDE DEF own
  <2> QED BY <2>1, <2>4 DEF Given
<1> HIDE DEF shaped, given
<1>7. /\ DOMAIN body = DOMAIN shaped \cup {"stream"}
      /\ \A k \in DOMAIN shaped : body[k] = shaped[k]
      /\ HasLimit(body)
      /\ LimitKeys \cap DOMAIN body = LimitKeys \cap DOMAIN shaped
  BY <1>4, StreamDefaults
<1> HIDE DEF body
<1>8. \A k \in LimitKeys \cap DOMAIN body :
        IF Given(c) = {} THEN body[k] = DIRECT_OPENROUTER_DEFAULT_MAX_TOKENS
                         ELSE body[k] \in Given(c)
  BY <1>4, <1>6, <1>7
<1>9. \A k \in (LimitKeys \cup {"model", "messages", "temperature"}) \cap DOMAIN input :
        body[k] = input[k]
  BY <1>2, <1>5, <1>7 DEF LimitKeys
<1>10. Has(input, "input") /\ ~ Has(input, "messages") =>
         body["messages"] = UserMessages(input["input"])
  BY <1>2, <1>5, <1>7 DEF Has
<1>11. Streams(c) => body["stream"] = TRUE
  BY <1>3, <1>5, <1>7
<1> QED BY <1>1, <1>7, <1>8, <1>9, <1>10, <1>11 DEF RequestReachesUpstream

\* Whatever the application's body holds, the request that reaches OpenRouter with a
\* bounded key asks for what the application asked for, and always has a completion
\* limit (openrouter_request).
THEOREM GatewayRequestReachesUpstream ==
  Spec => []RequestReachesUpstream
<1>1. GatewayInv => RequestReachesUpstream
  <2> SUFFICES ASSUME GatewayInv, pc = "await" PROVE RequestReachesUpstream
    BY DEF RequestReachesUpstream
  <2>1. call \in Calls /\ wire = openrouter_request(Paths[call.endpoint], ShapedBody(call))
    BY DEF GatewayInv, RequestIsKept
  <2>2. call.endpoint \in {"chat", "responses", "ollama", "inference"}
    BY DEF GatewayInv, GatewayTypeOK, Paths
  <2>3. CASE call.endpoint \in {"chat", "inference"}
    <3>1. Paths[call.endpoint] = "/v1/chat/completions"
      BY <2>3 DEF Paths
    <3> QED BY <2>1, <2>3, <3>1, ChatRequestIsFaithful
  <2>4. CASE call.endpoint \in {"responses", "ollama"}
    <3>1. Paths[call.endpoint] \notin {"/v1/chat/completions", CHAT_PATH}
      BY <2>4 DEF Paths, CHAT_PATH
    <3> QED BY <2>1, <2>4, <3>1, CleanRequestIsFaithful
  <2> QED BY <2>2, <2>3, <2>4
<1> QED BY <1>1, GatewayInvariance, PTL

-----------------------------------------------------------------------------
(* What reaches the caller *)

\* The shape of a reply is the endpoint's, and its text the assistant's if the payload
\* is in one of the OpenAI formats.
LEMMA ReplyHasText ==
  ASSUME NEW endpoint \in DOMAIN Paths, NEW payload,
         payload.kind \in {"choices", "output", "string", "message"} \/ payload.text = None
  PROVE  LET reply == ReplyFor(endpoint, payload) IN
         /\ reply.shape = [chat |-> "chat.completion", responses |-> "response",
                           ollama |-> "ollama", inference |-> "core"][endpoint]
         /\ payload.kind # "message" /\ payload.text # None => reply.text = payload.text
<1>1. endpoint \in {"chat", "responses", "ollama", "inference"}
  BY DEF Paths
<1>2. payload.kind \in {"choices", "output", "string"} /\ payload.text # None =>
        response_text(payload) = payload.text
  BY DEF response_text
<1> QED BY <1>1, <1>2 DEF ReplyFor, chat_completion, responses_api, ollama_chat, Reply

\* What the upstreams may answer has a text in one of the known formats only.
LEMMA PayloadsAreKnown ==
  ASSUME NEW payload \in Payloads(Texts)
  PROVE  payload.kind \in {"choices", "output", "string", "message"} \/ payload.text = None
<1> DEFINE other == [kind |-> "other", text |-> None]
           unread == [kind |-> "not json", text |-> None]
<1>1. \/ payload \in [kind : {"choices", "output"}, text : Texts \cup {None}]
      \/ payload \in [kind : {"string", "message"}, text : Texts]
      \/ payload = other
      \/ payload = unread
  BY DEF Payloads
<1>2. other.text = None /\ unread.text = None
  OBVIOUS
<1> HIDE DEF other, unread
<1> QED BY <1>1, <1>2

\* A response without a reply says nothing of the text.
LEMMA RespondIsSilent ==
  ASSUME NEW status, Respond(status, None)
  PROVE  TextReachesCaller'
BY DEF Respond, TextReachesCaller

\* A converted answer has the text the upstream's answer had.
LEMMA RespondWithTells ==
  ASSUME call.endpoint \in DOMAIN Paths, UNCHANGED call, NEW payload, RespondWith(payload),
         payload.kind \in {"choices", "output", "string", "message"} \/ payload.text = None
  PROVE  TextReachesCaller'
<1> DEFINE reply == ReplyFor(call.endpoint, payload)
           said == IF payload.kind = "message" THEN None ELSE payload.text
<1>1. /\ reply.shape = [chat |-> "chat.completion", responses |-> "response",
                        ollama |-> "ollama", inference |-> "core"][call.endpoint]
      /\ payload.kind # "message" /\ payload.text # None => reply.text = payload.text
  BY ReplyHasText
<1>2. outcome' = [status |-> 200, reply |-> reply, said |-> said]
  BY DEF RespondWith
<1>3. said # None => reply.text = said
  BY <1>1
<1> HIDE DEF reply, said
<1>4. outcome'.reply = reply /\ outcome'.said = said
  BY <1>2
<1> QED BY <1>1, <1>3, <1>4 DEF TextReachesCaller

\* No step but the answer to a call tells the caller a text.
LEMMA NextTells ==
  ASSUME GatewayInv, TextReachesCaller, [Next]_vars
  PROVE  TextReachesCaller'
<1>1. call.endpoint \in DOMAIN Paths
  BY DEF GatewayInv, GatewayTypeOK
<1>2. CASE UNCHANGED <<pc, call, outcome>>
  BY <1>2 DEF TextReachesCaller
<1>3. CASE pc' # "answered"
  BY <1>3 DEF TextReachesCaller
<1>4. CASE \E status \in Nat : Respond(status, None)
  BY <1>4, RespondIsSilent
<1>5. ASSUME NEW payload \in Payloads(Texts), UNCHANGED call, RespondWith(payload)
      PROVE  TextReachesCaller'
  BY <1>1, <1>5, PayloadsAreKnown, RespondWithTells
<1>6. ASSUME NEW kind, UNCHANGED call, RespondWith([kind |-> kind, text |-> None])
      PROVE  TextReachesCaller'
  BY <1>1, <1>6, RespondWithTells
<1>7. ASSUME NEW c \in Calls, Receive(c) PROVE TextReachesCaller'
  BY <1>3, <1>4, <1>7 DEF Receive
<1>8. CASE Lease
  BY <1>3, <1>4, <1>8 DEF Lease, ObtainLease, LeaseRefused, LeaseFails
<1>9. CASE OpenRouter
  <2>1. ASSUME NEW refusal \in Refusals, NEW after, NEW wait, OpenRouterRefuses(refusal, after, wait)
        PROVE  TextReachesCaller'
    <3>1. refusal.status \in Nat
      BY DEF Refusals
    <3> QED BY <1>3, <1>4, <2>1, <3>1 DEF OpenRouterRefuses, Retry
  <2>2. ASSUME NEW wait, OpenRouterFails(wait) PROVE TextReachesCaller'
    BY <1>3, <1>4, <2>2 DEF OpenRouterFails, Retry
  <2>3. ASSUME NEW payload \in Payloads(Texts), OpenRouterAnswers(payload) PROVE TextReachesCaller'
    BY <1>4, <1>5, <2>3 DEF OpenRouterAnswers
  <2>4. ASSUME NEW break, OpenRouterStreams(break) PROVE TextReachesCaller'
    BY <1>3, <2>4 DEF OpenRouterStreams
  <2> QED BY <1>9, <2>1, <2>2, <2>3, <2>4 DEF OpenRouter
<1>10. CASE Provider
  <2>1. CASE ProviderFails
    BY <1>4, <2>1 DEF ProviderFails
  <2>2. CASE EchoProvider
    BY <1>6, <2>2 DEF EchoProvider
  <2>3. ASSUME NEW header, NEW payload \in Payloads(Texts), HttpProxyProvider(header, payload)
        PROVE  TextReachesCaller'
    BY <1>5, <2>3 DEF HttpProxyProvider
  <2>4. CASE execute_passthrough
    BY <1>3, <1>4, <2>4 DEF execute_passthrough
  <2>5. ASSUME NEW a, NEW kind, MeteredAnswer(a, [kind |-> kind, text |-> None])
        PROVE  TextReachesCaller'
    BY <1>6, <2>5 DEF MeteredAnswer
  <2> QED BY <1>10, <2>1, <2>2, <2>3, <2>4, <2>5 DEF Provider
<1>11. CASE Post \/ (\E late \in Overruns : Wake(late)) \/ EndCall
  BY <1>3, <1>11 DEF Post, Wake, EndCall
<1>12. CASE ReplaceKey
  BY <1>3, <1>4, <1>12 DEF ReplaceKey
<1>13. CASE \/ \E line \in Lines : UpstreamWrites(line)
            \/ \E n \in 1 .. Len(conn.text) : UpstreamSends(n)
            \/ UpstreamCloses \/ UpstreamBreaks \/ Deliver
  BY <1>2, <1>13 DEF UpstreamWrites, UpstreamSends, UpstreamCloses, UpstreamBreaks, Deliver
<1>14. CASE StreamEnds
  BY <1>4, <1>14 DEF StreamEnds
<1>15. CASE UNCHANGED vars
  BY <1>2, <1>15 DEF vars
<1> QED BY <1>7, <1>8, <1>9, <1>10, <1>11, <1>12, <1>13, <1>14, <1>15 DEF Next

\* The assistant's text reaches the caller of every endpoint that does not stream, in
\* the endpoint's own format, from every of the OpenAI formats and every provider
\* (response_text, chat_completion, responses_api, ollama_chat).
THEOREM GatewayTextReachesCaller ==
  Spec => []TextReachesCaller
<1>1. Init => TextReachesCaller
  BY DEF Init, TextReachesCaller
<1>2. GatewayInv /\ TextReachesCaller /\ [Next]_vars => TextReachesCaller'
  BY NextTells
<1> QED BY <1>1, <1>2, GatewayInvariance, PTL DEF Spec

-----------------------------------------------------------------------------
(* What is charged *)

\* No step but the metered provider's answer brings a charge for one.
LEMMA NextCharges ==
  ASSUME GatewayInv, FairCharge, [Next]_vars
  PROVE  FairCharge'
<1>1. CASE UNCHANGED <<answer, charge, wire>>
  BY <1>1 DEF FairCharge
<1>2. CASE answer' = None
  BY <1>2 DEF FairCharge
<1>3. pc # "answered" => answer = None
  BY DEF GatewayInv, RequestIsKept
<1>4. ASSUME NEW a \in Answers, NEW payload, MeteredAnswer(a, payload)
      PROVE  FairCharge'
  <2> DEFINE model == RequestModel(wire.body)
             cost == RealCost(a, model)
  <2>1. model \in Seq(STRING) \cup {None}
    BY <1>4 DEF MeteredAnswer, GatewayInv, RequestIsKept
  <2>2. IsAnswer(a) /\ charge' \in MeteredCharges(a, model)
    BY <1>4, AnswersAreTyped DEF MeteredAnswer
  <2>3. /\ charge' <= Cap
        /\ IF cost <= 0 THEN charge' = 0
           ELSE (charge' = Cap \/ 100 * charge' >= cost) /\ 100 * charge' <= cost + 100
    BY <2>1, <2>2, ChargeIsFair
  <2>4. RealCost(answer', RequestModel(wire'.body)) = cost
    BY <1>4 DEF MeteredAnswer
  <2> HIDE DEF cost
  <2> QED BY <2>3, <2>4 DEF FairCharge
<1>5. ASSUME NEW c \in Calls, Receive(c) PROVE FairCharge'
  BY <1>2, <1>3, <1>5 DEF Receive
<1>6. CASE Lease \/ Post
  BY <1>2, <1>3, <1>6 DEF Lease, Post, ObtainLease, LeaseRefused, LeaseFails
<1>7. CASE OpenRouter \/ (\E late \in Overruns : Wake(late)) \/ ReplaceKey
  BY <1>2, <1>3, <1>7 DEF OpenRouter, OpenRouterRefuses, OpenRouterFails, OpenRouterAnswers,
                          OpenRouterStreams, Wake, ReplaceKey
<1>8. CASE \/ \E line \in Lines : UpstreamWrites(line)
           \/ \E n \in 1 .. Len(conn.text) : UpstreamSends(n)
           \/ UpstreamCloses \/ UpstreamBreaks \/ Deliver \/ StreamEnds
  BY <1>1, <1>8 DEF UpstreamWrites, UpstreamSends, UpstreamCloses, UpstreamBreaks, Deliver, StreamEnds
<1>9. CASE Provider
  <2>1. CASE \/ ProviderFails \/ EchoProvider \/ execute_passthrough
             \/ \E header \in {None, 0, Cap}, payload \in Payloads(Texts) :
                  HttpProxyProvider(header, payload)
    BY <1>2, <1>3, <2>1 DEF ProviderFails, EchoProvider, execute_passthrough, HttpProxyProvider
  <2> QED BY <1>4, <1>9, <2>1 DEF Provider
<1>10. CASE EndCall
  BY <1>2, <1>10 DEF EndCall
<1>11. CASE UNCHANGED vars
  BY <1>1, <1>11 DEF vars
<1> QED BY <1>5, <1>6, <1>7, <1>8, <1>9, <1>10, <1>11 DEF Next

\* What the metered provider charges is fair, for every usage and every reported cost:
\* within the cap, nothing for nothing, at least the cost below the cap, and at most a
\* credit more, at the price of the most specific entry of the table (derive_cost,
\* openai_price, usd_to_credits, clamp_charge).
THEOREM GatewayFairCharge ==
  Spec => []FairCharge
<1>1. Init => FairCharge
  BY DEF Init, FairCharge
<1>2. GatewayInv /\ FairCharge /\ [Next]_vars => FairCharge'
  BY NextCharges
<1> QED BY <1>1, <1>2, GatewayInvariance, PTL DEF Spec

-----------------------------------------------------------------------------
(* What is reported of a refused key *)

\* The first of some optional values: there is none, or it is one of them.
LEMMA FirstOfIs ==
  ASSUME NEW options, DOMAIN options \subseteq Nat
  PROVE  \/ OA!FirstOf(options) = None /\ \A i \in DOMAIN options : options[i] = None
         \/ \E i \in DOMAIN options :
              /\ OA!FirstOf(options) = options[i] /\ options[i] # None
              /\ \A j \in DOMAIN options : j < i => options[j] = None
<1> DEFINE there == {i \in DOMAIN options : options[i] # None}
           first == CHOOSE i \in there : \A j \in there : i <= j
<1>1. OA!FirstOf(options) = IF there = {} THEN None ELSE options[first]
  BY DEF OA!FirstOf
<1>2. CASE there = {}
  BY <1>1, <1>2
<1>3. CASE there # {}
  <2>1. \E i \in there : \A j \in there : i <= j
    <3>1. there \subseteq Nat
      OBVIOUS
    <3> HIDE DEF there
    <3> QED BY <1>3, <3>1, LeastNumber
  <2>2. first \in there /\ \A j \in there : first <= j
    BY <2>1
  <2> HIDE DEF first
  <2>3. ASSUME NEW j \in DOMAIN options, j < first PROVE options[j] = None
    BY <2>2, <2>3
  <2> QED BY <1>1, <1>3, <2>2, <2>3
<1> QED BY <1>2, <1>3

\* The first of two optional values.
LEMMA FirstOfTwo ==
  ASSUME NEW a, NEW b
  PROVE  OA!FirstOf(<<a, b>>) = IF a # None THEN a ELSE b
<1> DEFINE all == <<a, b>>
<1>1. /\ DOMAIN all = {1, 2}
      /\ all[1] = a /\ all[2] = b
  OBVIOUS
<1> HIDE DEF all
<1>2. DOMAIN all \subseteq Nat
  BY <1>1
<1>3. CASE OA!FirstOf(all) = None /\ \A i \in DOMAIN all : all[i] = None
  BY <1>1, <1>3 DEF all
<1>4. ASSUME NEW i \in DOMAIN all, OA!FirstOf(all) = all[i], all[i] # None,
             \A j \in DOMAIN all : j < i => all[j] = None
      PROVE  OA!FirstOf(<<a, b>>) = IF a # None THEN a ELSE b
  <2>1. i \in {1, 2}
    BY <1>1
  <2> QED BY <1>1, <1>4, <2>1 DEF all
<1> QED BY <1>2, <1>3, <1>4, FirstOfIs

\* The first of three optional values.
LEMMA FirstOfThree ==
  ASSUME NEW a, NEW b, NEW c
  PROVE  OA!FirstOf(<<a, b, c>>) = IF a # None THEN a ELSE IF b # None THEN b ELSE c
<1> DEFINE all == <<a, b, c>>
<1>1. /\ DOMAIN all = {1, 2, 3}
      /\ all[1] = a /\ all[2] = b /\ all[3] = c
  OBVIOUS
<1> HIDE DEF all
<1>2. DOMAIN all \subseteq Nat
  BY <1>1
<1>3. CASE OA!FirstOf(all) = None /\ \A i \in DOMAIN all : all[i] = None
  BY <1>1, <1>3 DEF all
<1>4. ASSUME NEW i \in DOMAIN all, OA!FirstOf(all) = all[i], all[i] # None,
             \A j \in DOMAIN all : j < i => all[j] = None
      PROVE  OA!FirstOf(<<a, b, c>>) = IF a # None THEN a ELSE IF b # None THEN b ELSE c
  <2>1. i \in {1, 2, 3}
    BY <1>1
  <2> QED BY <1>1, <1>4, <2>1 DEF all
<1> QED BY <1>2, <1>3, <1>4, FirstOfIs

\* The first of four optional values.
LEMMA FirstOfFour ==
  ASSUME NEW a, NEW b, NEW c, NEW d
  PROVE  OA!FirstOf(<<a, b, c, d>>) = IF a # None THEN a ELSE IF b # None THEN b ELSE IF c # None THEN c ELSE d
<1> DEFINE all == <<a, b, c, d>>
<1>1. /\ DOMAIN all = {1, 2, 3, 4}
      /\ all[1] = a /\ all[2] = b /\ all[3] = c /\ all[4] = d
  OBVIOUS
<1> HIDE DEF all
<1>2. DOMAIN all \subseteq Nat
  BY <1>1
<1>3. CASE OA!FirstOf(all) = None /\ \A i \in DOMAIN all : all[i] = None
  BY <1>1, <1>3 DEF all
<1>4. ASSUME NEW i \in DOMAIN all, OA!FirstOf(all) = all[i], all[i] # None,
             \A j \in DOMAIN all : j < i => all[j] = None
      PROVE  OA!FirstOf(<<a, b, c, d>>) = IF a # None THEN a ELSE IF b # None THEN b ELSE IF c # None THEN c ELSE d
  <2>1. i \in {1, 2, 3, 4}
    BY <1>1
  <2> QED BY <1>1, <1>4, <2>1 DEF all
<1> QED BY <1>2, <1>3, <1>4, FirstOfIs

\* The objects of a body are a sequence.
LEMMA ObjectsAreSequence ==
  ASSUME NEW body, OA!IsBody(body)
  PROVE  /\ Len(OA!Objects(body)) \in Nat
         /\ DOMAIN OA!Objects(body) = 1 .. Len(OA!Objects(body))
<1>1. CASE body.kind = "object"
  <2>1. \E S : OA!Objects(body) \in Seq(S)
    BY <1>1 DEF OA!IsBody, OA!Objects
  <2> QED BY <2>1
<1>2. CASE body.kind # "object"
  <2>1. OA!Objects(body) = << >>
    BY <1>2 DEF OA!Objects
  <2> QED BY <2>1
<1> QED BY <1>1, <1>2

\* The strings under some keys of an object of the body.
Said(body, keys, word) ==
  \E i \in DOMAIN OA!Objects(body), k \in keys :
    OA!IsString(OA!Field(OA!Objects(body)[i], k)) /\ OA!Field(OA!Objects(body)[i], k).word = word

\* The words of a body, as what is said in its objects.
LEMMA WordsAreSaid ==
  ASSUME NEW body, OA!IsBody(body)
  PROVE  /\ \A w : w \in OA!MachineWords(body) <=> w # "blank" /\ Said(body, {"reason", "code"}, w)
         /\ body.kind = "object" => \A w : w \in OA!WordsIn(body) <=> Said(body, OA!Keys, w)
         /\ body.kind # "object" => /\ DOMAIN OA!Objects(body) = {}
                                   /\ OA!WordsIn(body) = {body.word}
<1>1. \A w : w \in OA!MachineWords(body) <=> w # "blank" /\ Said(body, {"reason", "code"}, w)
  BY DEF OA!MachineWords, Said
<1>2. CASE body.kind = "object"
  <2>1. OA!Objects(body) = body.objects
    BY <1>2 DEF OA!Objects
  <2>2. \A w : w \in OA!WordsIn(body) <=> Said(body, OA!Keys, w)
    BY <1>2, <2>1 DEF OA!WordsIn, Said
  <2> QED BY <1>1, <1>2, <2>2
<1>3. CASE body.kind # "object"
  <2>1. OA!Objects(body) = << >> /\ body.kind = "text"
    BY <1>3 DEF OA!Objects, OA!IsBody
  <2>2. OA!WordsIn(body) = {body.word}
    BY <2>1 DEF OA!WordsIn
  <2> QED BY <1>1, <1>3, <2>1, <2>2
<1> QED BY <1>2, <1>3

\* A machine field that is there names a reason; another is none.
LEMMA MachineReasonIs ==
  ASSUME NEW value
  PROVE  /\ OA!normalize_machine_reason(value) # None => OA!IsString(value) /\ value.word # "blank"
         /\ OA!IsString(value) /\ value.word # "blank" =>
              OA!normalize_machine_reason(value) =
                IF value.word = "minute code" THEN OA!OA_MINUTE_REQUEST_LIMIT
                ELSE IF value.word = "hourly code" THEN OA!OA_HOURLY_ISSUANCE_BUDGET
                ELSE OA!OA_RATE_LIMITED
BY DEF OA!normalize_machine_reason

\* The reasons are values.
LEMMA ReasonsAreThere ==
  /\ OA!OA_RATE_LIMITED # None
  /\ OA!OA_HOURLY_ISSUANCE_BUDGET # None
  /\ OA!OA_MINUTE_REQUEST_LIMIT # None
BY GatewayAssumption DEF OA!Reasons

\* What the machine fields say: nothing if there are none, and otherwise what one says.
LEMMA MachineSays ==
  ASSUME NEW body, OA!IsBody(body)
  PROVE  LET reason == OA!machine_rate_limit_reason(body) IN
         \/ reason = None /\ OA!MachineWords(body) = {}
         \/ \E w \in OA!MachineWords(body) :
              reason = IF w = "minute code" THEN OA!OA_MINUTE_REQUEST_LIMIT
                       ELSE IF w = "hourly code" THEN OA!OA_HOURLY_ISSUANCE_BUDGET
                       ELSE OA!OA_RATE_LIMITED
<1> DEFINE objects == OA!Objects(body)
           depth == Len(objects)
           told1 == [i \in 1 .. depth |-> OA!normalize_machine_reason(OA!Field(objects[i], "reason"))]
           told2 == [i \in 1 .. depth |->
                       OA!normalize_machine_reason(OA!Field(objects[depth + 1 - i], "code"))]
           both == <<OA!FirstOf(told1), OA!FirstOf(told2)>>
           reason == OA!machine_rate_limit_reason(body)
           names(w) == IF w = "minute code" THEN OA!OA_MINUTE_REQUEST_LIMIT
                       ELSE IF w = "hourly code" THEN OA!OA_HOURLY_ISSUANCE_BUDGET
                       ELSE OA!OA_RATE_LIMITED
<1>1. reason = OA!FirstOf(both)
  BY DEF OA!machine_rate_limit_reason
<1>2. depth \in Nat /\ DOMAIN objects = 1 .. depth
  BY ObjectsAreSequence
<1>3. \A w : w \in OA!MachineWords(body) <=> w # "blank" /\ Said(body, {"reason", "code"}, w)
  BY WordsAreSaid
<1>4. ASSUME NEW i \in 1 .. depth, NEW k \in {"reason", "code"},
             OA!normalize_machine_reason(OA!Field(objects[i], k)) # None
      PROVE  \E w \in OA!MachineWords(body) : OA!normalize_machine_reason(OA!Field(objects[i], k)) = names(w)
  <2> DEFINE value == OA!Field(objects[i], k)
  <2>1. OA!IsString(value) /\ value.word # "blank"
    BY <1>4, MachineReasonIs
  <2>2. OA!normalize_machine_reason(value) = names(value.word)
    BY <2>1, MachineReasonIs
  <2>3. Said(body, {"reason", "code"}, value.word)
    BY <1>2, <2>1 DEF Said
  <2>4. value.word \in OA!MachineWords(body)
    BY <1>3, <2>1, <2>3
  <2> QED BY <2>2, <2>4
<1>5. \/ OA!FirstOf(told1) = None /\ \A i \in 1 .. depth : told1[i] = None
      \/ \E i \in 1 .. depth : OA!FirstOf(told1) = told1[i] /\ told1[i] # None
  <2>1. DOMAIN told1 = 1 .. depth
    OBVIOUS
  <2> HIDE DEF told1
  <2> QED BY <1>2, <2>1, FirstOfIs
<1>6. \/ OA!FirstOf(told2) = None /\ \A i \in 1 .. depth : told2[i] = None
      \/ \E i \in 1 .. depth : OA!FirstOf(told2) = told2[i] /\ told2[i] # None
  <2>1. DOMAIN told2 = 1 .. depth
    OBVIOUS
  <2> HIDE DEF told2
  <2> QED BY <1>2, <2>1, FirstOfIs
<1>7. reason = IF OA!FirstOf(told1) # None THEN OA!FirstOf(told1) ELSE OA!FirstOf(told2)
  BY <1>1, FirstOfTwo
<1>8. CASE OA!FirstOf(told1) # None
  <2>1. PICK i \in 1 .. depth : OA!FirstOf(told1) = told1[i] /\ told1[i] # None
    BY <1>5, <1>8
  <2> QED BY <1>4, <1>7, <1>8, <2>1
<1>9. CASE OA!FirstOf(told1) = None /\ OA!FirstOf(told2) # None
  <2>1. PICK i \in 1 .. depth : OA!FirstOf(told2) = told2[i] /\ told2[i] # None
    BY <1>6, <1>9
  <2>2. depth + 1 - i \in 1 .. depth
    BY <1>2
  <2> QED BY <1>4, <1>7, <1>9, <2>1, <2>2
<1>10. CASE OA!FirstOf(told1) = None /\ OA!FirstOf(told2) = None
  <2>1. ASSUME NEW w \in OA!MachineWords(body) PROVE FALSE
    <3>1. PICK i \in 1 .. depth, k \in {"reason", "code"} :
            OA!IsString(OA!Field(objects[i], k)) /\ OA!Field(objects[i], k).word = w
      BY <1>2, <1>3 DEF Said
    <3>2. OA!normalize_machine_reason(OA!Field(objects[i], k)) # None
      BY <1>3, <3>1, MachineReasonIs, ReasonsAreThere
    <3>3. CASE k = "reason"
      BY <1>5, <1>10, <3>2, <3>3, ReasonsAreThere
    <3>4. CASE k = "code"
      <4>1. depth + 1 - i \in 1 .. depth /\ depth + 1 - (depth + 1 - i) = i
        BY <1>2
      <4>2. told2[depth + 1 - i] = OA!normalize_machine_reason(OA!Field(objects[i], "code"))
        BY <4>1
      <4> QED BY <1>6, <1>10, <3>2, <3>4, <4>1, <4>2
    <3> QED BY <3>3, <3>4
  <2> QED BY <1>7, <1>10, <2>1
<1> QED BY <1>8, <1>9, <1>10

\* What a sentence names: the limit of one of its words, the hourly one first.
LEMMA TextNames ==
  ASSUME NEW words
  PROVE  /\ words \cap {"hourly code", "hourly text"} # {} =>
              OA!classify_rate_limit_text(words) = OA!OA_HOURLY_ISSUANCE_BUDGET
         /\ words \cap {"hourly code", "hourly text"} = {} /\ "minute text" \in words =>
              OA!classify_rate_limit_text(words) = OA!OA_MINUTE_REQUEST_LIMIT
         /\ words \cap {"hourly code", "hourly text"} = {} /\ "minute text" \notin words =>
              OA!classify_rate_limit_text(words) = None
BY DEF OA!classify_rate_limit_text

\* What a single word names.
LEMMA WordNames ==
  ASSUME NEW w
  PROVE  OA!classify_rate_limit_text({w}) =
           IF w \in {"hourly code", "hourly text"} THEN OA!OA_HOURLY_ISSUANCE_BUDGET
           ELSE IF w = "minute text" THEN OA!OA_MINUTE_REQUEST_LIMIT ELSE None
<1>1. {w} \cap {"hourly code", "hourly text"} # {} <=> w \in {"hourly code", "hourly text"}
  OBVIOUS
<1>2. "minute text" \in {w} <=> w = "minute text"
  OBVIOUS
<1> QED BY <1>1, <1>2, TextNames

\* What the fields of a body name, one by one: the limit of one of its words.
LEMMA FieldsName ==
  ASSUME NEW body, OA!IsBody(body)
  PROVE  LET reason == OA!classify_rate_limit_value(body) IN
         \/ reason = None
         \/ \E w \in OA!WordsIn(body) :
              \/ w \in {"hourly code", "hourly text"} /\ reason = OA!OA_HOURLY_ISSUANCE_BUDGET
              \/ w = "minute text" /\ reason = OA!OA_MINUTE_REQUEST_LIMIT
<1> DEFINE objects == OA!Objects(body)
           strings(object) ==
             [i \in 1 .. 4 |->
                LET value == OA!Field(object, <<"reason", "code", "message", "detail">>[i])
                IN  IF OA!IsString(value) THEN OA!classify_rate_limit_text({value.word}) ELSE None]
           firsts == [i \in DOMAIN objects |-> OA!FirstOf(strings(objects[i]))]
           reason == OA!classify_rate_limit_value(body)
<1>1. reason = OA!FirstOf(firsts)
  BY DEF OA!classify_rate_limit_value
<1>2. DOMAIN objects \subseteq Nat
  BY ObjectsAreSequence
<1>3. SUFFICES ASSUME reason # None
               PROVE  \E w \in OA!WordsIn(body) :
                        \/ w \in {"hourly code", "hourly text"} /\ reason = OA!OA_HOURLY_ISSUANCE_BUDGET
                        \/ w = "minute text" /\ reason = OA!OA_MINUTE_REQUEST_LIMIT
  OBVIOUS
<1>4. PICK i \in DOMAIN objects : reason = OA!FirstOf(strings(objects[i]))
  <2>1. DOMAIN firsts = DOMAIN objects /\ \A i \in DOMAIN objects : firsts[i] = OA!FirstOf(strings(objects[i]))
    OBVIOUS
  <2> HIDE DEF firsts, strings
  <2> QED BY <1>1, <1>2, <1>3, <2>1, FirstOfIs
<1>5. PICK j \in 1 .. 4 : reason = strings(objects[i])[j]
  <2> DEFINE four == strings(objects[i])
  <2>1. DOMAIN four = 1 .. 4
    OBVIOUS
  <2> HIDE DEF four
  <2>2. DOMAIN four \subseteq Nat /\ reason = OA!FirstOf(four)
    BY <1>4, <2>1 DEF four
  <2>3. \E j \in 1 .. 4 : reason = four[j]
    BY <1>3, <2>1, <2>2, FirstOfIs
  <2> QED BY <2>3 DEF four
<1> DEFINE key == <<"reason", "code", "message", "detail">>[j]
           value == OA!Field(objects[i], key)
<1>6. key \in OA!Keys
  BY DEF OA!Keys
<1>7. OA!IsString(value) /\ reason = OA!classify_rate_limit_text({value.word})
  BY <1>3, <1>5
<1>8. Said(body, OA!Keys, value.word)
  BY <1>4, <1>6, <1>7 DEF Said
<1>9. value.word \in OA!WordsIn(body)
  BY <1>4, <1>8, WordsAreSaid
<1> HIDE DEF value, reason
<1>10. \/ value.word \in {"hourly code", "hourly text"} /\ reason = OA!OA_HOURLY_ISSUANCE_BUDGET
       \/ value.word = "minute text" /\ reason = OA!OA_MINUTE_REQUEST_LIMIT
  BY <1>3, <1>7, WordNames
<1> QED BY <1>9, <1>10

\* The limits the org may mean, by what its body says.
LEMMA MeantIs ==
  ASSUME NEW body
  PROVE  LET M == OA!MachineWords(body)
             said == OA!WordsIn(body) \ {"blank", "other"}
             clear == \/ M \in {{"hourly code"}, {"minute code"}}
                      \/ M = {} /\ said \in {{"hourly text"}, {"minute text"}} IN
         /\ M = {"hourly code"} => OA!Meant(body) = {OA!OA_HOURLY_ISSUANCE_BUDGET}
         /\ M = {"minute code"} => OA!Meant(body) = {OA!OA_MINUTE_REQUEST_LIMIT}
         /\ M = {} /\ said = {"hourly text"} => OA!Meant(body) = {OA!OA_HOURLY_ISSUANCE_BUDGET}
         /\ M = {} /\ said = {"minute text"} => OA!Meant(body) = {OA!OA_MINUTE_REQUEST_LIMIT}
         /\ ~ clear =>
              /\ OA!OA_RATE_LIMITED \in OA!Meant(body)
              /\ OA!WordsIn(body) \cap {"hourly code", "hourly text"} # {} =>
                   OA!OA_HOURLY_ISSUANCE_BUDGET \in OA!Meant(body)
              /\ OA!WordsIn(body) \cap {"minute code", "minute text"} # {} =>
                   OA!OA_MINUTE_REQUEST_LIMIT \in OA!Meant(body)
<1> DEFINE M == OA!MachineWords(body)
           said == OA!WordsIn(body) \ {"blank", "other"}
           hourly == M = {"hourly code"}
           minute == M = {"minute code"}
           spokenhourly == M = {} /\ said = {"hourly text"}
           spokenminute == M = {} /\ said = {"minute text"}
           others == {OA!OA_RATE_LIMITED}
                       \cup (IF OA!WordsIn(body) \cap {"hourly code", "hourly text"} # {}
                             THEN {OA!OA_HOURLY_ISSUANCE_BUDGET} ELSE {})
                       \cup (IF OA!WordsIn(body) \cap {"minute code", "minute text"} # {}
                             THEN {OA!OA_MINUTE_REQUEST_LIMIT} ELSE {})
<1>1. OA!Meant(body) = CASE hourly -> {OA!OA_HOURLY_ISSUANCE_BUDGET}
                         [] minute -> {OA!OA_MINUTE_REQUEST_LIMIT}
                         [] spokenhourly -> {OA!OA_HOURLY_ISSUANCE_BUDGET}
                         [] spokenminute -> {OA!OA_MINUTE_REQUEST_LIMIT}
                         [] OTHER -> others
  BY DEF OA!Meant
<1>2. /\ hourly => ~ minute /\ ~ spokenhourly /\ ~ spokenminute
      /\ minute => ~ spokenhourly /\ ~ spokenminute
      /\ spokenhourly => ~ spokenminute
  <2>1. /\ {"hourly code"} # {"minute code"} /\ {"hourly code"} # {} /\ {"minute code"} # {}
        /\ {"hourly text"} # {"minute text"}
    OBVIOUS
  <2> HIDE DEF M, said
  <2> QED BY <2>1
<1>3. /\ OA!OA_RATE_LIMITED \in others
      /\ OA!WordsIn(body) \cap {"hourly code", "hourly text"} # {} =>
           OA!OA_HOURLY_ISSUANCE_BUDGET \in others
      /\ OA!WordsIn(body) \cap {"minute code", "minute text"} # {} =>
           OA!OA_MINUTE_REQUEST_LIMIT \in others
  OBVIOUS
<1> HIDE DEF hourly, minute, spokenhourly, spokenminute, others
<1>4. /\ hourly => OA!Meant(body) = {OA!OA_HOURLY_ISSUANCE_BUDGET}
      /\ minute => OA!Meant(body) = {OA!OA_MINUTE_REQUEST_LIMIT}
      /\ spokenhourly => OA!Meant(body) = {OA!OA_HOURLY_ISSUANCE_BUDGET}
      /\ spokenminute => OA!Meant(body) = {OA!OA_MINUTE_REQUEST_LIMIT}
      /\ ~ hourly /\ ~ minute /\ ~ spokenhourly /\ ~ spokenminute => OA!Meant(body) = others
  BY <1>1, <1>2
<1> HIDE DEF M, said
<1>5. /\ M = {"hourly code"} => OA!Meant(body) = {OA!OA_HOURLY_ISSUANCE_BUDGET}
      /\ M = {"minute code"} => OA!Meant(body) = {OA!OA_MINUTE_REQUEST_LIMIT}
      /\ M = {} /\ said = {"hourly text"} => OA!Meant(body) = {OA!OA_HOURLY_ISSUANCE_BUDGET}
      /\ M = {} /\ said = {"minute text"} => OA!Meant(body) = {OA!OA_MINUTE_REQUEST_LIMIT}
  BY <1>4 DEF hourly, minute, spokenhourly, spokenminute
<1>6. ~ (\/ M \in {{"hourly code"}, {"minute code"}}
         \/ M = {} /\ said \in {{"hourly text"}, {"minute text"}})
        => OA!Meant(body) = others
  BY <1>4 DEF hourly, minute, spokenhourly, spokenminute
<1> QED BY <1>3, <1>5, <1>6 DEF M, said

\* The reason that is reported is one the org may mean.
LEMMA ReasonIsMeant ==
  ASSUME NEW body, OA!IsBody(body), NEW header
  PROVE  OA!parse_oa_rate_limit(header, body).reason \in OA!Meant(body)
<1> DEFINE machine == OA!machine_rate_limit_reason(body)
           fields == OA!classify_rate_limit_value(body)
           text == OA!classify_rate_limit_text(OA!WordsIn(body))
           reason == OA!parse_oa_rate_limit(header, body).reason
           M == OA!MachineWords(body)
           W == OA!WordsIn(body)
<1>1. reason = IF machine # None THEN machine ELSE IF fields # None THEN fields
               ELSE IF text # None THEN text ELSE OA!OA_RATE_LIMITED
  BY FirstOfFour DEF OA!parse_oa_rate_limit
<1>2. M \subseteq W
  <2> SUFFICES ASSUME NEW w \in M PROVE w \in W
    OBVIOUS
  <2>1. Said(body, {"reason", "code"}, w)
    BY WordsAreSaid
  <2>2. Said(body, OA!Keys, w)
    BY <2>1 DEF Said, OA!Keys
  <2>3. DOMAIN OA!Objects(body) # {}
    BY <2>1 DEF Said
  <2> QED BY <2>2, <2>3, WordsAreSaid
<1>3. \/ machine = None /\ M = {}
      \/ \E w \in M : machine = IF w = "minute code" THEN OA!OA_MINUTE_REQUEST_LIMIT
                                ELSE IF w = "hourly code" THEN OA!OA_HOURLY_ISSUANCE_BUDGET
                                ELSE OA!OA_RATE_LIMITED
  BY MachineSays
<1>4. \/ fields = None
      \/ \E w \in W : \/ w \in {"hourly code", "hourly text"} /\ fields = OA!OA_HOURLY_ISSUANCE_BUDGET
                      \/ w = "minute text" /\ fields = OA!OA_MINUTE_REQUEST_LIMIT
  BY FieldsName
<1>5. /\ W \cap {"hourly code", "hourly text"} # {} => text = OA!OA_HOURLY_ISSUANCE_BUDGET
      /\ W \cap {"hourly code", "hourly text"} = {} /\ "minute text" \in W =>
           text = OA!OA_MINUTE_REQUEST_LIMIT
      /\ W \cap {"hourly code", "hourly text"} = {} /\ "minute text" \notin W => text = None
  BY TextNames
<1> DEFINE said == W \ {"blank", "other"}
           clear == \/ M \in {{"hourly code"}, {"minute code"}}
                    \/ M = {} /\ said \in {{"hourly text"}, {"minute text"}}
<1>6. /\ M = {"hourly code"} => OA!Meant(body) = {OA!OA_HOURLY_ISSUANCE_BUDGET}
      /\ M = {"minute code"} => OA!Meant(body) = {OA!OA_MINUTE_REQUEST_LIMIT}
      /\ M = {} /\ said = {"hourly text"} => OA!Meant(body) = {OA!OA_HOURLY_ISSUANCE_BUDGET}
      /\ M = {} /\ said = {"minute text"} => OA!Meant(body) = {OA!OA_MINUTE_REQUEST_LIMIT}
      /\ ~ clear =>
           /\ OA!OA_RATE_LIMITED \in OA!Meant(body)
           /\ W \cap {"hourly code", "hourly text"} # {} =>
                OA!OA_HOURLY_ISSUANCE_BUDGET \in OA!Meant(body)
           /\ W \cap {"minute code", "minute text"} # {} =>
                OA!OA_MINUTE_REQUEST_LIMIT \in OA!Meant(body)
  BY MeantIs
<1> HIDE DEF machine, fields, text, reason, M, W
<1>7. CASE machine # None
  <2>1. PICK w \in M : machine = IF w = "minute code" THEN OA!OA_MINUTE_REQUEST_LIMIT
                                 ELSE IF w = "hourly code" THEN OA!OA_HOURLY_ISSUANCE_BUDGET
                                 ELSE OA!OA_RATE_LIMITED
    BY <1>3, <1>7
  <2>2. reason = machine /\ w \in W /\ M # {}
    BY <1>1, <1>2, <1>7
  <2>3. reason \in OA!Meant(body)
    <3>1. CASE w = "minute code"
      BY <1>6, <2>1, <2>2, <3>1
    <3>2. CASE w = "hourly code"
      BY <1>6, <2>1, <2>2, <3>2
    <3>3. CASE w \notin {"minute code", "hourly code"}
      BY <1>6, <2>1, <2>2, <3>3
    <3> QED BY <3>1, <3>2, <3>3
  <2> QED BY <2>3 DEF reason
<1>8. CASE machine = None
  <2>1. M = {}
    BY <1>3, <1>8, ReasonsAreThere
  <2>2. reason = IF fields # None THEN fields ELSE IF text # None THEN text ELSE OA!OA_RATE_LIMITED
    BY <1>1, <1>8
  <2>3. M \notin {{"hourly code"}, {"minute code"}}
    BY <2>1
  <2>4. CASE said = {"hourly text"}
    <3>1. "hourly text" \in W /\ "minute text" \notin W
      <4>1. "hourly text" \in said /\ "minute text" \notin said
        BY <2>4
      <4> QED BY <4>1
    <3>2. text = OA!OA_HOURLY_ISSUANCE_BUDGET /\ fields \in {None, OA!OA_HOURLY_ISSUANCE_BUDGET}
      BY <1>4, <1>5, <3>1
    <3>3. reason = OA!OA_HOURLY_ISSUANCE_BUDGET
      BY <2>2, <3>2, ReasonsAreThere
    <3> QED BY <1>6, <2>1, <2>4, <3>3 DEF reason
  <2>5. CASE said = {"minute text"}
    <3>1. "minute text" \in W /\ W \cap {"hourly code", "hourly text"} = {}
      BY <2>5
    <3>2. text = OA!OA_MINUTE_REQUEST_LIMIT /\ fields \in {None, OA!OA_MINUTE_REQUEST_LIMIT}
      BY <1>4, <1>5, <3>1
    <3>3. reason = OA!OA_MINUTE_REQUEST_LIMIT
      BY <2>2, <3>2, ReasonsAreThere
    <3> QED BY <1>6, <2>1, <2>5, <3>3 DEF reason
  <2>6. CASE said \notin {{"hourly text"}, {"minute text"}}
    <3>1. ~ clear
      BY <2>3, <2>6
    <3>2. /\ OA!OA_RATE_LIMITED \in OA!Meant(body)
          /\ W \cap {"hourly code", "hourly text"} # {} => OA!OA_HOURLY_ISSUANCE_BUDGET \in OA!Meant(body)
          /\ "minute text" \in W => OA!OA_MINUTE_REQUEST_LIMIT \in OA!Meant(body)
      BY <1>6, <3>1
    <3>3. fields = None \/ fields \in OA!Meant(body)
      BY <1>4, <3>2
    <3>4. text = None \/ text \in OA!Meant(body)
      BY <1>5, <3>2
    <3>5. reason \in OA!Meant(body)
      BY <2>2, <3>2, <3>3, <3>4
    <3> QED BY <3>5 DEF reason
  <2> QED BY <2>4, <2>5, <2>6
<1> QED BY <1>7, <1>8

\* The wait that is reported is the header's, else one the body states, else the default.
LEMMA WaitIsStated ==
  ASSUME NEW body, OA!IsBody(body), NEW header
  PROVE  LET wait == OA!parse_oa_rate_limit(header, body).retry_after_seconds
             waits == OA!StatedWaits(body) IN
         /\ header # None => wait = header
         /\ header = None =>
              wait \in (IF waits = {} THEN {OA!DEFAULT_OA_RETRY_AFTER_SECONDS} ELSE waits)
<1> DEFINE objects == OA!Objects(body)
           options == [i \in DOMAIN objects |-> OA!retry_after_scalar(OA!Field(objects[i], "retry_after"))]
           stated == OA!retry_after_value(body)
           waits == OA!StatedWaits(body)
           wait == OA!parse_oa_rate_limit(header, body).retry_after_seconds
<1>1. wait = IF header # None THEN header ELSE IF stated # None THEN stated
             ELSE OA!DEFAULT_OA_RETRY_AFTER_SECONDS
  BY FirstOfThree DEF OA!parse_oa_rate_limit
<1>2. stated = OA!FirstOf(options)
  BY DEF OA!retry_after_value
<1>3. waits = {options[i] : i \in DOMAIN objects} \ {None}
  BY DEF OA!StatedWaits
<1>4. DOMAIN options = DOMAIN objects /\ DOMAIN objects \subseteq Nat
  BY ObjectsAreSequence
<1> HIDE DEF options, wait, stated, waits
<1>5. IF waits = {} THEN stated = None ELSE stated # None /\ stated \in waits
  <2>1. CASE stated = None /\ \A i \in DOMAIN options : options[i] = None
    BY <1>3, <1>4, <2>1
  <2>2. CASE \E i \in DOMAIN options : stated = options[i] /\ options[i] # None
    BY <1>3, <1>4, <2>2
  <2> QED BY <1>2, <1>4, <2>1, <2>2, FirstOfIs
<1>6. /\ header # None => wait = header
      /\ header = None => wait \in (IF waits = {} THEN {OA!DEFAULT_OA_RETRY_AFTER_SECONDS} ELSE waits)
  BY <1>1, <1>5
<1> QED BY <1>6 DEF wait, waits

\* However the OA org words and nests its refusal of a key, the report names a limit
\* it may mean, never the org's own words, and the wait it asks for, the header first
\* (parse_oa_rate_limit).
THEOREM GatewayRateLimitIsReported ==
  Spec => []RateLimitIsReported
<1>1. Init => RateLimitIsReported
  BY DEF Init, RateLimitIsReported
<1>2. RateLimitIsReported /\ [Next]_vars => RateLimitIsReported'
  <2> SUFFICES ASSUME RateLimitIsReported, [Next]_vars PROVE RateLimitIsReported'
    OBVIOUS
  <2>1. CASE UNCHANGED told
    BY <2>1 DEF RateLimitIsReported
  <2>2. CASE told' = None
    BY <2>2 DEF RateLimitIsReported
  <2>3. ASSUME NEW refusal \in OaRefusals, LeaseRefused(refusal)
        PROVE  RateLimitIsReported'
    <3> DEFINE report == OA!parse_oa_rate_limit(refusal.header, refusal.body)
    <3>1. OA!IsBody(refusal.body)
      BY GatewayAssumption
    <3>2. report.reason \in OA!Meant(refusal.body)
      BY <3>1, ReasonIsMeant
    <3>3. /\ refusal.header # None => report.retry_after_seconds = refusal.header
          /\ refusal.header = None =>
               report.retry_after_seconds \in
                 (IF OA!StatedWaits(refusal.body) = {} THEN {OA!DEFAULT_OA_RETRY_AFTER_SECONDS}
                                                      ELSE OA!StatedWaits(refusal.body))
      BY <3>1, WaitIsStated
    <3>4. told' = [refusal |-> refusal, report |-> report]
      BY <2>3 DEF LeaseRefused
    <3> HIDE DEF report
    <3>5. told'.refusal = refusal /\ told'.report = report
      BY <3>4
    <3> QED BY <3>2, <3>3, <3>5 DEF RateLimitIsReported
  <2>4. CASE Lease
    BY <2>1, <2>3, <2>4 DEF Lease, ObtainLease, LeaseFails
  <2>5. CASE (\E c \in Calls : Receive(c)) \/ Post \/ OpenRouter
    BY <2>1, <2>5 DEF Receive, Post, OpenRouter, OpenRouterRefuses, OpenRouterFails,
                      OpenRouterAnswers, OpenRouterStreams
  <2>6. CASE (\E late \in Overruns : Wake(late)) \/ ReplaceKey \/ StreamEnds
    BY <2>1, <2>6 DEF Wake, ReplaceKey, StreamEnds
  <2>7. CASE \/ \E line \in Lines : UpstreamWrites(line)
             \/ \E n \in 1 .. Len(conn.text) : UpstreamSends(n)
             \/ UpstreamCloses \/ UpstreamBreaks \/ Deliver
    BY <2>1, <2>7 DEF UpstreamWrites, UpstreamSends, UpstreamCloses, UpstreamBreaks, Deliver
  <2>8. CASE Provider
    BY <2>1, <2>8 DEF Provider, ProviderFails, EchoProvider, HttpProxyProvider,
                      execute_passthrough, MeteredAnswer
  <2>9. CASE EndCall
    BY <2>2, <2>9 DEF EndCall
  <2>10. CASE UNCHANGED vars
    BY <2>1, <2>10 DEF vars
  <2> QED BY <2>4, <2>5, <2>6, <2>7, <2>8, <2>9, <2>10 DEF Next
<1> QED BY <1>1, <1>2, PTL DEF Spec

=============================================================================
