---------------------------- MODULE OaRateLimit ----------------------------
(***************************************************************************)
(* How the protocol server reads the OA org's refusal of a key (oa_org.rs) *)
(* and reports it to the client daemon (serverd/routes.rs).  A string is   *)
(* known by what it says: the machine reason or a sentence about one of    *)
(* the two limits, something else, or nothing but punctuation.  A body     *)
(* nests through "detail", to any depth: it is the sequence of its         *)
(* objects, the outermost first.  The spellings of a key (code,            *)
(* error_code, type ...) are one key; arrays, and objects under the other  *)
(* keys, are left out.                                                     *)
(***************************************************************************)
EXTENDS Integers, Sequences

\* None: a missing optional value.
CONSTANT None

OA_RATE_LIMITED           == "oa_rate_limited"
OA_HOURLY_ISSUANCE_BUDGET == "oa_hourly_issuance_budget"
OA_MINUTE_REQUEST_LIMIT   == "oa_minute_request_limit"

Reasons == {OA_RATE_LIMITED, OA_HOURLY_ISSUANCE_BUDGET, OA_MINUTE_REQUEST_LIMIT}

DEFAULT_OA_RETRY_AFTER_SECONDS == 60

Words == {"hourly code", "minute code", "hourly text", "minute text", "other", "blank"}

\* JSON scalars; a number stands for the string of its digits as well.
Str(word) == [kind |-> "string", word |-> word]
Num(n)    == [kind |-> "number", n |-> n]

\* A body that is no JSON, and one of objects that are each the detail of the one
\* before it; the detail of the last may be a scalar.
Text(word)   == [kind |-> "text", word |-> word]
Obj(objects) == [kind |-> "object", objects |-> objects]

Keys == {"reason", "code", "message", "detail", "retry_after"}

IsScalar(value) ==
  \/ value.kind = "string" /\ value.word \in Words
  \/ value.kind = "number" /\ value.n \in Nat

IsBody(body) ==
  \/ body \in [kind : {"text"}, word : Words]
  \/ /\ body.kind = "object"
     /\ body.objects \in Seq({body.objects[i] : i \in DOMAIN body.objects})
     /\ \A i \in DOMAIN body.objects : \A key \in DOMAIN body.objects[i] :
          key \in Keys /\ IsScalar(body.objects[i][key])

Objects(body) == IF body.kind = "object" THEN body.objects ELSE << >>

Field(object, key) == IF key \in DOMAIN object THEN object[key] ELSE None

\* The first of some optional values that is there.
FirstOf(options) ==
  LET there == {i \in DOMAIN options : options[i] # None}
  IN  IF there = {} THEN None
      ELSE options[CHOOSE i \in there : \A j \in there : i <= j]

IsString(value) == value # None /\ value.kind = "string"

\* The strings anywhere in a body.
WordsIn(body) ==
  IF body.kind = "text" THEN {body.word}
  ELSE {v.word : v \in {o \in UNION {{Field(body.objects[i], k) : k \in Keys} :
                                       i \in DOMAIN body.objects} : IsString(o)}}

\* A sentence is searched for the limit it speaks of; the hourly one first.
classify_rate_limit_text(words) ==
  CASE words \cap {"hourly code", "hourly text"} # {} -> OA_HOURLY_ISSUANCE_BUDGET
    [] words \cap {"hourly code", "hourly text"} = {} /\ "minute text" \in words ->
         OA_MINUTE_REQUEST_LIMIT
    [] OTHER -> None

\* The strings of an object in the order of the keys, a nested object last.
classify_rate_limit_value(body) ==
  LET strings(object) ==
        [i \in 1 .. 4 |->
           LET value == Field(object, <<"reason", "code", "message", "detail">>[i])
           IN  IF IsString(value) THEN classify_rate_limit_text({value.word}) ELSE None]
  IN  FirstOf([i \in DOMAIN Objects(body) |-> FirstOf(strings(Objects(body)[i]))])

\* A machine reason that is not known is the general one, never its own text.
normalize_machine_reason(value) ==
  CASE ~ IsString(value) -> None
    [] IsString(value) /\ value.word = "blank" -> None
    [] IsString(value) /\ value.word = "minute code" -> OA_MINUTE_REQUEST_LIMIT
    [] IsString(value) /\ value.word = "hourly code" -> OA_HOURLY_ISSUANCE_BUDGET
    [] OTHER -> OA_RATE_LIMITED

\* The reason of an object, else what its detail says, else its code: all the
\* reasons inwards, then all the codes outwards.
machine_rate_limit_reason(body) ==
  LET objects == Objects(body)
      depth   == Len(objects)
  IN  FirstOf(<< FirstOf([i \in 1 .. depth |->
                            normalize_machine_reason(Field(objects[i], "reason"))]),
                 FirstOf([i \in 1 .. depth |->
                            normalize_machine_reason(Field(objects[depth + 1 - i], "code"))]) >>)

retry_after_scalar(value) ==
  IF value # None /\ value.kind = "number" THEN value.n ELSE None

\* The wait of an object, else that of its detail.
retry_after_value(body) ==
  FirstOf([i \in DOMAIN Objects(body) |->
             retry_after_scalar(Field(Objects(body)[i], "retry_after"))])

\* Mistake: the sentence is believed before the machine reason.
parse_oa_rate_limit_TextFirst(header, body) ==
  [reason |-> FirstOf(<< classify_rate_limit_text(WordsIn(body)),
                         machine_rate_limit_reason(body), OA_RATE_LIMITED >>),
   retry_after_seconds |-> FirstOf(<< header, retry_after_value(body),
                                      DEFAULT_OA_RETRY_AFTER_SECONDS >>)]

\* The refusal as the server understands it.
parse_oa_rate_limit(header, body) ==
  [reason |-> FirstOf(<< machine_rate_limit_reason(body),
                         classify_rate_limit_value(body),
                         classify_rate_limit_text(WordsIn(body)),
                         OA_RATE_LIMITED >>),
   retry_after_seconds |-> FirstOf(<< header, retry_after_value(body),
                                      DEFAULT_OA_RETRY_AFTER_SECONDS >>)]

-----------------------------------------------------------------------------
(* Reference *)

\* The strings in the machine fields of a body.
MachineWords(body) ==
  {v.word : v \in {o \in UNION {{Field(Objects(body)[i], k) : k \in {"reason", "code"}} :
                                  i \in DOMAIN Objects(body)} : IsString(o)}} \ {"blank"}

\* The limit the OA org means, as far as its body says: what a machine field
\* says and no other one contradicts, or what is said where there is none.
Meant(body) ==
  CASE MachineWords(body) = {"hourly code"} -> {OA_HOURLY_ISSUANCE_BUDGET}
    [] MachineWords(body) = {"minute code"} -> {OA_MINUTE_REQUEST_LIMIT}
    [] MachineWords(body) = {} /\ WordsIn(body) \ {"blank", "other"} = {"hourly text"} ->
         {OA_HOURLY_ISSUANCE_BUDGET}
    [] MachineWords(body) = {} /\ WordsIn(body) \ {"blank", "other"} = {"minute text"} ->
         {OA_MINUTE_REQUEST_LIMIT}
    [] OTHER -> {OA_RATE_LIMITED}
         \cup (IF WordsIn(body) \cap {"hourly code", "hourly text"} # {}
               THEN {OA_HOURLY_ISSUANCE_BUDGET} ELSE {})
         \cup (IF WordsIn(body) \cap {"minute code", "minute text"} # {}
               THEN {OA_MINUTE_REQUEST_LIMIT} ELSE {})

\* The waits a body states, anywhere.
StatedWaits(body) ==
  {retry_after_scalar(Field(Objects(body)[i], "retry_after")) : i \in DOMAIN Objects(body)}
    \ {None}

=============================================================================
