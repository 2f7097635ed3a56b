-------------------------- MODULE RequestProcessor --------------------------
(***************************************************************************)
(* zkapi-serverd's request processor                                       *)
(* (crates/zkapi-serverd/src/processor_v2.rs): concurrent HTTP handlers    *)
(* that validate a proof-carrying request, reserve its nullifier, pay for  *)
(* the upstream call and finalize the transcript; the clearance endpoint   *)
(* that signs a withdrawal; the recovery endpoints; the root poller; and   *)
(* crashes of the process.                                                 *)
(*                                                                         *)
(* A handler is cut into steps where it touches the shared table or awaits *)
(* the network: between two steps any other handler may run.  What a       *)
(* handler computes for itself (hashes, the signature over the next state) *)
(* belongs to the step that uses it.                                       *)
(***************************************************************************)
EXTENDS NullifierStore

CONSTANTS
  Workers,           \* concurrently served HTTP requests
  Charges,           \* charges an upstream may report
  PolicyEnabled,     \* config.policy_enabled
  RequestCap,        \* config.request_charge_cap
  PolicyCap,         \* config.policy_charge_cap
  MaxRequestAge,     \* MAX_REQUEST_AGE_SECONDS
  MaxFutureSkew,     \* MAX_FUTURE_SKEW_SECONDS
  MaxNow,            \* bound on the clock
  MaxStates,         \* bound on the next states signed
  MaxCrashes         \* bound on the process crashes

ASSUME CapsAssumption ==
  /\ PolicyEnabled \in BOOLEAN
  /\ RequestCap \in Nat /\ PolicyCap \in Nat
  /\ Charges \subseteq Nat

ASSUME BoundsAssumption ==
  /\ MaxRequestAge \in Nat /\ MaxFutureSkew \in Nat
  /\ MaxNow \in Nat /\ MaxStates \in Nat /\ MaxCrashes \in Nat

VARIABLES
  root,          \* current_root, refreshed from the indexer
  now,           \* the server's clock
  handler,       \* what each worker is doing
  nextState,     \* how many next states have been signed
  crashes,       \* how often the process has crashed
  upstream,      \* history: the requests sent to the paid upstream
  replies,       \* history: the request responses that reached a caller
  cleared        \* history: the nullifiers whose clearance reached a caller

vars == <<nullifiers, root, now, handler, nextState, crashes, upstream, replies, cleared>>

ProviderResponse == [charge : Charges, policy : BOOLEAN]

PC == {"idle", "lookup", "checks", "reserve", "execute", "await", "finalize",
       "clear_lookup", "clear_reserve", "issue"}

Handler ==
  [pc : PC, kind : ReservationKind, request : ApiRequests \cup {None},
   clearing : Nullifiers \cup {None}, response : ProviderResponse \cup {None}]

Idle == [pc |-> "idle", kind |-> "proxy", request |-> None, clearing |-> None, response |-> None]

\* A RequestResponseV2, as far as the properties tell two of them apart.
Reply == [nullifier : Nullifiers, client : ClientIds, charge : Nat, state : Nat]

TypeOK ==
  /\ NullifiersType
  /\ root \in Roots
  /\ now \in 0..MaxNow
  /\ handler \in [Workers -> Handler]
  /\ nextState \in 0..MaxStates
  /\ crashes \in 0..MaxCrashes
  /\ upstream \subseteq ApiRequests
  /\ replies \subseteq Reply
  /\ cleared \subseteq Nullifiers

Init ==
  /\ NullifiersInit
  /\ root \in Roots
  /\ now = 0
  /\ handler = [w \in Workers |-> Idle]
  /\ nextState = 0
  /\ crashes = 0
  /\ upstream = {}
  /\ replies = {}
  /\ cleared = {}

-----------------------------------------------------------------------------
(* Handler bookkeeping *)

Goto(w, pc) == handler' = [handler EXCEPT ![w].pc = pc]

\* The handler returns to its caller and its future is dropped.
Return(w) == handler' = [handler EXCEPT ![w] = Idle]

Req(w) == handler[w].request

\* response_from_record / recovery_from_record
ResponseFromRecord(n, client) ==
  [nullifier |-> n, client |-> client,
   charge |-> nullifiers[n].charge, state |-> nullifiers[n].state]

\* A response is handed to the caller, or lost with the connection.
Deliver(reply) == replies' \in {replies, replies \cup {reply}}
DeliverClearance(n) == cleared' \in {cleared, cleared \cup {n}}

-----------------------------------------------------------------------------
(* validate_and_reserve *)

(***************************************************************************)
(* A request arrives.  A payload that does not hash to payload_hash, or a  *)
(* foreign version, chain or contract, is refused before the store is      *)
(* consulted and changes nothing.                                          *)
(***************************************************************************)
Arrive(w, r, kind) ==
  /\ handler[w].pc = "idle"
  /\ r.wellFormed
  /\ handler' = [handler EXCEPT ![w] =
        [Idle EXCEPT !.pc = "lookup", !.kind = kind, !.request = r]]

\* Where the handler of an endpoint goes once the nullifier is its own.
AfterReserve(kind) == IF kind = "proxy" THEN "execute" ELSE "issue"

(***************************************************************************)
(* The lookup that comes before every check, so that an exact retry is     *)
(* resumed even when the root and the clock have moved on.                 *)
(***************************************************************************)
ResumeFinalized(w) ==
  /\ handler[w].pc = "lookup"
  /\ HasRow(Req(w).nullifier) /\ SameRequest(Req(w), handler[w].kind)
  /\ nullifiers[Req(w).nullifier].status = "Finalized"
  /\ IF handler[w].kind = "proxy"
       THEN Deliver(ResponseFromRecord(Req(w).nullifier, Req(w).client))
       ELSE UNCHANGED replies    \* issue_openrouter_lease answers Replay
  /\ Return(w)

\* Mutant: an exact retry must also pass the root check again.
ResumeReserved_Rechecks(w) ==
  /\ handler[w].pc = "lookup"
  /\ HasRow(Req(w).nullifier) /\ SameRequest(Req(w), handler[w].kind)
  /\ nullifiers[Req(w).nullifier].status = "Reserved"
  /\ IF Req(w).root = root THEN Goto(w, AfterReserve(handler[w].kind)) ELSE Return(w)
  /\ UNCHANGED replies

ResumeReserved(w) ==
  /\ handler[w].pc = "lookup"
  /\ HasRow(Req(w).nullifier) /\ SameRequest(Req(w), handler[w].kind)
  /\ nullifiers[Req(w).nullifier].status = "Reserved"
  /\ Goto(w, AfterReserve(handler[w].kind))
  /\ UNCHANGED replies

\* The row is another request's, another endpoint's, or a clearance: Replay.
RefuseReplay(w) ==
  /\ handler[w].pc = "lookup"
  /\ HasRow(Req(w).nullifier)
  /\ \/ ~SameRequest(Req(w), handler[w].kind)
     \/ nullifiers[Req(w).nullifier].status = "ClearanceReserved"
  /\ Return(w)
  /\ UNCHANGED replies

LookupMiss(w) ==
  /\ handler[w].pc = "lookup"
  /\ ~HasRow(Req(w).nullifier)
  /\ Goto(w, "checks")
  /\ UNCHANGED replies

validate_and_reserve_lookup(w) ==
  /\ ResumeFinalized(w) \/ ResumeReserved(w) \/ RefuseReplay(w) \/ LookupMiss(w)
  /\ UNCHANGED <<nullifiers, root, now, nextState, crashes, upstream, cleared>>

\* Mutant: the policy charge is forgotten.
RequiredSolvency_RequestOnly == RequestCap

RequiredSolvency == IF PolicyEnabled THEN PolicyCap ELSE RequestCap

\* The checks of a first attempt, in the order of the code.
Acceptable(r) ==
  /\ r.root = root
  /\ r.time + MaxRequestAge >= now
  /\ r.time <= now + MaxFutureSkew
  /\ r.bound >= RequiredSolvency
  /\ r.authentic

validate_and_reserve_checks(w) ==
  /\ handler[w].pc = "checks"
  /\ \/ Acceptable(Req(w)) /\ Goto(w, "reserve")
     \/ ~Acceptable(Req(w)) /\ Return(w)
  /\ UNCHANGED <<nullifiers, root, now, nextState, crashes, upstream, replies, cleared>>

\* The INSERT decides between handlers that both missed the lookup.
validate_and_reserve_insert(w) ==
  /\ handler[w].pc = "reserve"
  /\ \/ /\ CanInsert(Req(w).nullifier)
        /\ reserve_with_kind(Req(w), handler[w].kind)
        /\ Goto(w, AfterReserve(handler[w].kind))
     \/ /\ ~CanInsert(Req(w).nullifier)
        /\ Return(w)
        /\ UNCHANGED nullifiers
  /\ UNCHANGED <<root, now, nextState, crashes, upstream, replies, cleared>>

-----------------------------------------------------------------------------
(* process_request *)

PostRequest(w, r) ==
  /\ Arrive(w, r, "proxy")
  /\ UNCHANGED <<nullifiers, root, now, nextState, crashes, upstream, replies, cleared>>

\* provider.execute: the call leaves for the paid upstream ...
SendUpstream(w) ==
  /\ handler[w].pc = "execute"
  /\ upstream' = upstream \cup {Req(w)}
  /\ Goto(w, "await")
  /\ UNCHANGED <<nullifiers, root, now, nextState, crashes, replies, cleared>>

\* ... and answers with a charge of its own choosing ...
ProviderAnswers(w, charge, policy) ==
  /\ handler[w].pc = "await"
  /\ handler' = [handler EXCEPT ![w].pc = "finalize",
                                ![w].response = [charge |-> charge, policy |-> policy]]
  /\ UNCHANGED <<nullifiers, root, now, nextState, crashes, upstream, replies, cleared>>

\* ... or fails, or the caller hangs up and the handler's future is dropped
\* at its await.  The reservation stays, for an exact retry to resume.
ProviderFails(w) ==
  /\ handler[w].pc = "await"
  /\ Return(w)
  /\ UNCHANGED <<nullifiers, root, now, nextState, crashes, upstream, replies, cleared>>

ChargeCap(r, kind, policy) ==
  IF kind = "openrouter_lease" THEN r.bound
  ELSE IF PolicyEnabled /\ policy THEN PolicyCap
  ELSE RequestCap

(***************************************************************************)
(* finalize_request: refuse a charge above the cap, sign a fresh next      *)
(* state, and store the transcript if the row is still Reserved.  Only a   *)
(* stored state is returned; a handler that loses the race answers         *)
(* Internal and its signature is discarded.                                *)
(***************************************************************************)
FinalizeStored(r, charge, policy) ==
  /\ charge <= ChargeCap(r, nullifiers[r.nullifier].kind, policy)
  /\ CanFinalize(r.nullifier)
  /\ nextState < MaxStates
  /\ nextState' = nextState + 1
  /\ finalize(r, charge, nextState + 1)

FinalizeRefused(r, charge, policy) ==
  /\ \/ charge > ChargeCap(r, nullifiers[r.nullifier].kind, policy)
     \/ ~CanFinalize(r.nullifier)
  /\ UNCHANGED <<nullifiers, nextState>>

finalize_request(w) ==
  LET r == Req(w)
      p == handler[w].response
  IN
    /\ handler[w].pc = "finalize"
    /\ \/ /\ FinalizeStored(r, p.charge, p.policy)
          /\ Deliver([nullifier |-> r.nullifier, client |-> r.client,
                      charge |-> p.charge, state |-> nextState + 1])
       \/ FinalizeRefused(r, p.charge, p.policy) /\ UNCHANGED replies
    /\ Return(w)
    /\ UNCHANGED <<root, now, crashes, upstream, cleared>>

-----------------------------------------------------------------------------
(* process_clearance *)

PostClearance(w, n) ==
  /\ handler[w].pc = "idle"
  /\ handler' = [handler EXCEPT ![w] =
        [Idle EXCEPT !.pc = "clear_lookup", !.clearing = n]]
  /\ UNCHANGED <<nullifiers, root, now, nextState, crashes, upstream, replies, cleared>>

process_clearance_lookup(w) ==
  LET n == handler[w].clearing IN
    /\ handler[w].pc = "clear_lookup"
    /\ \/ /\ nullifiers[n].status = "ClearanceReserved"    \* sign it again
          /\ DeliverClearance(n)
          /\ Return(w)
       \/ /\ nullifiers[n].status \in {"Reserved", "Finalized"}    \* NullifierUsed
          /\ Return(w)
          /\ UNCHANGED cleared
       \/ /\ ~HasRow(n)
          /\ Goto(w, "clear_reserve")
          /\ UNCHANGED cleared
    /\ UNCHANGED <<nullifiers, root, now, nextState, crashes, upstream, replies>>

process_clearance_insert(w) ==
  LET n == handler[w].clearing IN
    /\ handler[w].pc = "clear_reserve"
    /\ \/ /\ CanInsert(n)
          /\ reserve_clearance(n)
          /\ DeliverClearance(n)
       \/ ~CanInsert(n) /\ UNCHANGED <<nullifiers, cleared>>
    /\ Return(w)
    /\ UNCHANGED <<root, now, nextState, crashes, upstream, replies>>

-----------------------------------------------------------------------------
(* Recovery endpoints: each is one SELECT.  client_request_id is not unique *)
(* in the table, and the query returns whichever row comes first.           *)

Recover(n) ==
  /\ nullifiers[n].status = "Finalized"
  /\ Deliver(ResponseFromRecord(n, nullifiers[n].client))
  /\ UNCHANGED <<nullifiers, root, now, handler, nextState, crashes, upstream, cleared>>

recover_by_nullifier(n) == Recover(n)

recover_by_client_id(c) == \E n \in Nullifiers : nullifiers[n].client = c /\ Recover(n)

-----------------------------------------------------------------------------
(* Environment *)

\* The root poller stores whatever root the indexer serves.
update_root(r) ==
  /\ r # root
  /\ root' = r
  /\ UNCHANGED <<nullifiers, now, handler, nextState, crashes, upstream, replies, cleared>>

Tick ==
  /\ now < MaxNow
  /\ now' = now + 1
  /\ UNCHANGED <<nullifiers, root, handler, nextState, crashes, upstream, replies, cleared>>

\* The process dies and run_server starts again on the same database: every
\* handler is gone and the root is fetched anew.
CrashRestart ==
  /\ crashes < MaxCrashes
  /\ crashes' = crashes + 1
  /\ handler' = [w \in Workers |-> Idle]
  /\ root' \in Roots
  /\ UNCHANGED <<nullifiers, now, nextState, upstream, replies, cleared>>

-----------------------------------------------------------------------------
HandlerStep(w) ==
  \/ validate_and_reserve_lookup(w)
  \/ validate_and_reserve_checks(w)
  \/ validate_and_reserve_insert(w)
  \/ SendUpstream(w)
  \/ finalize_request(w)
  \/ process_clearance_lookup(w)
  \/ process_clearance_insert(w)

Serve ==
  \/ \E w \in Workers :
       \/ HandlerStep(w)
       \/ \E r \in ApiRequests : PostRequest(w, r)
       \/ \E c \in Charges, p \in BOOLEAN : ProviderAnswers(w, c, p)
       \/ ProviderFails(w)
       \/ \E n \in Nullifiers : PostClearance(w, n)
  \/ \E n \in Nullifiers : recover_by_nullifier(n)
  \/ \E c \in ClientIds : recover_by_client_id(c)
  \/ \E r \in Roots : update_root(r)

Next == Serve \/ Tick \/ CrashRestart

Spec == Init /\ [][Next]_vars

(***************************************************************************)
(* Fairness.  The runtime runs every handler that is not waiting for the   *)
(* network; a client that has no response keeps sending the same request   *)
(* and asking for recovery; an upstream that is called again and again     *)
(* answers in the end, with a charge the deployment's cap allows, to a     *)
(* caller that waits for it.                                               *)
(***************************************************************************)
AnswersWithinCap(w, r) ==
  /\ Req(w) = r
  /\ \E c \in Charges : c <= RequestCap /\ ProviderAnswers(w, c, FALSE)

RecoverDelivers(n) ==
  recover_by_nullifier(n) /\ \E x \in replies' : x.nullifier = n

Fairness ==
  /\ \A w \in Workers : WF_vars(HandlerStep(w))
  /\ \A w \in Workers : WF_vars(ProviderFails(w))
  /\ \A r \in ApiRequests : SF_vars(\E w \in Workers : PostRequest(w, r))
  /\ \A w \in Workers, r \in ApiRequests : SF_vars(AnswersWithinCap(w, r))
  /\ \A n \in Nullifiers : WF_vars(RecoverDelivers(n))

LiveSpec == Spec /\ Fairness

-----------------------------------------------------------------------------
(* Properties *)

(***************************************************************************)
(* The paid upstream never serves two different requests for one           *)
(* nullifier, however many handlers race for it and however often the      *)
(* server crashes in between; and nothing is served for a nullifier whose  *)
(* withdrawal clearance was handed out (validate_and_reserve against       *)
(* process_clearance).                                                     *)
(***************************************************************************)
NoDoubleService ==
  \A r \in upstream :
    /\ r.nullifier \notin cleared
    /\ \A s \in upstream : s.nullifier = r.nullifier => s = r

(***************************************************************************)
(* A clearance signature is never in a caller's hands together with a      *)
(* request response for the same nullifier: the note is closed at this     *)
(* state or spent from it, never both.                                     *)
(***************************************************************************)
CloseExcludesSpend ==
  \A n \in cleared :
    /\ nullifiers[n].status = "ClearanceReserved"
    /\ \A x \in replies : x.nullifier # n

(***************************************************************************)
(* Every response ever returned for a nullifier, by the request endpoint,  *)
(* by an exact retry or by recovery, before or after crashes, carries the  *)
(* same charge and the same signed next state, and no next state is handed *)
(* out for two nullifiers: a note state has exactly one successor.         *)
(***************************************************************************)
OneNextState ==
  \A x, y \in replies : x.nullifier = y.nullifier <=> x.state = y.state

\* Nothing in the configuration orders the two caps.  When they are inverted
\* validate_and_reserve asks a proof for less than an ordinary charge may be.
CapsInverted == PolicyEnabled /\ PolicyCap < RequestCap

\* The charge of a row against the bound of the request that owns it.
ChargeCovered(row, r) ==
  \/ row.charge <= r.bound
  \/ CapsInverted /\ row.kind = "proxy" /\ row.charge <= RequestCap

(***************************************************************************)
(* A finalized request was reserved by exactly one request of some client  *)
(* and is charged no more than the solvency bound its proof established,   *)
(* although the cap that finalize_request applies never mentions the bound *)
(* for a proxied request and an exact retry skips the solvency check.  The *)
(* one exception is the code's own: under inverted caps a proxied request  *)
(* is held to request_charge_cap only, which its proof need not cover.  A  *)
(* lease is covered under every configuration.                             *)
(***************************************************************************)
ChargeWithinProof ==
  \A n \in Nullifiers :
    nullifiers[n].status = "Finalized" =>
      \E r \in ApiRequests :
        /\ r.nullifier = n
        /\ nullifiers[n].binding = api_request_binding(r)
        /\ ChargeCovered(nullifiers[n], r)

(***************************************************************************)
(* An escape from a state that was spent can be challenged: from the       *)
(* moment a caller holds a response, whichever handler stored it, the      *)
(* watcher can rebuild the challenge from the archive, with the inputs and *)
(* the proof of the very request the upstream served.  A state that was    *)
(* cleared for a mutual close can never be challenged                      *)
(* (build_challenge_action against finalize and process_clearance).        *)
(***************************************************************************)
SpentStateIsChallengeable ==
  /\ \A x \in replies : build_challenge_action(x.nullifier) \in upstream
  /\ \A n \in cleared : build_challenge_action(n) = None

(***************************************************************************)
(* No step rewrites history: a finalized or cleared row never changes, and *)
(* a reserved row can only be finalized, for the request and the endpoint  *)
(* that reserved it (the WHERE clause of finalize and the primary key).    *)
(***************************************************************************)
StoreOnlyMovesForward ==
  [][\A n \in Nullifiers :
       LET old == nullifiers[n]
           new == nullifiers'[n]
       IN  \/ new = old
           \/ old.status = "Absent"
           \/ /\ old.status = "Reserved" /\ new.status = "Finalized"
              /\ new = [old EXCEPT !.status = new.status, !.charge = new.charge,
                                   !.state = new.state, !.archive = new.archive]]_vars

(***************************************************************************)
(* A reservation is not a dead end: whatever handlers are lost to crashes, *)
(* hang-ups and upstream failures, a client that repeats its request ends  *)
(* up with a response, even after the root and the clock have moved past   *)
(* what a first attempt would be allowed.                                  *)
(***************************************************************************)
ReservedRequestIsAnswered ==
  \A n \in Nullifiers :
    nullifiers[n].status = "Reserved" ~> \E x \in replies : x.nullifier = n

-----------------------------------------------------------------------------
(* The inductive invariant: what makes the properties above true together *)

\* Which part of a handler's state is set where.
HandlersWellFormed ==
  \A w \in Workers :
    /\ handler[w].pc \notin {"lookup", "checks", "reserve", "issue"} => handler[w].kind = "proxy"
    /\ handler[w].pc = "issue" => handler[w].kind = "openrouter_lease"
    /\ handler[w].pc \in {"lookup", "checks", "reserve", "execute", "await", "finalize", "issue"}
         => handler[w].request \in ApiRequests
    /\ handler[w].pc \in {"clear_lookup", "clear_reserve"} => handler[w].clearing \in Nullifiers
    /\ handler[w].pc = "finalize" => handler[w].response \in ProviderResponse

\* The row of a nullifier is the reservation of this very request at this endpoint.
BoundTo(n, r, kind) ==
  /\ nullifiers[n].status \in {"Reserved", "Finalized"}
  /\ nullifiers[n].binding = api_request_binding(r)
  /\ nullifiers[n].kind = kind

\* A handler past the INSERT works for the request that owns the row, and one
\* about to INSERT has seen the solvency check pass.
HandlersOwnRows ==
  \A w \in Workers :
    /\ handler[w].pc \in {"execute", "await", "finalize", "issue"}
         => BoundTo(handler[w].request.nullifier, handler[w].request, handler[w].kind)
    /\ handler[w].pc = "reserve" => handler[w].request.bound >= RequiredSolvency

\* A row in use belongs to one solvent request, which covers its charge.
RowsHaveOwners ==
  \A n \in Nullifiers :
    nullifiers[n].status \in {"Reserved", "Finalized"} =>
      \E r \in ApiRequests :
        /\ r.nullifier = n /\ r.bound >= RequiredSolvency
        /\ nullifiers[n].client = r.client
        /\ nullifiers[n].binding = api_request_binding(r)
        /\ ChargeCovered(nullifiers[n], r)

\* States are numbered in the order they are signed, never shared, and there is
\* no outcome before the finalization.
StatesAreFresh ==
  \A n \in Nullifiers :
    /\ nullifiers[n].state <= nextState
    /\ nullifiers[n].status # "Finalized" => nullifiers[n].charge = 0 /\ nullifiers[n].state = 0
    /\ nullifiers[n].status = "Finalized" =>
         /\ nullifiers[n].state > 0
         /\ \A m \in Nullifiers : nullifiers[m].state = nullifiers[n].state => m = n

\* What left the server is on disk.
HistoryIsDurable ==
  /\ \A r \in upstream : BoundTo(r.nullifier, r, "proxy")
  /\ \A x \in replies :
       /\ nullifiers[x.nullifier].status = "Finalized"
       /\ x.charge = nullifiers[x.nullifier].charge
       /\ x.state = nullifiers[x.nullifier].state
  /\ \A n \in cleared : nullifiers[n].status = "ClearanceReserved"

IInv ==
  /\ TypeOK
  /\ HandlersWellFormed
  /\ HandlersOwnRows
  /\ RowsHaveOwners
  /\ StatesAreFresh
  /\ HistoryIsDurable

\* What makes SpentStateIsChallengeable inductive: a handler finalizes only a request
\* it has sent, so the archive of a finalized row is a request that was served.
ArchiveIsServed ==
  /\ \A w \in Workers : handler[w].pc \in {"await", "finalize"} => Req(w) \in upstream
  /\ \A n \in Nullifiers :
       nullifiers[n].status = "Finalized" =>
         nullifiers[n].archive \in upstream /\ nullifiers[n].archive.nullifier = n

-----------------------------------------------------------------------------
(* Refinement: the processor implements SpendOnce *)

FateOf(status) ==
  CASE status = "Absent" -> "unused"
    [] status = "Reserved" -> "reserved"
    [] status = "Finalized" -> "spent"
    [] status = "ClearanceReserved" -> "closed"

Promise == INSTANCE SpendOnce WITH
  Outcomes <- [charge : Charges, state : 1..MaxStates],
  ledger <- [n \in Nullifiers |-> FateOf(nullifiers[n].status)],
  outcome <- [n \in Nullifiers |->
                [charge |-> nullifiers[n].charge, state |-> nullifiers[n].state]],
  answered <- {<<x.nullifier, [charge |-> x.charge, state |-> x.state]>> : x \in replies},
  released <- cleared

(***************************************************************************)
(* Every behaviour of the handlers, with their races, lost responses and   *)
(* crashes, is a behaviour of SpendOnce.                                   *)
(***************************************************************************)
KeepsPromise == Promise!Spec

=============================================================================
