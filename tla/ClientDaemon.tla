---------------------------- MODULE ClientDaemon ----------------------------
(***************************************************************************)
(* zkapi-clientd: the local wallet daemon (service.rs).  Its HTTP handlers *)
(* run as concurrent tasks over                                            *)
(*   - the wallet files: the note with its current state, and the journal  *)
(*     of at most one request whose answer is outstanding (zkapi-client,   *)
(*     external, modelled from its uses here);                             *)
(*   - the withdrawal plan, in memory and in prepared_withdrawal.json;     *)
(*   - the direct lease: the key of one chat session, in memory only.      *)
(* The protocol server is reduced to what the daemon sees of it            *)
(* (RequestProcessor and LeaseProcessor have its steps); the vault is      *)
(* external.                                                               *)
(*                                                                         *)
(* What is done under wallet_mutex and the lock file is one step: every    *)
(* reader and writer of the wallet files takes both, and the answers of    *)
(* the server that such a step waits for are its outcomes.  The other      *)
(* locks are guards, so a task holds them exactly at some of its control   *)
(* points (HoldsRead, HoldsSlot, HoldsWrite, HoldsPlan).                   *)
(***************************************************************************)
EXTENDS Naturals, Sequences, FiniteSets

CONSTANTS
  Tasks,            \* concurrent calls of the daemon's API
  Sessions,         \* X-ZkAPI-Session-Id
  Destinations,     \* withdrawal addresses
  KeySource,        \* "openrouter" or "oa_org"
  MaxNotes,         \* bound on the deposits
  MaxState,         \* the spends a note can afford
  MaxRequests,      \* bound on the proofs the wallet makes
  MaxFaults,        \* bound on the lost messages, upstream errors and failed writes
  MaxCrashes,       \* bound on the restarts
  NoSession, NoDestination

ASSUME ClientAssumption ==
  /\ KeySource \in {"openrouter", "oa_org"}
  /\ \A b \in {MaxNotes, MaxState, MaxRequests, MaxFaults, MaxCrashes} : b \in Nat
  /\ NoSession \notin Sessions /\ NoDestination \notin Destinations

VARIABLES
  mode,         \* config.request_mode, the same across restarts
  wallet,       \* note_state.json and pending_journal.json
  requests,     \* the requests proved so far; an index is a client_request_id
  plan,         \* prepared_withdrawal
  planFile,     \* prepared_withdrawal.json
  lease,        \* direct_lease
  task,         \* the calls in progress
  nullifiers,   \* the server's row of every wallet state
  leases,       \* the server's lease of every request
  expired,      \* the leases whose expires_at has passed
  vault,        \* external: the note's record on chain
  handed,       \* external: the plans returned to the user
  faults        \* how often each fault has happened

vars == <<mode, wallet, requests, plan, planFile, lease, task, nullifiers, leases, expired,
          vault, handed, faults>>
serverVars == <<nullifiers, leases, expired>>
planVars == <<plan, planFile, handed>>

Notes == 1..MaxNotes
Ids == 1..MaxRequests

\* A state of a note; it determines the request nullifier.
Coin == [note : Notes, state : 0..MaxState]
NoCoin == [note |-> 0, state |-> 0]
NextCoin(c) == [c EXCEPT !.state = @ + 1]

Plan == [mode : {"mutual", "escape"}, destination : Destinations, coin : Coin]
NoPlan == [mode |-> "none", destination |-> NoDestination, coin |-> NoCoin]

ActiveOpenRouterLease == [id : Ids, session : Sessions, verified : BOOLEAN]
NoLease == [id |-> 0, session |-> NoSession, verified |-> FALSE]

RetirePcs == {"retire_prepare", "retire_post", "retire_recover"}
ReadPcs == {"recover", "prepare", "post", "lost_key", "verify", "infer"}
WritePcs == {"settle", "find", "settle_recover"}
PlanPcs == {"reconcile", "check_lease", "prove", "persist"}
OtherPcs == {"idle", "guarded", "proxy", "rejected", "chain", "reopened",
             "closed", "closed_lease", "reset", "forget", "forget_lease"}

(***************************************************************************)
(* A call: where it is, its session, the request it works for, where it    *)
(* goes on after a retirement, which of its retries it has used, the plan  *)
(* it prepares and the note it asks the vault about.                       *)
(***************************************************************************)
Task == [pc : RetirePcs \cup ReadPcs \cup WritePcs \cup PlanPcs \cup OtherPcs,
         session : Sessions \cup {NoSession}, id : Ids \cup {0},
         then : {"none", "recover", "prepare", "retry", "fail", "settled"},
         used : SUBSET {"stale_root", "lost_key", "replacement"},
         plan : [mode : {"none", "mutual", "escape"}, destination : Destinations \cup {NoDestination},
                 coin : Coin \cup {NoCoin}],
         note : Notes \cup {0}]
Idle == [pc |-> "idle", session |-> NoSession, id |-> 0, then |-> "none", used |-> {},
         plan |-> NoPlan, note |-> 0]

ClientTypeOK ==
  /\ mode \in {"proxy", "direct_openrouter"}
  /\ wallet \in [coin : Coin \cup {NoCoin}, pending : Ids \cup {0}]
  /\ requests \in Seq([coin : Coin, kind : {"lease", "proxy"}]) /\ Len(requests) <= MaxRequests
  /\ plan \in Plan \cup {NoPlan} /\ planFile \in Plan \cup {NoPlan}
  /\ lease \in ActiveOpenRouterLease \cup {NoLease}
  /\ task \in [Tasks -> Task]
  /\ nullifiers \in [Coin -> [status : {"unknown", "reserved", "finalized", "clearance_reserved"},
                              id : Ids \cup {0}]]
  /\ leases \in [Ids -> {"none", "active", "finalized"}]
  /\ expired \in SUBSET Ids
  /\ vault \in [Notes -> [status : {"none", "active", "pending_withdrawal", "closed"},
                          coin : Coin \cup {NoCoin}]]
  /\ handed \in SUBSET Plan
  /\ faults \in [errors : 0..MaxFaults, crashes : 0..MaxCrashes]

ClientInit ==
  /\ mode \in {"proxy", "direct_openrouter"}
  /\ wallet = [coin |-> NoCoin, pending |-> 0]
  /\ requests = <<>>
  /\ plan = NoPlan /\ planFile = NoPlan /\ handed = {}
  /\ lease = NoLease
  /\ task = [t \in Tasks |-> Idle]
  /\ nullifiers = [c \in Coin |-> [status |-> "unknown", id |-> 0]]
  /\ leases = [i \in Ids |-> "none"]
  /\ expired = {}
  /\ vault = [n \in Notes |-> [status |-> "none", coin |-> NoCoin]]
  /\ faults = [errors |-> 0, crashes |-> 0]

-----------------------------------------------------------------------------
(* Locks *)

\* direct_request_mutex, shared and exclusive
HoldsRead(t) ==
  \/ task[t].pc \in ReadPcs
  \/ task[t].pc \in RetirePcs /\ task[t].then \in {"recover", "prepare"}
HoldsWrite(t) ==
  \/ task[t].pc \in WritePcs
  \/ task[t].pc \in RetirePcs /\ task[t].then \in {"retry", "fail", "settled"}

\* direct_lease, held across awaits only while a lease is ensured
HoldsSlot(t) == HoldsRead(t) /\ task[t].pc # "infer"

\* prepared_withdrawal, held while a plan is made
HoldsPlan(t) == task[t].pc \in PlanPcs

CanRead(t) == \A u \in Tasks : ~HoldsWrite(u)
CanWrite(t) == \A u \in Tasks : ~HoldsWrite(u) /\ ~HoldsRead(u)
SlotFree == \A u \in Tasks : ~HoldsSlot(u)
PlanFree == \A u \in Tasks : ~HoldsPlan(u)

-----------------------------------------------------------------------------
(* Steps of a call *)

At(t, pc) == task[t].pc = pc
Goto(t, pc) == task' = [task EXCEPT ![t].pc = pc]
\* An early return or the end of the call; the guards are dropped.
Return(t) == task' = [task EXCEPT ![t] = Idle]
Retire(t, id, then) == task' = [task EXCEPT ![t].pc = "retire_prepare", ![t].id = id, ![t].then = then]

NoFault == UNCHANGED faults
Fault == faults.errors < MaxFaults /\ faults' = [faults EXCEPT !.errors = @ + 1]

-----------------------------------------------------------------------------
(* The wallet files, under wallet_mutex *)

Row(id) == nullifiers[requests[id].coin]

\* What the server says of a lease, of a request and of its nullifier.  A row answers
\* to the request that reserved it, and its nullifier answers to anyone.
fetch_direct_lease_status(id) == leases[id]
fetch_request_recovery(id) == IF Row(id).id = id THEN Row(id).status ELSE "unknown"
fetch_nullifier_recovery(id) == Row(id).status

\* Wallet::recover, external: the journal's answer is installed once it exists.
Recoverable == wallet.pending # 0 /\ Row(wallet.pending) = [status |-> "finalized", id |-> wallet.pending]
Recovered == IF Recoverable THEN [coin |-> NextCoin(wallet.coin), pending |-> 0] ELSE wallet

\* The indexer serves a path to the note's leaf only while the vault has it in its tree.
InTree(c) == c # NoCoin /\ vault[c.note].status = "active"

CanProve(w) == w.pending = 0 /\ InTree(w.coin) /\ w.coin.state < MaxState /\ Len(requests) < MaxRequests
NewId == Len(requests) + 1
Journal(w, kind) == requests' = Append(requests, [coin |-> w.coin, kind |-> kind])

(***************************************************************************)
(* prepare_direct_lease_request: the journalled lease request, or a new    *)
(* one.  The call goes on with it at pc, a retirement only with the        *)
(* request of its own lease.                                               *)
(***************************************************************************)
GoOnWith(t, id, pc) ==
  IF pc = "retire_post" /\ id # task[t].id
    THEN Return(t)
    ELSE task' = [task EXCEPT ![t].pc = pc, ![t].id = id]

prepare_direct_lease_request(t, pc) ==
  \/ /\ wallet.pending # 0 /\ requests[wallet.pending].kind = "lease"
     /\ GoOnWith(t, wallet.pending, pc)
     /\ NoFault /\ UNCHANGED <<wallet, requests>>
  \/ /\ CanProve(wallet)
     /\ Journal(wallet, "lease") /\ wallet' = [wallet EXCEPT !.pending = NewId]
     /\ GoOnWith(t, NewId, pc)
     /\ NoFault
  \/ /\ IF wallet.pending = 0 THEN ~CanProve(wallet) ELSE requests[wallet.pending].kind = "proxy"
     /\ Return(t)
     /\ NoFault /\ UNCHANGED <<wallet, requests>>
  \/ \* the indexer does not answer
     /\ wallet.pending = 0
     /\ Return(t)
     /\ Fault /\ UNCHANGED <<wallet, requests>>

-----------------------------------------------------------------------------
(* Inference *)

\* execute_request_in_session: the guard against a prepared withdrawal.
execute_request_in_session(t, s) ==
  /\ At(t, "idle") /\ PlanFree /\ plan = NoPlan
  /\ task' = [task EXCEPT ![t] = [Idle EXCEPT !.pc = IF mode = "proxy" THEN "proxy" ELSE "guarded",
                                              !.session = s]]
  /\ UNCHANGED <<mode, wallet, requests, lease, vault, faults, planVars, serverVars>>

\* The demo page submits a request without that guard.
request_submit(t) ==
  /\ At(t, "idle")
  /\ task' = [task EXCEPT ![t] = [Idle EXCEPT !.pc = "proxy"]]
  /\ UNCHANGED <<mode, wallet, requests, lease, vault, faults, planVars, serverVars>>

(***************************************************************************)
(* execute_request_demo: recover, prove, send and install the answer, all  *)
(* under the wallet lock.  Two stale roots leave nothing behind; any other *)
(* failure after the proof leaves the request in the journal.              *)
(***************************************************************************)
ProxyOutcome(w) ==
  LET row == nullifiers[w.coin]
      sent == [w EXCEPT !.pending = NewId] IN
  \/ /\ ~CanProve(w) /\ wallet' = w                       \* still pending, or no credit
     /\ NoFault /\ UNCHANGED <<requests, nullifiers>>
  \/ /\ CanProve(w) /\ wallet' = w                        \* stale root twice
     /\ row.status = "unknown"
     /\ Fault /\ UNCHANGED <<requests, nullifiers>>
  \/ /\ CanProve(w) /\ Journal(w, "proxy") /\ wallet' = sent
     /\ \/ Fault /\ UNCHANGED nullifiers           \* not delivered
        \/ row.status # "unknown" /\ NoFault /\ UNCHANGED nullifiers   \* replay
        \/ /\ row.status = "unknown" /\ Fault      \* accepted, the answer is lost
           /\ nullifiers' = [nullifiers EXCEPT ![w.coin] = [status |-> "reserved", id |-> NewId]]
  \/ /\ CanProve(w) /\ Journal(w, "proxy")
     /\ row.status = "unknown" /\ NoFault
     /\ nullifiers' = [nullifiers EXCEPT ![w.coin] = [status |-> "finalized", id |-> NewId]]
     /\ wallet' = [coin |-> NextCoin(w.coin), pending |-> 0]

execute_request_demo(t) ==
  /\ At(t, "proxy")
  /\ Return(t)
  /\ \/ ProxyOutcome(Recovered)
     \/ wallet.pending # 0 /\ Fault /\ UNCHANGED <<wallet, requests, nullifiers>>
  /\ UNCHANGED <<mode, lease, leases, expired, vault, planVars>>

-----------------------------------------------------------------------------
(* ensure_direct_openrouter_lease *)

LiveLease == lease # NoLease /\ lease.id \notin expired

ReusableBy_AnySession(s) == LiveLease    \* mutant
ReusableBy(s) == LiveLease /\ lease.session = s

\* open_direct_openrouter_response takes the shared lock, then the lease's.
ensure_direct_openrouter_lease(t) ==
  /\ At(t, "guarded") /\ CanRead(t) /\ SlotFree
  /\ \/ ReusableBy(task[t].session) /\ Goto(t, "verify") /\ UNCHANGED lease
     \/ LiveLease /\ ~ReusableBy(task[t].session) /\ Return(t) /\ UNCHANGED lease
     \/ lease # NoLease /\ ~LiveLease /\ Retire(t, lease.id, "recover") /\ lease' = NoLease
     \/ lease = NoLease /\ Goto(t, "recover") /\ UNCHANGED lease
  /\ UNCHANGED <<mode, wallet, requests, vault, faults, planVars, serverVars>>

RecoverBeforeIssue(t) ==
  /\ At(t, "recover")
  /\ \/ wallet' = Recovered /\ Goto(t, "prepare") /\ NoFault
     \/ wallet.pending # 0 /\ Return(t) /\ Fault /\ UNCHANGED wallet
  /\ UNCHANGED <<mode, requests, lease, vault, planVars, serverVars>>

IssuePrepare(t) ==
  /\ At(t, "prepare")
  /\ prepare_direct_lease_request(t, "post")
  /\ UNCHANGED <<mode, lease, vault, planVars, serverVars>>

\* A retry of the loop in issue_direct_openrouter_lease
Again(t, reason) == task' = [task EXCEPT ![t].pc = "prepare", ![t].id = 0, ![t].then = "none",
                                         ![t].used = @ \cup {reason}]

\* The server opens the lease; the answer arrives and the key is kept, or not.
LeaseOpened(t, id) ==
  /\ nullifiers' = [nullifiers EXCEPT ![requests[id].coin] = [status |-> "reserved", id |-> id]]
  /\ \/ /\ leases' = [leases EXCEPT ![id] = "active"]
        /\ lease' = [id |-> id, session |-> task[t].session, verified |-> KeySource = "openrouter"]
        /\ task' = [task EXCEPT ![t].pc = "verify", ![t].id = 0, ![t].used = @ \cap {"replacement"}]
        /\ NoFault
     \/ /\ leases' = [leases EXCEPT ![id] = "active"]     \* lost, unusable or untrusted answer
        /\ Return(t) /\ Fault /\ UNCHANGED lease
     \/ Return(t) /\ Fault /\ UNCHANGED <<lease, leases>>   \* no key at the provider

\* clear_pending_request
Cleared == [wallet EXCEPT !.pending = 0]

issue_direct_openrouter_lease(t) ==
  /\ At(t, "post")
  /\ LET id == task[t].id IN
     \/ /\ \/ Row(id).status = "unknown"
           \/ Row(id) = [status |-> "reserved", id |-> id] /\ leases[id] = "none"
        /\ LeaseOpened(t, id) /\ UNCHANGED wallet
     \/ /\ UNCHANGED <<lease, nullifiers, leases>>
        /\ \/ /\ Row(id).status = "unknown" /\ "stale_root" \notin task[t].used
              /\ wallet' = Cleared /\ Again(t, "stale_root") /\ Fault
           \/ /\ Row(id).id = id /\ leases[id] # "none"       \* lease_pending
              /\ Goto(t, "lost_key") /\ NoFault /\ UNCHANGED wallet
           \/ /\ Row(id).status # "unknown" /\ Row(id).id # id   \* replay
              /\ Return(t) /\ NoFault /\ UNCHANGED wallet
           \/ Return(t) /\ Fault /\ UNCHANGED wallet          \* no answer, or stale_root again
  /\ UNCHANGED <<mode, requests, expired, vault, planVars>>

\* Mutant: the lost lease is abandoned and a new request proved.
LostKey_Abandons(t) ==
  /\ At(t, "lost_key") /\ "lost_key" \notin task[t].used
  /\ wallet' = Cleared /\ Again(t, "lost_key")
  /\ NoFault
  /\ UNCHANGED <<mode, requests, lease, vault, planVars, serverVars>>

\* lease_pending: the key of an accepted lease was lost, by a restart or with the answer.
LostKey(t) ==
  /\ At(t, "lost_key")
  /\ LET id == task[t].id
         first == "lost_key" \notin task[t].used IN
     \/ ~first /\ Return(t) /\ NoFault /\ UNCHANGED wallet
     \/ /\ first /\ fetch_direct_lease_status(id) = "active"
        /\ Retire(t, id, "prepare") /\ NoFault /\ UNCHANGED wallet
     \/ /\ first /\ fetch_direct_lease_status(id) = "finalized" /\ NoFault
        /\ wallet' = Recovered
        /\ IF wallet'.pending = 0 THEN Again(t, "lost_key") ELSE Return(t)
     \/ Return(t) /\ Fault /\ UNCHANGED wallet
  /\ UNCHANGED <<mode, requests, lease, vault, planVars, serverVars>>

-----------------------------------------------------------------------------
(* Use of the key *)

\* The station's and the verifier's answers are checked; a genuine key fails only
\* when one of the calls does.
verify_oa_key(ok) == IF ok THEN NoFault ELSE Fault

VerifyKey(t) ==
  /\ At(t, "verify")
  /\ \/ /\ lease.verified \/ lease.id \notin expired
        /\ lease' = [lease EXCEPT !.verified = TRUE]
        /\ task' = [task EXCEPT ![t].pc = "infer", ![t].id = lease.id]
        /\ verify_oa_key(TRUE)
     \/ ~lease.verified /\ lease.id \in expired /\ Return(t) /\ verify_oa_key(TRUE) /\ UNCHANGED lease
     \/ ~lease.verified /\ Return(t) /\ verify_oa_key(FALSE) /\ UNCHANGED lease
  /\ UNCHANGED <<mode, wallet, requests, vault, planVars, serverVars>>

\* With its own retries, which keep the key and the locks.
send_openrouter_request(ok) == IF ok THEN NoFault ELSE Fault

\* The last byte of the answer has been read; the shared lock is dropped.
InferenceEnds(t) ==
  /\ At(t, "infer") /\ send_openrouter_request(TRUE)
  /\ Return(t)
  /\ UNCHANGED <<mode, wallet, requests, lease, vault, planVars, serverVars>>

\* The key is refused: once, the call retires it and starts again with another.
InferenceFails(t) ==
  /\ At(t, "infer") /\ send_openrouter_request(FALSE)
  /\ \/ /\ "replacement" \notin task[t].used
        /\ task' = [task EXCEPT ![t].pc = "rejected", ![t].then = "retry"]
     \/ task' = [task EXCEPT ![t].pc = "rejected", ![t].then = "fail"]
  /\ UNCHANGED <<mode, wallet, requests, lease, vault, planVars, serverVars>>

DropRejectedKey(t) ==
  /\ At(t, "rejected") /\ CanWrite(t)
  /\ lease' = IF lease.id = task[t].id THEN NoLease ELSE lease
  /\ Goto(t, "retire_prepare")
  /\ UNCHANGED <<mode, wallet, requests, vault, faults, planVars, serverVars>>

-----------------------------------------------------------------------------
(* retire_direct_openrouter_lease *)

RetirePrepare(t) ==
  /\ At(t, "retire_prepare")
  /\ prepare_direct_lease_request(t, "retire_post")
  /\ UNCHANGED <<mode, lease, vault, planVars, serverVars>>

\* The server's settlement of a lease: its usage is charged and the row finalized.
Settled(id) ==
  /\ leases' = [leases EXCEPT ![id] = "finalized"]
  /\ nullifiers' = [nullifiers EXCEPT ![requests[id].coin].status = "finalized"]

RetirePost(t) ==
  /\ At(t, "retire_post")
  /\ LET id == task[t].id IN
     \/ leases[id] # "none" /\ Settled(id) /\ Goto(t, "retire_recover") /\ NoFault
     \/ leases[id] # "none" /\ Settled(id) /\ Return(t) /\ Fault
     \/ leases[id] = "none" /\ Return(t) /\ NoFault /\ UNCHANGED <<leases, nullifiers>>
     \/ Return(t) /\ Fault /\ UNCHANGED <<leases, nullifiers>>
  /\ UNCHANGED <<mode, wallet, requests, lease, expired, vault, planVars>>

AfterRetirement(t) ==
  LET then == task[t].then IN
  CASE then = "recover" -> task' = [task EXCEPT ![t].pc = "recover", ![t].id = 0, ![t].then = "none"]
    [] then = "prepare" -> Again(t, "lost_key")
    [] then = "retry"   -> task' = [task EXCEPT ![t].pc = "guarded", ![t].id = 0, ![t].then = "none",
                                                ![t].used = {"replacement"}]
    [] OTHER            -> Return(t)

RetireRecover(t) ==
  /\ At(t, "retire_recover")
  /\ \/ Recoverable /\ wallet' = Recovered /\ AfterRetirement(t) /\ NoFault
     \/ ~Recoverable /\ Return(t) /\ NoFault /\ UNCHANGED wallet
     \/ wallet.pending # 0 /\ Return(t) /\ Fault /\ UNCHANGED wallet
  /\ UNCHANGED <<mode, requests, lease, vault, planVars, serverVars>>

-----------------------------------------------------------------------------
(* Recovery *)

\* /wallet/recover: the wallet lock only
recover(t) ==
  /\ At(t, "idle") /\ Recoverable
  /\ wallet' = Recovered
  /\ UNCHANGED <<mode, requests, lease, task, vault, faults, planVars, serverVars>>

Reconciled ==
  /\ wallet' = Recovered
  /\ lease' = IF Recoverable THEN NoLease ELSE lease

\* Mutant: nothing to reconcile without a key in memory
reconcile_direct_openrouter_HeldKey ==
  /\ mode = "direct_openrouter" /\ lease # NoLease /\ \A t \in Tasks : CanWrite(t)
  /\ Recoverable /\ Reconciled
  /\ UNCHANGED <<mode, requests, task, vault, faults, planVars, serverVars>>

\* reconcile_direct_openrouter, every five seconds; skipped while the lock is taken
reconcile_direct_openrouter ==
  /\ mode = "direct_openrouter" /\ \A t \in Tasks : CanWrite(t)
  /\ Recoverable /\ Reconciled
  /\ UNCHANGED <<mode, requests, task, vault, faults, planVars, serverVars>>

-----------------------------------------------------------------------------
(* settle_for_withdrawal *)

SettleStart(t) ==
  \/ mode = "direct_openrouter" /\ lease # NoLease /\ Retire(t, lease.id, "settled") /\ lease' = NoLease
  \/ /\ mode = "direct_openrouter" /\ lease = NoLease /\ wallet.pending # 0
     /\ Goto(t, "settle") /\ UNCHANGED lease
  \/ mode = "proxy" /\ wallet.pending # 0 /\ Goto(t, "settle_recover") /\ UNCHANGED lease

\* Mutant: without the exclusive lock
settle_for_withdrawal_Unlocked(t) ==
  /\ At(t, "idle")
  /\ SettleStart(t)
  /\ UNCHANGED <<mode, wallet, requests, vault, faults, planVars, serverVars>>

settle_for_withdrawal(t) ==
  /\ At(t, "idle") /\ CanWrite(t)
  /\ SettleStart(t)
  /\ UNCHANGED <<mode, wallet, requests, vault, faults, planVars, serverVars>>

SettlePrepare(t) ==
  /\ At(t, "settle")
  /\ prepare_direct_lease_request(t, "find")
  /\ UNCHANGED <<mode, lease, vault, planVars, serverVars>>

\* A request the server never accepted: unknown, or refused for a mutual close.
\* The mutant takes a missing lease as proof enough.
Orphaned_NoLease(id) == fetch_request_recovery(id) # "finalized"
Orphaned(id) ==
  /\ fetch_request_recovery(id) = "unknown"
  /\ fetch_nullifier_recovery(id) \in {"unknown", "clearance_reserved"}

(***************************************************************************)
(* find_direct_lease_for_withdrawal: the lease, the request and the        *)
(* nullifier are asked for, in this order; the attempts of its loop see    *)
(* the same answers unless the server moves in between.                    *)
(***************************************************************************)
find_direct_lease_for_withdrawal(t) ==
  /\ At(t, "find")
  /\ LET id == task[t].id
         status == fetch_direct_lease_status(id) IN
     \/ status = "none" /\ Orphaned(id) /\ wallet' = Cleared /\ Return(t) /\ NoFault
     \/ /\ status = "none" /\ ~Orphaned(id) /\ Return(t) /\ NoFault
        /\ wallet' = IF fetch_request_recovery(id) = "finalized" THEN Recovered ELSE wallet
     \/ /\ UNCHANGED wallet
        /\ \/ status = "active" /\ Retire(t, id, "settled") /\ NoFault
           \/ status = "finalized" /\ Goto(t, "settle_recover") /\ NoFault
           \/ Return(t) /\ Fault
  /\ UNCHANGED <<mode, requests, lease, vault, planVars, serverVars>>

SettleRecover(t) ==
  /\ At(t, "settle_recover")
  /\ Return(t)
  /\ \/ wallet' = Recovered /\ NoFault
     \/ Fault /\ UNCHANGED wallet
  /\ UNCHANGED <<mode, requests, lease, vault, planVars, serverVars>>

-----------------------------------------------------------------------------
(* create_withdrawal *)

\* Replacing a mutual plan by an escape to the same address is the one change allowed.
MayPrepare(m, d) == plan = NoPlan \/ (plan.mode = "mutual" /\ m = "escape" /\ plan.destination = d)

create_withdrawal(t, m, d) ==
  /\ At(t, "idle") /\ PlanFree
  /\ \/ /\ plan # NoPlan /\ plan.mode = m /\ plan.destination = d
        /\ handed' = handed \cup {plan} /\ UNCHANGED task
     \/ /\ MayPrepare(m, d)
        /\ task' = [task EXCEPT ![t] = [Idle EXCEPT !.pc = "reconcile",
                      !.plan = [mode |-> m, destination |-> d, coin |-> NoCoin]]]
        /\ UNCHANGED handed
  /\ UNCHANGED <<mode, wallet, requests, plan, planFile, lease, vault, faults, serverVars>>

\* The reconciliation is skipped when the lock is taken and its errors are ignored.
WithdrawReconcile(t) ==
  /\ At(t, "reconcile")
  /\ Goto(t, "check_lease")
  /\ \/ mode = "direct_openrouter" /\ CanWrite(t) /\ Reconciled /\ NoFault
     \/ (mode = "proxy" \/ ~CanWrite(t)) /\ NoFault /\ UNCHANGED <<wallet, lease>>
     \/ mode = "direct_openrouter" /\ Fault /\ UNCHANGED <<wallet, lease>>
  /\ UNCHANGED <<mode, requests, vault, planVars, serverVars>>

CheckNoLease(t) ==
  /\ At(t, "check_lease") /\ SlotFree
  /\ IF lease = NoLease THEN Goto(t, "prove") ELSE Return(t)
  /\ UNCHANGED <<mode, wallet, requests, lease, vault, faults, planVars, serverVars>>

\* Wallet::withdrawal_mutual_close asks the server for a clearance, withdrawal_escape_hatch
\* does not; neither is possible with a request in the journal.
Able(t, m) == InTree(wallet.coin) /\ wallet.pending = 0 /\ task[t].plan.mode = m
Clearable == nullifiers[wallet.coin].status \in {"unknown", "clearance_reserved"}
ClearanceReserved == nullifiers' = [nullifiers EXCEPT ![wallet.coin].status = "clearance_reserved"]
Proved(t) == task' = [task EXCEPT ![t].pc = "persist", ![t].plan.coin = wallet.coin]

\* Mutant: an unanswered request for clearance is ignored.
ProofFails_Ignored(t) ==
  IF Able(t, "mutual") THEN Proved(t) /\ Fault /\ UNCHANGED nullifiers
                       ELSE Return(t) /\ Fault /\ UNCHANGED nullifiers

ProofFails(t) == Return(t) /\ Fault /\ UNCHANGED nullifiers

Prove(t) ==
  /\ At(t, "prove")
  /\ \/ Able(t, "escape") /\ Proved(t) /\ NoFault /\ UNCHANGED nullifiers
     \/ Able(t, "mutual") /\ Clearable /\ ClearanceReserved /\ Proved(t) /\ NoFault
     \/ Able(t, "mutual") /\ Clearable /\ ClearanceReserved /\ Return(t) /\ Fault
     \/ /\ ~Able(t, "escape") /\ (Able(t, "mutual") => ~Clearable)
        /\ Return(t) /\ NoFault /\ UNCHANGED nullifiers
     \/ ProofFails(t)
  /\ UNCHANGED <<mode, wallet, requests, lease, leases, expired, vault, planVars>>

\* A temporary file, synced and renamed
persist_prepared_withdrawal(p, ok) ==
  IF ok THEN planFile' = p /\ NoFault ELSE Fault /\ UNCHANGED planFile

\* The plan is set in memory, then on disk, and returned if that succeeds.
InstallPlan(t) ==
  /\ At(t, "persist")
  /\ LET p == task[t].plan IN
     /\ plan' = p
     /\ \/ persist_prepared_withdrawal(p, TRUE) /\ handed' = handed \cup {p}
        \/ persist_prepared_withdrawal(p, FALSE) /\ UNCHANGED handed
  /\ Return(t)
  /\ UNCHANGED <<mode, wallet, requests, lease, vault, serverVars>>

-----------------------------------------------------------------------------
(* confirm_withdrawal and reset_wallet *)

\* Called by a user who has prepared a withdrawal.
confirm_withdrawal(t) ==
  /\ At(t, "idle") /\ wallet.coin # NoCoin /\ (plan # NoPlan \/ handed # {})
  /\ task' = [task EXCEPT ![t] = [Idle EXCEPT !.pc = "chain", !.note = wallet.coin.note]]
  /\ UNCHANGED <<mode, wallet, requests, lease, vault, faults, planVars, serverVars>>

\* What the vault's notes() call answers
vault_eth_call(n) == vault[n].status

onchain_withdrawal_status(t) ==
  /\ At(t, "chain")
  /\ LET status == vault_eth_call(task[t].note) IN
     \/ status = "closed" /\ Goto(t, "closed") /\ NoFault
     \/ status = "active" /\ Goto(t, "reopened") /\ NoFault
     \/ status = "pending_withdrawal" /\ Return(t) /\ NoFault
     \/ Return(t) /\ Fault
  /\ UNCHANGED <<mode, wallet, requests, lease, vault, planVars, serverVars>>

\* Both confirm_withdrawal and reset_wallet forget the plan, then the lease.
ForgetPlan(t) ==
  /\ PlanFree
  /\ \/ At(t, "closed") /\ Goto(t, "closed_lease")
     \/ At(t, "forget") /\ Goto(t, "forget_lease")
  /\ plan' = NoPlan
  /\ UNCHANGED <<mode, wallet, requests, planFile, handed, lease, vault, faults, serverVars>>

ForgetLease(t) ==
  /\ SlotFree
  /\ \/ At(t, "closed_lease") /\ Goto(t, "reset")
     \/ At(t, "forget_lease") /\ Return(t)
  /\ lease' = NoLease
  /\ UNCHANGED <<mode, wallet, requests, vault, faults, planVars, serverVars>>

\* An active note with an escape plan: the escape was challenged.
ConfirmActive(t) ==
  /\ At(t, "reopened") /\ PlanFree
  /\ Return(t)
  /\ \/ plan.mode # "escape" /\ NoFault /\ UNCHANGED <<plan, planFile>>
     \/ plan.mode = "escape" /\ plan' = NoPlan /\ planFile' = NoPlan /\ NoFault
     \/ plan.mode = "escape" /\ plan' = NoPlan /\ Fault /\ UNCHANGED planFile
  /\ UNCHANGED <<mode, wallet, requests, lease, handed, vault, serverVars>>

\* /wallet/reset: "Only call once the note is closed on chain".
wallet_reset(t) ==
  /\ At(t, "idle") /\ wallet.coin # NoCoin /\ vault[wallet.coin.note].status = "closed"
  /\ Goto(t, "reset")
  /\ UNCHANGED <<mode, wallet, requests, lease, vault, faults, planVars, serverVars>>

reset_wallet(t) ==
  /\ At(t, "reset")
  /\ wallet' = [coin |-> NoCoin, pending |-> 0]
  /\ planFile' = NoPlan
  /\ Goto(t, "forget")
  /\ UNCHANGED <<mode, requests, plan, handed, lease, vault, faults, serverVars>>

-----------------------------------------------------------------------------
(* Deposits and restarts *)

\* prepare_deposit, the deposit on chain and confirm_deposit.  Assumed: the transaction
\* outlasts the calls made before it.
confirm_deposit(n) ==
  /\ wallet.coin = NoCoin /\ vault[n].status = "none"
  /\ \A t \in Tasks : At(t, "idle")
  /\ \A m \in Notes : m < n => vault[m].status # "none"
  /\ vault' = [vault EXCEPT ![n].status = "active"]
  /\ wallet' = [wallet EXCEPT !.coin = [note |-> n, state |-> 0]]
  /\ UNCHANGED <<mode, requests, lease, task, faults, planVars, serverVars>>

\* What retire_low_balance_note leaves in the wallet: a spent note is moved aside.
LowBalanceRetired ==
  IF wallet.coin # NoCoin /\ wallet.coin.state = MaxState /\ wallet.pending = 0
    THEN [wallet EXCEPT !.coin = NoCoin] ELSE wallet

\* The plan of an earlier process, if its file exists
load_prepared_withdrawal == planFile

\* A crash and AuthService::new; `zkapi client` rotates a spent note before it serves.
Restart ==
  /\ faults.crashes < MaxCrashes
  /\ faults' = [faults EXCEPT !.crashes = @ + 1]
  /\ task' = [t \in Tasks |-> Idle]
  /\ lease' = NoLease
  /\ plan' = load_prepared_withdrawal
  /\ wallet' \in {wallet, LowBalanceRetired}
  /\ UNCHANGED <<mode, requests, planFile, handed, vault, serverVars>>

-----------------------------------------------------------------------------
(* The server, and the vault, which is external *)

KeyExpires(id) ==
  /\ leases[id] = "active" /\ id \notin expired
  /\ expired' = expired \cup {id}
  /\ UNCHANGED <<mode, wallet, requests, lease, task, nullifiers, leases, vault, faults, planVars>>

\* The settlement sweep, after the key has expired.
ServerSettles(id) ==
  /\ leases[id] = "active" /\ id \in expired
  /\ Settled(id)
  /\ UNCHANGED <<mode, wallet, requests, lease, task, expired, vault, faults, planVars>>

\* A request whose answer was lost is finished by the server.
ServerFinishes(id) ==
  /\ id <= Len(requests) /\ requests[id].kind = "proxy"
  /\ Row(id) = [status |-> "reserved", id |-> id]
  /\ nullifiers' = [nullifiers EXCEPT ![requests[id].coin].status = "finalized"]
  /\ UNCHANGED <<mode, wallet, requests, lease, task, leases, expired, vault, faults, planVars>>

VaultStep(n) ==
  /\ \/ \E p \in handed :
          /\ p.coin.note = n /\ vault[n].status = "active"
          /\ vault' = [vault EXCEPT ![n] =
               IF p.mode = "mutual" THEN [status |-> "closed", coin |-> NoCoin]
                                    ELSE [status |-> "pending_withdrawal", coin |-> p.coin]]
     \/ /\ vault[n].status = "pending_withdrawal"
        /\ vault' = [vault EXCEPT ![n] = [status |-> "closed", coin |-> NoCoin]]
     \/ /\ vault[n].status = "pending_withdrawal"        \* challenged with a finalized spend
        /\ nullifiers[vault[n].coin].status = "finalized"
        /\ vault' = [vault EXCEPT ![n] = [status |-> "active", coin |-> NoCoin]]
  /\ UNCHANGED <<mode, wallet, requests, lease, task, faults, planVars, serverVars>>

-----------------------------------------------------------------------------
(* The specification *)

\* The arrival of a call
Call(t) ==
  \/ \E s \in Sessions : execute_request_in_session(t, s)
  \/ request_submit(t)
  \/ recover(t)
  \/ settle_for_withdrawal(t)
  \/ \E m \in {"mutual", "escape"}, d \in Destinations : create_withdrawal(t, m, d)
  \/ confirm_withdrawal(t)
  \/ wallet_reset(t)

\* A step of a call in progress
Continue(t) ==
  \/ execute_request_demo(t)
  \/ ensure_direct_openrouter_lease(t) \/ RecoverBeforeIssue(t) \/ IssuePrepare(t)
  \/ issue_direct_openrouter_lease(t) \/ LostKey(t)
  \/ VerifyKey(t) \/ InferenceEnds(t) \/ InferenceFails(t) \/ DropRejectedKey(t)
  \/ RetirePrepare(t) \/ RetirePost(t) \/ RetireRecover(t)
  \/ SettlePrepare(t) \/ find_direct_lease_for_withdrawal(t) \/ SettleRecover(t)
  \/ WithdrawReconcile(t) \/ CheckNoLease(t) \/ Prove(t) \/ InstallPlan(t)
  \/ onchain_withdrawal_status(t) \/ ConfirmActive(t)
  \/ reset_wallet(t) \/ ForgetPlan(t) \/ ForgetLease(t)

ClientNext ==
  \/ \E t \in Tasks : Call(t) \/ Continue(t)
  \/ reconcile_direct_openrouter
  \/ \E n \in Notes : confirm_deposit(n) \/ VaultStep(n)
  \/ Restart
  \/ \E id \in Ids : KeyExpires(id) \/ ServerSettles(id) \/ ServerFinishes(id)

ClientSpec == ClientInit /\ [][ClientNext]_vars

\* Calls are driven to their end by the runtime, and the ticker of routes.rs keeps ticking.
LiveClientSpec ==
  /\ ClientSpec
  /\ \A t \in Tasks : WF_vars(Continue(t))
  /\ WF_vars(reconcile_direct_openrouter)
-----------------------------------------------------------------------------
(* Properties *)

(***************************************************************************)
(* The wallet never loses track of a spend: once the server has accepted a *)
(* request for the wallet's current state, the journal holds that very     *)
(* request, whatever was lost, cleared as orphaned or stale, or restarted. *)
(***************************************************************************)
ReservationIsJournalled ==
  \A c \in Coin :
    wallet.coin = c /\ nullifiers[c].status \in {"reserved", "finalized"}
      => wallet.pending = nullifiers[c].id

(***************************************************************************)
(* A mutual close binds the authoritative state: while its plan is kept    *)
(* and the note is in the wallet, the note stays in the state the plan     *)
(* proves and the server keeps that state cleared.                         *)
(***************************************************************************)
MutualPlanIsFinal ==
  \A p \in {plan, planFile} :
    p.mode = "mutual" =>
      /\ nullifiers[p.coin].status = "clearance_reserved"
      /\ wallet.coin.note = p.coin.note => wallet.coin = p.coin

\* The note of a request is closed on chain.
NoteClosed(id) == vault[requests[id].coin.note].status = "closed"

(***************************************************************************)
(* A key is not retired under a call that uses it, so the usage of every   *)
(* call is settled: the exclusive lock of a retirement waits for the       *)
(* streams of the key.  Only an expired key is retired under the shared    *)
(* lock, or one whose note is closed on chain: confirm_withdrawal forgets  *)
(* the key before it removes the journal, and a call in between takes the  *)
(* key for lost.                                                           *)
(***************************************************************************)
RetirementExcludesUse ==
  \A t, u \in Tasks :
    t # u /\ task[t].pc \in RetirePcs /\ At(u, "infer") /\ task[t].id = task[u].id
      => task[t].id \in expired \/ NoteClosed(task[t].id)

\* "a different session cannot silently inherit that key" (execute_request_in_session)
KeyServesOneSession ==
  \A t, u \in Tasks :
    /\ At(t, "infer") /\ At(u, "infer") /\ task[t].id = task[u].id => task[t].session = task[u].session
    /\ At(t, "infer") /\ lease.id = task[t].id => lease.session = task[t].session

(***************************************************************************)
(* "the wallet advances soon after authoritative usage settlement even if  *)
(* no new LLM request arrives" (reconcile_direct_openrouter): in direct    *)
(* mode a settled lease does not stay in the journal.                      *)
(***************************************************************************)
FinalizedRequestIsInstalled ==
  \A i \in Ids :
    (/\ mode = "direct_openrouter" /\ wallet.pending = i
     /\ requests[i].kind = "lease" /\ Recoverable) ~> (wallet.pending # i)

(***************************************************************************)
(* create_withdrawal says it holds the plan's lock "so no new UI/API       *)
(* request can pass the withdrawal guard and open a competing lease": no   *)
(* lease is opened while a withdrawal is prepared.                         *)
(***************************************************************************)
NoLeaseAfterPlan ==
  [][plan # NoPlan => \A i \in Ids : leases[i] = "none" => leases'[i] = "none"]_vars

-----------------------------------------------------------------------------
(* The inductive invariant: what makes the properties above true together *)

\* The journal holds a request of the wallet's own state, and no request was proved
\* for a later state of the note or for a note that is not on chain.
JournalIsCurrent ==
  /\ wallet.coin # NoCoin => vault[wallet.coin.note].status # "none"
  /\ wallet.pending # 0 =>
       /\ wallet.pending \in DOMAIN requests /\ wallet.coin # NoCoin
       /\ requests[wallet.pending].coin = wallet.coin
  /\ \A i \in DOMAIN requests :
       LET c == requests[i].coin IN
         /\ c.state < MaxState /\ vault[c.note].status # "none"
         /\ c.note = wallet.coin.note => c.state <= wallet.coin.state

\* A row that is in use answers to a request for its own state, and a lease is that
\* of the request that reserved the row.
RowsAnswerRequests ==
  /\ \A c \in Coin :
       nullifiers[c].status \in {"reserved", "finalized"} =>
         nullifiers[c].id \in DOMAIN requests /\ requests[nullifiers[c].id].coin = c
  /\ \A i \in Ids :
       leases[i] # "none" =>
         i \in DOMAIN requests /\ Row(i).id = i /\ Row(i).status \in {"reserved", "finalized"}

\* A plan is for a note on chain, and one of a mutual close for the state of its
\* clearance, which the wallet does not leave.
Binding(p) ==
  p.mode # "none" =>
    /\ vault[p.coin.note].status # "none"
    /\ p.mode = "mutual" =>
         /\ nullifiers[p.coin].status = "clearance_reserved"
         /\ wallet.coin.note = p.coin.note => wallet.coin = p.coin

\* The key in memory is that of an open lease, whose note is the wallet's or closed.
KeyIsLeased ==
  lease # NoLease =>
    /\ lease.id \in DOMAIN requests /\ leases[lease.id] # "none"
    /\ NoteClosed(lease.id) \/ requests[lease.id].coin.note = wallet.coin.note

\* The one holder of the lease's lock, and the one holder of the exclusive lock.
LocksExclude ==
  \A t, u \in Tasks :
    /\ HoldsSlot(t) /\ HoldsSlot(u) => t = u
    /\ HoldsWrite(t) /\ (HoldsWrite(u) \/ HoldsRead(u)) => t = u

\* A call that issues a lease, between taking the slot's lock and being answered.
Issuing(c) ==
  \/ c.pc \in {"recover", "prepare", "post", "lost_key"}
  \/ c.pc \in RetirePcs /\ c.then \in {"recover", "prepare"}

\* Which part of a call is set where.
CallIsFormed(c) ==
  /\ c.pc \in PlanPcs => c.plan.mode \in {"mutual", "escape"} /\ c.plan.destination \in Destinations
  /\ c.pc = "persist" => c.plan \in Plan
  /\ c.pc \in RetirePcs => c.then # "none"
  /\ c.pc \in RetirePcs \cup {"post", "lost_key", "find", "infer", "rejected"} => c.id \in DOMAIN requests
  /\ c.pc = "rejected" => c.then \in {"retry", "fail"}
  /\ \/ c.pc \in ReadPcs \cup {"guarded", "rejected"}
     \/ c.pc \in RetirePcs /\ c.then \in {"recover", "prepare", "retry"}
     => c.session \in Sessions

(***************************************************************************)
(* What a call relies on while others run: the request it is about to send *)
(* or to give up is in the journal unless the server has accepted it; the  *)
(* key it uses is its session's, and is in memory, expired or of a closed  *)
(* note; a call that forgets the wallet has seen its note closed.          *)
(***************************************************************************)
CallIsCovered(c) ==
  /\ c.pc \in {"post", "find"} /\ Row(c.id).status \in {"unknown", "clearance_reserved"} =>
       wallet.pending = c.id \/ wallet.coin = NoCoin
  /\ c.pc = "post" => NoteClosed(c.id) \/ requests[c.id].coin.note = wallet.coin.note
  /\ c.pc = "verify" => lease # NoLease /\ lease.session = c.session
  /\ Issuing(c) => lease = NoLease
  /\ c.pc = "infer" =>
       /\ leases[c.id] # "none"
       /\ lease.id = c.id \/ c.id \in expired \/ NoteClosed(c.id)
  /\ c.pc = "persist" => Binding(c.plan)
  /\ c.pc = "chain" => wallet.coin = NoCoin \/ wallet.coin.note = c.note
  /\ c.pc \in {"closed", "closed_lease", "reset", "forget", "forget_lease"} =>
       wallet.coin = NoCoin \/ vault[wallet.coin.note].status = "closed"

(***************************************************************************)
(* The state of the daemon at every point of its calls, also after a fault *)
(* at any await or a restart: the journal, the server's rows, the plans    *)
(* and the key in memory agree, the locks exclude each other and every     *)
(* call in progress can rely on what it has checked.  It is inductive.     *)
(***************************************************************************)
ClientInv ==
  /\ ClientTypeOK
  /\ ReservationIsJournalled
  /\ JournalIsCurrent
  /\ RowsAnswerRequests
  /\ Binding(plan) /\ Binding(planFile)
  /\ KeyIsLeased
  /\ LocksExclude
  /\ \A t \in Tasks : CallIsFormed(task[t]) /\ CallIsCovered(task[t])
  /\ KeyServesOneSession

=============================================================================
