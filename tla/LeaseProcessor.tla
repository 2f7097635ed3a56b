--------------------------- MODULE LeaseProcessor ---------------------------
(***************************************************************************)
(* Prompt-private leases of zkapi-serverd: issue_openrouter_lease,         *)
(* settle_due_openrouter_leases and retire_openrouter_lease of             *)
(* processor_v2.rs, the openrouter_leases table of nullifier_store.rs, and *)
(* the key provider they drive, beside the proxy and clearance endpoints   *)
(* of RequestProcessor, which share the nullifier table with them.         *)
(*                                                                         *)
(* The lease_issue_lock is held by the one handler whose kind is           *)
(* "openrouter_lease"; the lease_settlement_lock by the settlement in      *)
(* `settlement'.  Times are kept as the seconds that are left, so that the *)
(* clock needs no bound.                                                   *)
(***************************************************************************)
EXTENDS RequestProcessor, FiniteSets

CONSTANTS
  Source,          \* config.openrouter_leases.source: "openrouter" or "oa_org"
  LeasePayload,    \* the prompt-free OpenRouterLeaseAuthorization
  Ttl,             \* ttl_seconds
  Grace,           \* settlement_grace_seconds
  ExpirySlack,     \* how far a key's expiry may be from now + Ttl (OA org)
  ExpirySafety,    \* OA_LEASE_EXPIRY_SAFETY_SECONDS
  Overshoot,       \* how far a key's usage may pass its limit
  MaxKeys          \* bound on the keys the provider creates

ASSUME LeaseAssumption ==
  /\ Source \in {"openrouter", "oa_org"}
  /\ LeasePayload \in Payloads
  /\ Ttl \in Nat /\ Grace \in Nat /\ ExpirySlack \in Nat /\ ExpirySafety \in Nat
  /\ Overshoot \in Nat /\ MaxKeys \in Nat

VARIABLES
  leases,        \* the openrouter_leases table, by client_request_id
  keys,          \* external: the keys at the provider
  held,          \* external: the keys whose plaintext reached a client
  issue,         \* where the handler that holds lease_issue_lock is
  settlement,    \* the settlement that holds lease_settlement_lock
  early          \* history: leases charged by a usage read before settle_after

leaseVars == <<leases, keys, held, issue, settlement, early>>
allVars == <<vars, leaseVars>>

KeyIds == 1..MaxKeys

LeaseRow ==
  [status : {"none", "provisioning", "active", "finalized"},
   request : ApiRequests \cup {None}, key : 0..MaxKeys,
   expiresIn : 0..Ttl, settleIn : 0..(Ttl + Grace), charge : Nat]

NoLease ==
  [status |-> "none", request |-> None, key |-> 0, expiresIn |-> 0, settleIn |-> 0, charge |-> 0]

\* A provider key, named after the client_request_id of its request.  finalIn:
\* when its aggregate usage is certain to be complete.
Key ==
  [status : {"none", "live", "off"}, request : ApiRequests \cup {None},
   usage : Nat, expiresIn : 0..Ttl, finalIn : 0..(Ttl + Grace)]

NoKey == [status |-> "none", request |-> None, usage |-> 0, expiresIn |-> 0, finalIn |-> 0]

IssueStep == [pc : {"start", "reconcile", "create", "creating"}, key : 0..MaxKeys]
NotIssuing == [pc |-> "start", key |-> 0]

Settlement ==
  [by : {"nobody", "sweep", "retire"},
   pc : {"start", "usage", "finalize", "lease_row", "delete"},
   client : ClientIds \cup {None}, todo : SUBSET ClientIds, charge : Nat]

NoSettlement ==
  [by |-> "nobody", pc |-> "start", client |-> None, todo |-> {}, charge |-> 0]

LeaseTypeOK ==
  /\ TypeOK
  /\ leases \in [ClientIds -> LeaseRow]
  /\ keys \in [KeyIds -> Key]
  /\ held \subseteq KeyIds
  /\ issue \in [Workers -> IssueStep]
  /\ settlement \in Settlement
  /\ early \subseteq ClientIds

LeaseInit ==
  /\ Init
  /\ leases = [c \in ClientIds |-> NoLease]
  /\ keys = [k \in KeyIds |-> NoKey]
  /\ held = {}
  /\ issue = [w \in Workers |-> NotIssuing]
  /\ settlement = NoSettlement
  /\ early = {}

Smaller(a, b) == IF a <= b THEN a ELSE b

-----------------------------------------------------------------------------
(* The provider, external *)

FreeKeys == {k \in KeyIds : keys[k].status = "none"}
FreshKey == CHOOSE k \in FreeKeys : \A j \in FreeKeys : k <= j

KeysNamed(c) ==
  {k \in KeyIds : keys[k].status # "none" /\ keys[k].request.client = c}

\* A key whose owner is unknown to the server may be lost only while the
\* bound leaves a key for every retry.
CanLoseKey == Cardinality(FreeKeys) > MaxCrashes - crashes

\* The client's direct inference calls.
UseKey(k) ==
  /\ k \in held
  /\ keys[k].status = "live" /\ keys[k].expiresIn > 0
  /\ keys[k].usage < keys[k].request.bound + Overshoot
  /\ keys' = [keys EXCEPT ![k].usage = @ + 1]
  /\ UNCHANGED <<vars, leases, held, issue, settlement, early>>

-----------------------------------------------------------------------------
(* issue_openrouter_lease *)

\* Mutant: no lock.
IssueLockFree_NoLock == TRUE

IssueLockFree == \A w \in Workers : handler[w].kind # "openrouter_lease"

PostLease(w, r) ==
  /\ ~PolicyEnabled
  /\ r.payload = LeasePayload
  /\ IssueLockFree
  /\ Arrive(w, r, "openrouter_lease")
  /\ UNCHANGED <<nullifiers, root, now, nextState, crashes, upstream, replies, cleared>>
  /\ UNCHANGED leaseVars

Issuing(w, pc) == handler[w].pc = "issue" /\ issue[w].pc = pc

\* create_openrouter_lease
ProvisioningRow(r) ==
  [status |-> "provisioning", request |-> r, key |-> 0,
   expiresIn |-> Ttl, settleIn |-> Ttl + Grace, charge |-> 0]

IssueGoto(w, pc, key) == issue' = [issue EXCEPT ![w] = [pc |-> pc, key |-> key]]

IssueReturn(w) ==
  /\ Return(w)
  /\ issue' = [issue EXCEPT ![w] = NotIssuing]

\* Only the lease part of the server moves.
IssueFrame == UNCHANGED <<nullifiers, root, now, nextState, crashes, upstream, replies,
                          cleared, settlement, early>>

\* spending_limit_usd: a deployment with no charge cap accepts a bound of 0.
HasBudget(r) == r.bound > 0

(***************************************************************************)
(* A proof of nothing has been reserved by now and is refused all the      *)
(* same; an existing lease row of another request is an Internal error,    *)
(* one past provisioning is LeasePending.                                  *)
(***************************************************************************)
IssueRefused(w) ==
  /\ Issuing(w, "start")
  /\ LET row == leases[Req(w).client] IN
       \/ ~HasBudget(Req(w))
       \/ /\ row.status # "none"
          /\ row.request # Req(w) \/ row.status # "provisioning" \/ row.key # 0
  /\ IssueReturn(w)
  /\ IssueFrame /\ UNCHANGED <<leases, keys, held>>

IssueFresh(w) ==
  /\ Issuing(w, "start")
  /\ HasBudget(Req(w))
  /\ leases[Req(w).client].status = "none"
  /\ leases' = [leases EXCEPT ![Req(w).client] = ProvisioningRow(Req(w))]
  /\ IssueGoto(w, "create", 0)
  /\ IssueFrame /\ UNCHANGED <<handler, keys, held>>

\* Mutants: a retry of a lease that is active already goes on, or an
\* interrupted attempt is pending for ever.
IssueResumed_AnyStatus(w) ==
  /\ Issuing(w, "start")
  /\ leases[Req(w).client].status # "none" /\ leases[Req(w).client].request = Req(w)
  /\ IssueGoto(w, IF Source = "openrouter" THEN "reconcile" ELSE "create", 0)
  /\ IssueFrame /\ UNCHANGED <<handler, leases, keys, held>>

IssueResumed_Pending(w) ==
  /\ Issuing(w, "start")
  /\ LET row == leases[Req(w).client] IN
       row.status = "provisioning" /\ row.key = 0 /\ row.request = Req(w)
  /\ IssueReturn(w)
  /\ IssueFrame /\ UNCHANGED <<leases, keys, held>>

\* An interrupted attempt: with OpenRouter its keys are deleted first, with
\* the OA org the same one-show key is asked for again.
IssueResumed(w) ==
  /\ Issuing(w, "start")
  /\ HasBudget(Req(w))
  /\ LET row == leases[Req(w).client] IN
       row.status = "provisioning" /\ row.key = 0 /\ row.request = Req(w)
  /\ IssueGoto(w, IF Source = "openrouter" THEN "reconcile" ELSE "create", 0)
  /\ IssueFrame /\ UNCHANGED <<handler, leases, keys, held>>

Delete(ks) == keys' = [k \in KeyIds |->
                         IF k \in ks THEN [keys[k] EXCEPT !.status = "off"] ELSE keys[k]]

\* delete_keys_named, then remove_failed_openrouter_lease and a new row
ReconcileDone(w) ==
  /\ Issuing(w, "reconcile")
  /\ Delete(KeysNamed(Req(w).client))
  /\ leases' = [leases EXCEPT ![Req(w).client] = ProvisioningRow(Req(w))]
  /\ IssueGoto(w, "create", 0)
  /\ IssueFrame /\ UNCHANGED <<handler, held>>

\* An error, or the caller hangs up, after some of the keys are gone
ReconcileFails(w) ==
  /\ Issuing(w, "reconcile")
  /\ \E ks \in SUBSET KeysNamed(Req(w).client) : Delete(ks)
  /\ IssueReturn(w)
  /\ IssueFrame /\ UNCHANGED <<leases, held>>

\* The OA org counts from the call, OpenRouter is given the expiry of the row.
RequestedLifetime(c) == IF Source = "oa_org" THEN Ttl ELSE leases[c].expiresIn

\* external: the provider makes a key for the request.
MakeKey(w) ==
  /\ FreeKeys # {}
  /\ IssueGoto(w, "creating", FreshKey)
  /\ keys' = [keys EXCEPT ![FreshKey] =
       [status |-> "live", request |-> Req(w), usage |-> 0,
        expiresIn |-> RequestedLifetime(Req(w).client),
        finalIn |-> RequestedLifetime(Req(w).client) + Grace]]

\* OpenRouterProvisioner::create_key reaches the provider, which makes a key
\* for every call.
OpenRouterCreate(w) == Source = "openrouter" /\ MakeKey(w)

\* OaOrgProvisioner::create_key: the OA org answers a client_request_id it has
\* seen before with the key it made then.
OaOrgCreate(w) ==
  /\ Source = "oa_org"
  /\ \/ KeysNamed(Req(w).client) = {} /\ MakeKey(w)
     \/ /\ \E k \in KeysNamed(Req(w).client) : IssueGoto(w, "creating", k)
        /\ UNCHANGED keys

SendCreate(w) ==
  /\ Issuing(w, "create")
  /\ OpenRouterCreate(w) \/ OaOrgCreate(w)
  /\ IssueFrame /\ UNCHANGED <<handler, leases, held>>

\* remove_failed_openrouter_lease
WithoutFailedLease(c) ==
  IF leases[c].status = "provisioning" /\ leases[c].key = 0
    THEN [leases EXCEPT ![c] = NoLease] ELSE leases

(***************************************************************************)
(* create_key fails or answers with evidence the server refuses.  With     *)
(* OpenRouter the lease row is removed; with the OA org it stays.  Whether *)
(* the provider made the key is not known, except that OpenRouter's        *)
(* create_key tries to delete one whose limit or expiry is not as asked.   *)
(***************************************************************************)
CreateFails(w) ==
  /\ Issuing(w, "create") \/ (Issuing(w, "creating") /\ (Source = "openrouter" => CanLoseKey))
  /\ leases' = IF Source = "openrouter" THEN WithoutFailedLease(Req(w).client) ELSE leases
  /\ \/ Source = "openrouter" /\ Issuing(w, "creating") /\ Delete({issue[w].key})
     \/ UNCHANGED keys
  /\ IssueReturn(w)
  /\ IssueFrame /\ UNCHANGED held

\* The caller hangs up while the server awaits the provider: the handler's
\* future is dropped and nothing is cleaned up.
IssueHangup(w) ==
  /\ Issuing(w, "create") \/ (Issuing(w, "creating") /\ (Source = "openrouter" => CanLoseKey))
  /\ IssueReturn(w)
  /\ IssueFrame /\ UNCHANGED <<leases, keys, held>>

\* oa_org::validate_response, and the safe usable lifetime
KeyAccepted(k) ==
  Source = "oa_org" =>
    /\ keys[k].expiresIn + ExpirySlack >= Ttl
    /\ keys[k].expiresIn > ExpirySafety

UsableFor(k) == IF Source = "oa_org" THEN keys[k].expiresIn - ExpirySafety
                ELSE leases[keys[k].request.client].expiresIn

\* Mutant: due at the expiry.
SettleAfter_NoGrace(k) == UsableFor(k)

\* settle_after
SettleAfter(k) == UsableFor(k) + Grace

\* update_openrouter_lease_timing and activate_openrouter_lease, for a row that
\* is still provisioning
ActivatedLease(c, k) ==
  [leases EXCEPT ![c].status = "active", ![c].key = k,
                 ![c].expiresIn = UsableFor(k), ![c].settleIn = SettleAfter(k)]

\* create_key answers, the lease is activated and the plaintext key leaves for
\* the client.
IssueDone(w) ==
  LET k == issue[w].key
      c == Req(w).client
  IN
    /\ Issuing(w, "creating")
    /\ KeyAccepted(k)
    /\ leases[c].status = "provisioning"      \* LockHoldersSucceed: always
    /\ leases' = ActivatedLease(c, k)
    /\ held' \in {held, held \cup {k}}
    /\ IssueReturn(w)
    /\ IssueFrame /\ UNCHANGED keys

-----------------------------------------------------------------------------
(* Settlement *)

SettleFrame == UNCHANGED <<root, now, handler, crashes, upstream, replies, cleared, held, issue>>

Job(by, c, todo) == [NoSettlement EXCEPT !.by = by, !.client = c, !.todo = todo]

\* A scan works through its rows.  They come in the order of settle_after,
\* which the seconds left no longer show once they are all 0: any order.
Jobs(due) == IF due = {} THEN {NoSettlement} ELSE {Job("sweep", c, due \ {c}) : c \in due}

\* The current lease is done with, for better or worse: a retirement answers
\* its caller, a scan records the error and goes on with the next row.
SettlementReleased == settlement' \in Jobs(settlement.todo)

DueLeases == {c \in ClientIds : leases[c].status = "active" /\ leases[c].settleIn = 0}

\* settle_due_openrouter_leases
SweepStarts ==
  /\ settlement.by = "nobody"
  /\ DueLeases # {}
  /\ settlement' \in Jobs(DueLeases)
  /\ SettleFrame /\ UNCHANGED <<nullifiers, nextState, leases, keys, early>>

\* retire_openrouter_lease, by a caller who presents the issued request.  Any
\* other request, and a lease that is not active, is answered at once.
RetireStarts(c) ==
  /\ settlement.by = "nobody"
  /\ leases[c].status = "active"
  /\ settlement' = Job("retire", c, {})
  /\ SettleFrame /\ UNCHANGED <<nullifiers, nextState, leases, keys, early>>

Settling(pc) == settlement.by # "nobody" /\ settlement.pc = pc
Lease == leases[settlement.client]

\* finalize_openrouter_lease
FinalizedLease(c, charge) ==
  [leases EXCEPT ![c].status = "finalized", ![c].charge = charge]

\* Mutants: a stored transcript is an error, or its charge is not read back.
SettleRecovered_Fails ==
  /\ Settling("start")
  /\ nullifiers[Lease.request.nullifier].status = "Finalized"
  /\ SettlementReleased
  /\ SettleFrame /\ UNCHANGED <<nullifiers, nextState, leases, keys, early>>

SettleRecovered_ChargeLost ==
  /\ Settling("start")
  /\ nullifiers[Lease.request.nullifier].status = "Finalized"
  /\ leases' = FinalizedLease(settlement.client, settlement.charge)
  /\ SettlementReleased
  /\ SettleFrame /\ UNCHANGED <<nullifiers, nextState, keys, early>>

\* The transcript was stored before a crash: only the lease row is missing.
SettleRecovered ==
  /\ Settling("start")
  /\ nullifiers[Lease.request.nullifier].status = "Finalized"
  /\ leases' = FinalizedLease(settlement.client, nullifiers[Lease.request.nullifier].charge)
  /\ SettlementReleased
  /\ SettleFrame /\ UNCHANGED <<nullifiers, nextState, keys, early>>

SettleReads ==
  /\ Settling("start")
  /\ nullifiers[Lease.request.nullifier].status # "Finalized"
  /\ settlement' = [settlement EXCEPT !.pc = "usage"]
  /\ SettleFrame /\ UNCHANGED <<nullifiers, nextState, leases, keys, early>>

\* The usage request makes an OA station disable the key; a receipt exists
\* only for a disabled key.
StationDisables ==
  /\ Settling("usage") /\ Source = "oa_org"
  /\ keys[Lease.key].status = "live"
  /\ Delete({Lease.key})
  /\ SettleFrame /\ UNCHANGED <<nullifiers, nextState, leases, settlement, early>>

\* The aggregate OpenRouter reports lags behind by up to the grace.
OpenRouterUsage(k) ==
  IF Grace = 0 \/ keys[k].finalIn = 0 THEN {keys[k].usage} ELSE 0..keys[k].usage

\* Mutant: a receipt for a live key is accepted.
ReceiptFinal_Unchecked(k) == TRUE

\* validate_usage_response: the receipt is for a disabled key.
ReceiptFinal(k) == keys[k].status = "off"

\* OaOrgProvisioner::get_key_usage; a receipt above the limit is an error.
OaOrgUsage(k) == {u \in {keys[k].usage} : ReceiptFinal(k) /\ u <= keys[k].request.bound}

UsageAnswers ==
  /\ Settling("usage")
  /\ \E u \in IF Source = "openrouter" THEN OpenRouterUsage(Lease.key)
                                         ELSE OaOrgUsage(Lease.key) :
       settlement' = [settlement EXCEPT !.pc = "finalize",
                        !.charge = Smaller(u, Lease.request.bound)]
  /\ early' = IF Lease.settleIn > 0 THEN early \cup {settlement.client} ELSE early
  /\ SettleFrame /\ UNCHANGED <<nullifiers, nextState, leases, keys>>

\* The provider fails, the receipt is still pending, or the caller of a
\* retirement hangs up.
UsageFails ==
  /\ Settling("usage")
  /\ SettlementReleased
  /\ SettleFrame /\ UNCHANGED <<nullifiers, nextState, leases, keys, early>>

SettleFinalizes ==
  /\ Settling("finalize")
  /\ FinalizeStored(Lease.request, settlement.charge, FALSE)
  /\ settlement' = [settlement EXCEPT !.pc = "lease_row"]
  /\ SettleFrame /\ UNCHANGED <<leases, keys, early>>

SettleLeaseRow ==
  /\ Settling("lease_row")
  /\ leases' = FinalizedLease(settlement.client, settlement.charge)
  /\ IF Source = "openrouter" THEN settlement' = [settlement EXCEPT !.pc = "delete"]
                               ELSE SettlementReleased
  /\ SettleFrame /\ UNCHANGED <<nullifiers, nextState, keys, early>>

\* delete_key is best effort: its failure is only logged.
SettleDeletes ==
  /\ Settling("delete")
  /\ Delete({Lease.key}) \/ UNCHANGED keys
  /\ SettlementReleased
  /\ SettleFrame /\ UNCHANGED <<nullifiers, nextState, leases, early>>

-----------------------------------------------------------------------------
(* Environment *)

LessOne(t) == IF t > 0 THEN t - 1 ELSE 0

LeaseTick ==
  /\ now' = IF now < MaxNow THEN now + 1 ELSE now
  /\ leases' = [c \in ClientIds |-> [leases[c] EXCEPT !.expiresIn = LessOne(@),
                                                      !.settleIn = LessOne(@)]]
  /\ keys' = [k \in KeyIds |-> [keys[k] EXCEPT !.expiresIn = LessOne(@), !.finalIn = LessOne(@)]]
  /\ UNCHANGED <<nullifiers, root, handler, nextState, crashes, upstream, replies, cleared,
                 held, issue, settlement, early>>

LeaseCrash ==
  /\ CrashRestart
  /\ issue' = [w \in Workers |-> NotIssuing]
  /\ settlement' = NoSettlement
  /\ UNCHANGED <<leases, keys, held, early>>

-----------------------------------------------------------------------------
IssueHandler(w) ==
  IssueRefused(w) \/ IssueFresh(w) \/ IssueResumed(w) \/ SendCreate(w)

SettlementStep ==
  SettleRecovered \/ SettleReads \/ SettleFinalizes \/ SettleLeaseRow \/ SettleDeletes

LeaseNext ==
  \/ Serve /\ UNCHANGED leaseVars
  \/ \E w \in Workers :
       \/ \E r \in ApiRequests : PostLease(w, r)
       \/ IssueHandler(w)
       \/ ReconcileDone(w) \/ ReconcileFails(w)
       \/ CreateFails(w) \/ IssueHangup(w) \/ IssueDone(w)
  \/ SweepStarts
  \/ \E c \in ClientIds : RetireStarts(c)
  \/ SettlementStep
  \/ StationDisables \/ UsageAnswers \/ UsageFails
  \/ \E k \in KeyIds : UseKey(k)
  \/ LeaseTick
  \/ LeaseCrash

LeaseSpec == LeaseInit /\ [][LeaseNext]_allVars

(***************************************************************************)
(* Fairness.  Handlers and the settler run when they can; time passes; a   *)
(* client whose lease is unresolved repeats its exact request; a provider  *)
(* that is asked again and again answers in the end.                       *)
(***************************************************************************)
LeaseFairness ==
  /\ \A w \in Workers :
       /\ WF_allVars(HandlerStep(w) /\ UNCHANGED leaseVars)
       /\ WF_allVars(ProviderFails(w) /\ UNCHANGED leaseVars)
       /\ WF_allVars(IssueHandler(w))
       /\ WF_allVars(ReconcileFails(w) \/ CreateFails(w))
       /\ SF_allVars(ReconcileDone(w))
       /\ SF_allVars(SendCreate(w))
       /\ SF_allVars(IssueDone(w))
  /\ \A r \in ApiRequests : SF_allVars(\E w \in Workers : PostLease(w, r))
  /\ WF_allVars(SweepStarts)
  /\ WF_allVars(SettlementStep)
  /\ WF_allVars(UsageFails)
  /\ SF_allVars(StationDisables)
  /\ SF_allVars(UsageAnswers)
  /\ WF_allVars(LeaseTick)

LiveLeaseSpec == LeaseSpec /\ LeaseFairness

-----------------------------------------------------------------------------
(* Properties *)

(***************************************************************************)
(* A key whose plaintext a client holds is the key of a lease row that     *)
(* will be settled, and stays usable while that lease is active: no crash, *)
(* hang-up or concurrent retry of issue_openrouter_lease leaves a client   *)
(* with an unaccounted key, or deletes the key it was just given.          *)
(***************************************************************************)
HeldKeyIsAccounted ==
  \A k \in held :
    LET row == leases[keys[k].request.client] IN
      /\ row.key = k
      /\ row.status \in {"active", "finalized"}
      /\ row.status = "active" /\ settlement.by = "nobody" /\ Source = "openrouter"
           => keys[k].status = "live"

(***************************************************************************)
(* A finalized lease and its nullifier tell the same story: the transcript *)
(* is stored for the lease's own request with the same charge, also when a *)
(* crash falls between the two writes and the next scan repairs the row.   *)
(***************************************************************************)
SettledLeaseMatchesTranscript ==
  \A c \in ClientIds :
    leases[c].status = "finalized" =>
      LET row == nullifiers[leases[c].request.nullifier] IN
        /\ row.status = "Finalized" /\ row.kind = "openrouter_lease"
        /\ row.binding = api_request_binding(leases[c].request)
        /\ row.charge = leases[c].charge

(***************************************************************************)
(* What a lease is charged is what its key used, up to the proved bound,   *)
(* when the usage was read after expiry and grace, or by a signed receipt  *)
(* for a disabled OA key.                                                  *)
(***************************************************************************)
SettledUsageIsCharged ==
  \A c \in ClientIds :
    leases[c].status = "finalized" /\ (Source = "oa_org" \/ c \notin early) =>
      leases[c].charge = Smaller(keys[leases[c].key].usage, leases[c].request.bound)

(***************************************************************************)
(* "A different endpoint kind can never claim the reservation": a request  *)
(* is never both forwarded by the proxy and given a provider key, and a    *)
(* cleared nullifier gets neither.                                         *)
(***************************************************************************)
EndpointsExclusive ==
  \A k \in KeyIds :
    keys[k].status # "none" =>
      /\ \A r \in upstream : r.nullifier # keys[k].request.nullifier
      /\ keys[k].request.nullifier \notin cleared

(***************************************************************************)
(* Whoever holds a lease lock finds the rows as it left them: a created    *)
(* key can be activated and a settlement's charge can be stored, so the    *)
(* error paths after the point of no return are never taken.               *)
(***************************************************************************)
LockHoldersSucceed ==
  /\ \A w \in Workers :
       Issuing(w, "create") \/ Issuing(w, "creating") =>
         LET row == leases[Req(w).client] IN
           row.status = "provisioning" /\ row.key = 0 /\ row.request = Req(w)
  /\ Settling("finalize") =>
       /\ CanFinalize(Lease.request.nullifier)
       /\ settlement.charge <= ChargeCap(Lease.request, "openrouter_lease", FALSE)

(***************************************************************************)
(* An active lease is settled in the end, by a retirement or by the scan   *)
(* after its expiry, whatever the provider refuses and the server loses in *)
(* between.                                                                *)
(***************************************************************************)
ActiveLeaseSettles ==
  \A c \in ClientIds : leases[c].status = "active" ~> leases[c].status = "finalized"

(***************************************************************************)
(* A nullifier reserved for a lease of a positive bound is finalized in    *)
(* the end, when its client repeats the exact request: an interrupted      *)
(* issuance can be resumed.                                                *)
(***************************************************************************)
LeaseReservationResolves ==
  \A r \in {q \in ApiRequests : HasBudget(q)} :
    (nullifiers[r.nullifier].status = "Reserved" /\ BoundTo(r.nullifier, r, "openrouter_lease"))
      ~> nullifiers[r.nullifier].status = "Finalized"

-----------------------------------------------------------------------------
(* The inductive invariant: what makes the safety properties above true *)

LeaseBoundTo(r) == BoundTo(r.nullifier, r, "openrouter_lease")
Spent(r) == nullifiers[r.nullifier].status = "Finalized"

\* One handler at most is past the issue lock, and it works on the provisioning
\* row of its own request.  The key it has just been given is that request's, and
\* an OpenRouter key is live for as long as the row says.
IssuerOwnsLease ==
  /\ \A v, w \in Workers :
       handler[v].kind = "openrouter_lease" /\ handler[w].kind = "openrouter_lease" => v = w
  /\ \A w \in Workers :
       /\ handler[w].pc # "issue" => issue[w].pc = "start"
       /\ issue[w].pc = "reconcile" => Source = "openrouter"
       /\ issue[w].pc # "start" =>
            LET row == leases[Req(w).client] IN
              row.status = "provisioning" /\ row.key = 0 /\ row.request = Req(w)
       /\ issue[w].pc = "creating" =>
            LET k == issue[w].key IN
              /\ k \in KeyIds /\ keys[k].status # "none" /\ keys[k].request = Req(w)
              /\ Source = "openrouter" =>
                   /\ keys[k].status = "live"
                   /\ keys[k].expiresIn = leases[Req(w).client].expiresIn
                   /\ keys[k].finalIn <= keys[k].expiresIn + Grace

\* A lease row belongs to the one request that reserved its nullifier for a
\* lease, and names a key made for that request.  Until an OpenRouter lease is
\* settled its key is live, and its usage is final by the time the row is due.
LeasesHaveOwners ==
  \A c \in ClientIds :
    LET row == leases[c] IN
      /\ row.status # "none" =>
           row.request \in ApiRequests /\ row.request.client = c /\ LeaseBoundTo(row.request)
      /\ row.status \in {"active", "finalized"} =>
           row.key \in KeyIds /\ keys[row.key].status # "none" /\ keys[row.key].request = row.request
      /\ row.status = "active" /\ Source = "openrouter" =>
           /\ keys[row.key].status = "live"
           /\ keys[row.key].expiresIn <= row.settleIn /\ keys[row.key].finalIn <= row.settleIn

\* A key is made only for a request whose nullifier is reserved for a lease; the
\* OA org's also stays the key of the lease row.
KeysHaveOwners ==
  \A k \in KeyIds :
    keys[k].status # "none" =>
      /\ keys[k].request \in ApiRequests /\ LeaseBoundTo(keys[k].request)
      /\ Source = "oa_org" =>
           LET row == leases[keys[k].request.client] IN
             row.status # "none" /\ row.request = keys[k].request

\* A key leaves the server when its lease becomes active, and stays its key.
HeldKeysAreLeased ==
  \A k \in held :
    /\ keys[k].status # "none"
    /\ leases[keys[k].request.client].key = k
    /\ leases[keys[k].request.client].status \in {"active", "finalized"}

\* A nullifier reserved for a lease is finalized only by the settlement of its
\* row, and the row takes the charge over.
SpentLeasesAreSettled ==
  /\ \A r \in ApiRequests :
       LeaseBoundTo(r) /\ Spent(r) =>
         leases[r.client].status \in {"active", "finalized"} /\ leases[r.client].request = r
  /\ \A c \in ClientIds :
       leases[c].status = "finalized" =>
         /\ Spent(leases[c].request)
         /\ leases[c].charge = nullifiers[leases[c].request.nullifier].charge

\* The usage of the key can not change any more.
Frozen(k) == keys[k].status = "off" \/ keys[k].expiresIn = 0

\* A charge that is the final usage of the key of c, up to the proved bound.
IsFinalUsage(c, charge) ==
  /\ Frozen(leases[c].key)
  /\ charge = Smaller(keys[leases[c].key].usage, leases[c].request.bound)

\* The settler works through active leases, reads the usage of one that is not
\* spent, and knows what it has written.
SettlerOwnsLease ==
  settlement.by # "nobody" =>
    /\ settlement.client \in ClientIds /\ settlement.client \notin settlement.todo
    /\ \A c \in settlement.todo : leases[c].status = "active"
    /\ settlement.pc # "delete" => Lease.status = "active"
    /\ settlement.pc = "delete" => Lease.status = "finalized" /\ Source = "openrouter"
    /\ settlement.pc \in {"usage", "finalize"} => ~Spent(Lease.request)
    /\ settlement.pc = "finalize" =>
         /\ settlement.charge <= Lease.request.bound
         /\ Source = "oa_org" \/ settlement.client \notin early =>
              IsFinalUsage(settlement.client, settlement.charge)
    /\ settlement.pc = "lease_row" =>
         Spent(Lease.request) /\ settlement.charge = nullifiers[Lease.request.nullifier].charge

\* A transcript that is not based on an early usage read charges the final usage.
TranscriptChargesUsage ==
  \A c \in ClientIds :
    /\ leases[c].status \in {"active", "finalized"} /\ Spent(leases[c].request)
    /\ Source = "oa_org" \/ c \notin early
    => IsFinalUsage(c, nullifiers[leases[c].request.nullifier].charge)

(***************************************************************************)
(* The accounting of the leases at every point of an issuance, a re-issue, *)
(* a scan or a crash: the holders of the two lease locks find what they    *)
(* left, every row, key and transcript has one owner, and what is charged  *)
(* is what the key used.  It is inductive, together with the invariant of  *)
(* the other endpoints.                                                    *)
(***************************************************************************)
LeaseInv ==
  /\ IInv
  /\ LeaseTypeOK
  /\ IssuerOwnsLease
  /\ LeasesHaveOwners
  /\ KeysHaveOwners
  /\ HeldKeysAreLeased
  /\ SpentLeasesAreSettled
  /\ SettlerOwnsLease
  /\ TranscriptChargesUsage

-----------------------------------------------------------------------------
(* Refinement *)

LeaseCharges == Charges \cup UNION {0..r.bound : r \in ApiRequests}

LeasePromise == INSTANCE SpendOnce WITH
  Outcomes <- [charge : LeaseCharges, state : 1..MaxStates],
  ledger <- [n \in Nullifiers |-> FateOf(nullifiers[n].status)],
  outcome <- [n \in Nullifiers |->
                [charge |-> nullifiers[n].charge, state |-> nullifiers[n].state]],
  answered <- {<<x.nullifier, [charge |-> x.charge, state |-> x.state]>> : x \in replies},
  released <- cleared

(***************************************************************************)
(* With leases and proxied requests side by side, settled by the scan or   *)
(* by a retirement, a nullifier is still used up once and has one outcome. *)
(***************************************************************************)
LeasesKeepPromise == LeasePromise!Spec

=============================================================================
