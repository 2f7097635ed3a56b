------------------------ MODULE LeaseProcessorProofs ------------------------
(***************************************************************************)
(* Proofs about LeaseProcessor: LeaseInv is inductive, what it says about  *)
(* keys, charges and the lease locks, and that leases beside proxied       *)
(* requests and clearances still refine SpendOnce.                         *)
(***************************************************************************)
EXTENDS LeaseProcessor, RequestProcessorProofs, WellFoundedInduction

-----------------------------------------------------------------------------
(* The provider *)

\* A set of naturals that is not empty has a least element.
LEMMA LeastNatural ==
  ASSUME NEW T, T \subseteq Nat, T # {}
  PROVE  \E k \in T : \A j \in T : k <= j
<1>1. PICK R : IsWellFoundedOn(R, Nat) /\ \A j, k \in Nat : j < k => <<j, k>> \in R
  <2>1. \A j, k \in Nat : j < k => <<j, k>> \in OpToRel(<, Nat)
    BY DEF OpToRel
  <2> QED BY <2>1, NatLessThanWellFounded, Zenon
<1>2. PICK k \in T : \A j \in T : ~(<<j, k>> \in R)
  <2>1. IsWellFoundedOn(R, Nat) /\ T \subseteq Nat /\ T # {}
    BY <1>1
  <2> QED BY ONLY <2>1, WFMin, Zenon
<1>3. ASSUME NEW j \in T PROVE k <= j
  <2>1. j \in Nat /\ k \in Nat
    OBVIOUS
  <2>2. ~(j < k)
    BY <1>1, <1>2, <2>1, Zenon
  <2> QED BY <2>1, <2>2
<1> QED BY <1>3

\* While the provider can make a key, the one it makes is new.
LEMMA FreshKeyIsFree ==
  ASSUME FreeKeys # {}
  PROVE  FreshKey \in FreeKeys
<1>1. FreeKeys \subseteq Nat
  BY LeaseAssumption DEF FreeKeys, KeyIds
<1>2. \E k \in FreeKeys : \A j \in FreeKeys : k <= j
  BY <1>1, LeastNatural
<1> QED BY <1>2 DEF FreshKey

-----------------------------------------------------------------------------
(* Rows, keys and the settler's job *)

\* The columns of a lease row.
LEMMA RowFields ==
  ASSUME LeaseTypeOK, NEW c \in ClientIds
  PROVE  /\ leases[c].status \in {"none", "provisioning", "active", "finalized"}
         /\ leases[c].request \in ApiRequests \cup {None} /\ leases[c].key \in 0..MaxKeys
         /\ leases[c].expiresIn \in Nat /\ leases[c].expiresIn <= Ttl
         /\ leases[c].settleIn \in Nat /\ leases[c].charge \in Nat
BY LeaseAssumption DEF LeaseTypeOK, LeaseRow

\* The fields of a provider key.
LEMMA KeyFields ==
  ASSUME LeaseTypeOK, NEW k \in KeyIds
  PROVE  /\ keys[k].status \in {"none", "live", "off"}
         /\ keys[k].request \in ApiRequests \cup {None} /\ keys[k].usage \in Nat
         /\ keys[k].expiresIn \in Nat /\ keys[k].expiresIn <= Ttl /\ keys[k].finalIn \in Nat
BY LeaseAssumption DEF LeaseTypeOK, Key

\* Deleting keys takes nothing from them but their life.
LEMMA DeleteEffect ==
  ASSUME LeaseTypeOK, NEW ks, Delete(ks)
  PROVE  /\ keys' \in [KeyIds -> Key]
         /\ \A k \in KeyIds : k \notin ks => keys'[k] = keys[k]
         /\ \A k \in KeyIds : k \in ks =>
              /\ keys'[k].status = "off"
              /\ keys'[k].request = keys[k].request /\ keys'[k].usage = keys[k].usage
              /\ keys'[k].expiresIn = keys[k].expiresIn /\ keys'[k].finalIn = keys[k].finalIn
BY DEF LeaseTypeOK, Delete, Key

\* Writing one lease row.
LEMMA RowWritten ==
  ASSUME LeaseTypeOK, NEW c \in ClientIds, NEW row \in LeaseRow,
         leases' = [leases EXCEPT ![c] = row]
  PROVE  /\ leases' \in [ClientIds -> LeaseRow] /\ leases'[c] = row
         /\ \A d \in ClientIds : d # c => leases'[d] = leases[d]
BY DEF LeaseTypeOK

\* The rows the server writes are lease rows.
LEMMA WrittenRows ==
  /\ NoLease \in LeaseRow
  /\ \A r \in ApiRequests : ProvisioningRow(r) \in LeaseRow
<1>1. 0 \in 0..MaxKeys /\ 0 \in 0..Ttl /\ 0 \in 0..(Ttl + Grace) /\ Ttl \in 0..Ttl
      /\ Ttl + Grace \in 0..(Ttl + Grace)
  BY LeaseAssumption
<1> QED BY <1>1 DEF NoLease, ProvisioningRow, LeaseRow

\* finalize_openrouter_lease writes the status and the charge of one row.
LEMMA FinalizedEffect ==
  ASSUME LeaseTypeOK, NEW c \in ClientIds, NEW charge \in Nat,
         leases' = FinalizedLease(c, charge)
  PROVE  /\ leases' \in [ClientIds -> LeaseRow]
         /\ \A d \in ClientIds : d # c => leases'[d] = leases[d]
         /\ leases'[c].status = "finalized" /\ leases'[c].charge = charge
         /\ leases'[c].request = leases[c].request /\ leases'[c].key = leases[c].key
<1> DEFINE row == [leases[c] EXCEPT !.status = "finalized", !.charge = charge]
<1>1. leases' = [leases EXCEPT ![c] = row]
  BY DEF LeaseTypeOK, FinalizedLease
<1>2. row \in LeaseRow
  BY DEF LeaseTypeOK, LeaseRow
<1>3. /\ row.status = "finalized" /\ row.charge = charge
      /\ row.request = leases[c].request /\ row.key = leases[c].key
  BY DEF LeaseTypeOK, LeaseRow
<1> HIDE DEF row
<1> QED BY <1>1, <1>2, <1>3, RowWritten

\* A settlement that starts, or goes on to the next row of its scan, owns an
\* active lease or nothing.
LEMMA JobIsOwned ==
  ASSUME NEW due \in SUBSET ClientIds, settlement' \in Jobs(due),
         \A c \in due : leases'[c].status = "active"
  PROVE  settlement' \in Settlement /\ SettlerOwnsLease'
<1>1. NoSettlement \in Settlement /\ NoSettlement.by = "nobody"
  BY DEF NoSettlement, Settlement
<1>2. CASE settlement' = NoSettlement
  BY <1>1, <1>2 DEF SettlerOwnsLease
<1>3. CASE \E c \in due : settlement' = Job("sweep", c, due \ {c})
  <2>1. PICK c \in due : settlement' = Job("sweep", c, due \ {c})
    BY <1>3
  <2>2. settlement' \in Settlement
    BY <2>1 DEF Job, NoSettlement, Settlement
  <2>3. settlement'.pc = "start" /\ settlement'.client = c /\ settlement'.todo = due \ {c}
    BY <2>1 DEF Job, NoSettlement
  <2> QED BY <2>2, <2>3 DEF SettlerOwnsLease, Lease
<1> QED BY <1>2, <1>3 DEF Jobs

-----------------------------------------------------------------------------
(* What keeps the parts of LeaseInv *)

\* The rows of the nullifier table that belong to a lease, or are finalized
\* for one, do not change.
LeaseRowsKept ==
  \A n \in Nullifiers :
    \/ nullifiers[n].kind = "openrouter_lease" /\ nullifiers[n].status \in {"Reserved", "Finalized"}
    \/ nullifiers'[n].kind = "openrouter_lease" /\ nullifiers'[n].status = "Finalized"
    => nullifiers'[n] = nullifiers[n]

\* All of LeaseInv but the issuer's part, which also depends on the handlers.
LeaseAccounts ==
  /\ LeasesHaveOwners /\ KeysHaveOwners /\ HeldKeysAreLeased
  /\ SpentLeasesAreSettled /\ SettlerOwnsLease /\ TranscriptChargesUsage

\* A step of the other endpoints, or of a handler, leaves the accounts alone.
LEMMA AccountsKept ==
  ASSUME IInv, LeaseTypeOK, LeaseAccounts, LeaseRowsKept,
         UNCHANGED <<leases, keys, held, settlement, early>>
  PROVE  LeaseAccounts'
<1>1. ASSUME NEW r \in ApiRequests, LeaseBoundTo(r)
      PROVE  LeaseBoundTo(r)' /\ nullifiers'[r.nullifier] = nullifiers[r.nullifier]
  BY <1>1, RequestFields DEF LeaseBoundTo, BoundTo, LeaseRowsKept
<1>2. ASSUME NEW r \in ApiRequests, LeaseBoundTo(r)', Spent(r)'
      PROVE  LeaseBoundTo(r) /\ Spent(r)
  BY <1>2, RequestFields DEF LeaseBoundTo, BoundTo, LeaseRowsKept, Spent
<1>3. LeasesHaveOwners'
  BY <1>1 DEF LeaseAccounts, LeasesHaveOwners
<1>4. KeysHaveOwners'
  BY <1>1 DEF LeaseAccounts, KeysHaveOwners
<1>5. HeldKeysAreLeased'
  BY DEF LeaseAccounts, HeldKeysAreLeased
<1>6. ASSUME NEW c \in ClientIds, leases[c].status # "none"
      PROVE  nullifiers'[leases[c].request.nullifier] = nullifiers[leases[c].request.nullifier]
  BY <1>1, <1>6 DEF LeaseAccounts, LeasesHaveOwners
<1>7. SpentLeasesAreSettled'
  BY <1>2, <1>6 DEF LeaseAccounts, SpentLeasesAreSettled, Spent
<1>8. SettlerOwnsLease'
  BY <1>6 DEF LeaseAccounts, SettlerOwnsLease, Lease, Spent, IsFinalUsage, Frozen
<1>9. TranscriptChargesUsage'
  BY <1>6 DEF LeaseAccounts, TranscriptChargesUsage, Spent, IsFinalUsage, Frozen
<1> QED BY <1>3, <1>4, <1>5, <1>7, <1>8, <1>9 DEF LeaseAccounts

\* A step of the settler, of the clients or of the provider leaves the issuer
\* alone when it touches no provisioning row and no key of one.
LEMMA IssuerKept ==
  ASSUME LeaseTypeOK, IssuerOwnsLease, UNCHANGED <<handler, issue>>,
         \A c \in ClientIds : leases[c].status = "provisioning" => leases'[c] = leases[c],
         \A k \in KeyIds :
           \/ keys'[k].status = keys[k].status
           \/ /\ keys[k].request \in ApiRequests
              /\ leases[keys[k].request.client].status # "provisioning",
         \A k \in KeyIds :
           /\ keys'[k].request = keys[k].request
           /\ keys'[k].expiresIn = keys[k].expiresIn /\ keys'[k].finalIn = keys[k].finalIn,
         \A w \in Workers : issue[w].pc # "start" => Req(w).client \in ClientIds
  PROVE  IssuerOwnsLease'
<1>1. ASSUME NEW w \in Workers, issue[w].pc = "creating"
      PROVE  keys'[issue[w].key].status = keys[issue[w].key].status
  BY <1>1 DEF IssuerOwnsLease, Req
<1> QED BY <1>1 DEF IssuerOwnsLease, Req

-----------------------------------------------------------------------------
(* The other endpoints *)

\* The proxy, clearance and recovery endpoints write no row of a lease: the
\* INSERTs need an absent row, and a proxy handler finalizes a proxy row.
LEMMA ServeKeepsLeaseRows ==
  ASSUME IInv, Serve
  PROVE  LeaseRowsKept
<1>1. CASE UNCHANGED nullifiers
  BY <1>1 DEF LeaseRowsKept
<1>2. ASSUME NEW w \in Workers, validate_and_reserve_insert(w) PROVE LeaseRowsKept
  <2>1. Req(w) \in ApiRequests /\ handler[w].kind \in ReservationKind
    BY <1>2, HandlerKind DEF IInv, HandlersWellFormed, Req, validate_and_reserve_insert
  <2>2. CASE CanInsert(Req(w).nullifier) /\ reserve_with_kind(Req(w), handler[w].kind)
    <3>1. /\ \A m \in Nullifiers : m # Req(w).nullifier => nullifiers'[m] = nullifiers[m]
          /\ nullifiers'[Req(w).nullifier] = ReservedRow(Req(w), handler[w].kind)
      BY <2>1, <2>2, ReserveEffect DEF IInv, TypeOK
    <3> QED BY <2>2, <3>1 DEF LeaseRowsKept, ReservedRow, CanInsert, HasRow
  <2> QED BY <1>1, <1>2, <2>2 DEF validate_and_reserve_insert
<1>3. ASSUME NEW w \in Workers, process_clearance_insert(w) PROVE LeaseRowsKept
  <2>1. handler[w].clearing \in Nullifiers
    BY <1>3 DEF IInv, HandlersWellFormed, process_clearance_insert
  <2>2. CASE CanInsert(handler[w].clearing) /\ reserve_clearance(handler[w].clearing)
    <3>1. /\ \A m \in Nullifiers : m # handler[w].clearing => nullifiers'[m] = nullifiers[m]
          /\ nullifiers'[handler[w].clearing].status = "ClearanceReserved"
      BY <2>1, <2>2, ClearanceEffect DEF IInv, TypeOK
    <3> QED BY <2>2, <3>1 DEF LeaseRowsKept, CanInsert, HasRow
  <2> QED BY <1>1, <1>3, <2>2 DEF process_clearance_insert
<1>4. ASSUME NEW w \in Workers, finalize_request(w) PROVE LeaseRowsKept
  <2> DEFINE r == Req(w)
             n == r.nullifier
             p == handler[w].response
  <2>1. r \in ApiRequests /\ p \in ProviderResponse /\ BoundTo(n, r, "proxy")
    BY <1>4 DEF IInv, HandlersWellFormed, HandlersOwnRows, Req, finalize_request
  <2>2. CASE FinalizeStored(r, p.charge, p.policy)
    <3>1. n \in Nullifiers /\ p.charge \in Nat
      BY <2>1, RequestFields, CapsAssumption DEF ProviderResponse
    <3>2. nextState + 1 \in Nat /\ finalize(r, p.charge, nextState + 1)
      BY <2>2 DEF FinalizeStored, IInv, TypeOK
    <3>3. /\ nullifiers'[n].kind = nullifiers[n].kind
          /\ \A m \in Nullifiers : m # n => nullifiers'[m] = nullifiers[m]
      BY <2>1, <3>1, <3>2, FinalizeEffect DEF IInv, TypeOK
    <3> QED BY <2>1, <3>3 DEF LeaseRowsKept, BoundTo
  <2> QED BY <1>1, <1>4, <2>2 DEF finalize_request, FinalizeRefused
<1> QED
  BY <1>1, <1>2, <1>3, <1>4
  DEF Serve, HandlerStep, validate_and_reserve_lookup, validate_and_reserve_checks,
      SendUpstream, process_clearance_lookup, PostRequest, ProviderAnswers, ProviderFails,
      PostClearance, recover_by_nullifier, recover_by_client_id, Recover, update_root

\* Neither do they start a lease, or move a handler that is issuing one.
LEMMA ServeKeepsIssuer ==
  ASSUME IInv, Serve
  PROVE  \A v \in Workers :
           /\ handler'[v].kind = "openrouter_lease" => handler[v].kind = "openrouter_lease"
           /\ handler[v].pc = "issue" => handler'[v] = handler[v]
<1>1. handler \in [Workers -> Handler]
  BY DEF IInv, TypeOK
<1> DEFINE Kept == \A v \in Workers :
             /\ handler'[v].kind = "openrouter_lease" => handler[v].kind = "openrouter_lease"
             /\ handler[v].pc = "issue" => handler'[v] = handler[v]
<1>2. CASE UNCHANGED handler
  BY <1>2
<1>3. ASSUME NEW w \in Workers, handler[w].pc # "issue", Return(w) PROVE Kept
  BY <1>1, <1>3, ReturnEffect, IdleHandler
<1>4. ASSUME NEW w \in Workers, handler[w].pc # "issue", NEW pc \in PC, Goto(w, pc) PROVE Kept
  BY <1>1, <1>4, GotoEffect
<1>5. ASSUME NEW w \in Workers, HandlerStep(w) PROVE Kept
  <2>1. AfterReserve(handler[w].kind) \in PC /\ {"checks", "reserve", "await", "clear_reserve"} \subseteq PC
    BY DEF AfterReserve, PC
  <2>2. handler[w].pc # "issue" /\ (Return(w) \/ \E pc \in PC : Goto(w, pc))
    BY <1>5, <2>1
    DEF HandlerStep, validate_and_reserve_lookup, ResumeFinalized, ResumeReserved, RefuseReplay,
        LookupMiss, validate_and_reserve_checks, validate_and_reserve_insert, SendUpstream,
        finalize_request, process_clearance_lookup, process_clearance_insert
  <2> QED BY <1>3, <1>4, <2>2
<1>6. ASSUME NEW w \in Workers, NEW r \in ApiRequests, PostRequest(w, r) PROVE Kept
  BY <1>6, ArriveInv DEF PostRequest, Arrive, ReservationKind
<1>7. ASSUME NEW w \in Workers, NEW c \in Charges, NEW p \in BOOLEAN, ProviderAnswers(w, c, p)
      PROVE  Kept
  BY <1>1, <1>7 DEF ProviderAnswers, Handler
<1>8. ASSUME NEW w \in Workers, ProviderFails(w) PROVE Kept
  BY <1>3, <1>8 DEF ProviderFails
<1>9. ASSUME NEW w \in Workers, NEW n \in Nullifiers, PostClearance(w, n) PROVE Kept
  <2>1. /\ \A v \in Workers : v # w => handler'[v] = handler[v]
        /\ handler'[w].kind = "proxy" /\ handler[w].pc # "issue"
    BY <1>1, <1>9 DEF PostClearance, Idle
  <2> QED BY <2>1
<1> QED
  BY <1>2, <1>5, <1>6, <1>7, <1>8, <1>9
  DEF Serve, recover_by_nullifier, recover_by_client_id, Recover, update_root

\* A step of the other endpoints preserves LeaseInv.
LEMMA ServeLeaseInv ==
  ASSUME LeaseInv, Serve, UNCHANGED leaseVars
  PROVE  LeaseInv'
<1>1. IInv /\ IInv' /\ LeaseTypeOK
  BY ServeInv DEF LeaseInv
<1>2. LeaseAccounts'
  BY <1>1, ServeKeepsLeaseRows, AccountsKept DEF LeaseInv, LeaseAccounts, leaseVars
<1>3. LeaseTypeOK'
  BY <1>1 DEF LeaseTypeOK, leaseVars, IInv
<1>4. IssuerOwnsLease'
  <2>1. \A v \in Workers :
           /\ handler'[v].kind = "openrouter_lease" => handler[v].kind = "openrouter_lease"
           /\ handler[v].pc = "issue" => handler'[v] = handler[v]
    BY <1>1, ServeKeepsIssuer
  <2>2. UNCHANGED <<issue, leases, keys>>
    BY DEF leaseVars
  <2> QED BY <2>1, <2>2 DEF LeaseInv, IssuerOwnsLease, Req
<1> QED BY <1>1, <1>2, <1>3, <1>4 DEF LeaseInv, LeaseAccounts

-----------------------------------------------------------------------------
(* Issuance *)

\* The handler at the issue step serves a request that reserved its nullifier
\* for a lease, and no other handler is there.
LEMMA IssuerFacts ==
  ASSUME LeaseInv, NEW w \in Workers, handler[w].pc = "issue"
  PROVE  /\ Req(w) \in ApiRequests /\ LeaseBoundTo(Req(w)) /\ Req(w).client \in ClientIds
         /\ \A v \in Workers : v # w => handler[v].pc # "issue" /\ issue[v].pc = "start"
<1>1. Req(w) \in ApiRequests /\ handler[w].kind = "openrouter_lease"
  BY DEF LeaseInv, IInv, HandlersWellFormed, Req
<1>2. LeaseBoundTo(Req(w)) /\ Req(w).client \in ClientIds
  BY <1>1, RequestFields DEF LeaseInv, IInv, HandlersOwnRows, LeaseBoundTo, Req
<1>3. \A v \in Workers : v # w => handler[v].pc # "issue"
  BY <1>1 DEF LeaseInv, IInv, HandlersWellFormed, IssuerOwnsLease
<1> QED BY <1>1, <1>2, <1>3 DEF LeaseInv, IssuerOwnsLease

\* The issuing handler answers its caller and releases the lock.
LEMMA IssueReturnKeeps ==
  ASSUME LeaseInv, NEW w \in Workers, handler[w].pc = "issue", IssueReturn(w), IssueFrame
  PROVE  IInv' /\ IssuerOwnsLease' /\ issue' \in [Workers -> IssueStep]
<1>1. IInv'
  BY QuietReturn DEF LeaseInv, IssueReturn, IssueFrame
<1>2. NotIssuing \in IssueStep /\ NotIssuing.pc = "start"
  BY LeaseAssumption DEF NotIssuing, IssueStep
<1>3. /\ issue' \in [Workers -> IssueStep]
      /\ issue'[w].pc = "start" /\ \A v \in Workers : v # w => issue'[v] = issue[v]
  BY <1>2 DEF LeaseInv, LeaseTypeOK, IssueReturn
<1>4. /\ \A v \in Workers : v # w => handler'[v] = handler[v]
      /\ handler'[w].kind = "proxy"
  BY ReturnEffect, IdleHandler DEF LeaseInv, IInv, TypeOK, IssueReturn
<1>5. \A v \in Workers : issue'[v].pc = "start"
  BY <1>3, IssuerFacts
<1> QED BY <1>1, <1>3, <1>4, <1>5 DEF LeaseInv, IssuerOwnsLease

\* The issuing handler goes on, with what its next step asks for.
LEMMA IssueGotoKeeps ==
  ASSUME LeaseInv, NEW w \in Workers, handler[w].pc = "issue",
         NEW pc \in {"reconcile", "create", "creating"}, NEW k \in 0..MaxKeys,
         IssueGoto(w, pc, k), IssueFrame, UNCHANGED handler,
         pc = "reconcile" => Source = "openrouter",
         /\ leases'[Req(w).client].status = "provisioning" /\ leases'[Req(w).client].key = 0
         /\ leases'[Req(w).client].request = Req(w),
         pc = "creating" =>
           /\ k \in KeyIds /\ keys'[k].status # "none" /\ keys'[k].request = Req(w)
           /\ Source = "openrouter" =>
                /\ keys'[k].status = "live"
                /\ keys'[k].expiresIn = leases'[Req(w).client].expiresIn
                /\ keys'[k].finalIn <= keys'[k].expiresIn + Grace
  PROVE  IInv' /\ IssuerOwnsLease' /\ issue' \in [Workers -> IssueStep]
<1>1. IInv'
  BY NextInv DEF LeaseInv, IssueFrame, vars
<1>2. [pc |-> pc, key |-> k] \in IssueStep
  BY DEF IssueStep
<1>3. /\ issue' \in [Workers -> IssueStep]
      /\ issue'[w].pc = pc /\ issue'[w].key = k
      /\ \A v \in Workers : v # w => issue'[v] = issue[v]
  BY <1>2 DEF LeaseInv, LeaseTypeOK, IssueGoto
<1>4. \A v \in Workers : v # w => issue'[v].pc = "start"
  BY <1>3, IssuerFacts
<1>5. Req(w)' = Req(w)
  BY DEF Req
<1> QED BY <1>1, <1>3, <1>4, <1>5 DEF LeaseInv, IssuerOwnsLease

\* Until the lease of a request is active its row and its keys may come and go:
\* no other lease, no held key and no settlement depends on them.
LEMMA ProvisioningAccounts ==
  ASSUME LeaseInv, NEW r \in ApiRequests, LeaseBoundTo(r), NEW c \in ClientIds, c = r.client,
         leases[c].status \in {"none", "provisioning"},
         \A d \in ClientIds : d # c => leases'[d] = leases[d],
         \/ leases'[c] = leases[c]
         \/ leases'[c].status = "none" /\ Source = "openrouter"
         \/ /\ leases'[c].status = "provisioning" /\ leases'[c].request = r
            /\ Source = "oa_org" => leases[c].status = "none",
         \A k \in KeyIds :
           \/ keys'[k] = keys[k]
           \/ /\ keys[k].status = "none" /\ keys'[k].status # "none" /\ keys'[k].request = r
              /\ Source = "oa_org" => leases'[c].status # "none" /\ leases'[c].request = r
           \/ /\ keys[k].status # "none" /\ keys[k].request.client = c
              /\ keys'[k].status # "none" /\ keys'[k].request = keys[k].request,
         UNCHANGED <<nullifiers, held, settlement, early>>
  PROVE  LeaseAccounts'
<1>1. \A d \in ClientIds : leases[d].status \in {"active", "finalized"} => d # c
  OBVIOUS
<1>2. leases'[c].status \in {"none", "provisioning"}
  OBVIOUS
<1>3. ASSUME NEW d \in ClientIds, leases[d].status \in {"active", "finalized"}
      PROVE  leases'[d] = leases[d] /\ leases[d].key \in KeyIds /\ keys'[leases[d].key] = keys[leases[d].key]
  <2>1. /\ leases[d].key \in KeyIds /\ keys[leases[d].key].status # "none"
        /\ keys[leases[d].key].request.client = d /\ d # c
    BY <1>1, <1>3 DEF LeaseInv, LeasesHaveOwners
  <2> QED BY <2>1
<1>4. \A q \in ApiRequests : LeaseBoundTo(q) => LeaseBoundTo(q)'
  BY DEF LeaseBoundTo, BoundTo
<1>5. LeasesHaveOwners'
  BY <1>2, <1>3, <1>4 DEF LeaseInv, LeasesHaveOwners
<1>6. KeysHaveOwners'
  <2>1. \A q \in ApiRequests : q.client \in ClientIds
    BY RequestFields
  <2> QED BY <1>4, <2>1 DEF LeaseInv, KeysHaveOwners
<1>7. HeldKeysAreLeased'
  <2> SUFFICES ASSUME NEW k \in held
               PROVE  /\ keys'[k].status # "none"
                      /\ leases'[keys'[k].request.client].key = k
                      /\ leases'[keys'[k].request.client].status \in {"active", "finalized"}
    BY DEF HeldKeysAreLeased
  <2>1. /\ k \in KeyIds /\ keys[k].status # "none"
        /\ leases[keys[k].request.client].key = k
        /\ leases[keys[k].request.client].status \in {"active", "finalized"}
    BY DEF LeaseInv, LeaseTypeOK, HeldKeysAreLeased
  <2>2. keys[k].request.client \in ClientIds
    BY <2>1, RequestFields DEF LeaseInv, KeysHaveOwners
  <2> QED BY <1>3, <2>1, <2>2
<1>8. SpentLeasesAreSettled'
  <2>1. \A q \in ApiRequests : q.client \in ClientIds
    BY RequestFields
  <2>2. \A q \in ApiRequests : (LeaseBoundTo(q)' <=> LeaseBoundTo(q)) /\ (Spent(q)' <=> Spent(q))
    BY DEF LeaseBoundTo, BoundTo, Spent
  <2>3. \A q \in ApiRequests : LeaseBoundTo(q)' /\ Spent(q)' =>
           leases'[q.client].status \in {"active", "finalized"} /\ leases'[q.client].request = q
    BY <1>3, <2>1, <2>2 DEF LeaseInv, SpentLeasesAreSettled
  <2>4. \A d \in ClientIds : leases'[d].status = "finalized" =>
          /\ nullifiers'[leases'[d].request.nullifier].status = "Finalized"
          /\ leases'[d].charge = nullifiers'[leases'[d].request.nullifier].charge
    BY <1>2, <1>3 DEF LeaseInv, SpentLeasesAreSettled, Spent
  <2> QED BY <2>3, <2>4 DEF SpentLeasesAreSettled, Spent
<1>9. SettlerOwnsLease'
  <2> SUFFICES ASSUME settlement.by # "nobody" PROVE SettlerOwnsLease'
    BY DEF SettlerOwnsLease
  <2> DEFINE s == settlement.client
  <2>2. settlement.todo \subseteq ClientIds
    BY DEF LeaseInv, LeaseTypeOK, Settlement
  <2>3. SettlerOwnsLease
    BY DEF LeaseInv
  <2>4. s \in ClientIds /\ leases[s].status \in {"active", "finalized"}
    BY <2>3 DEF SettlerOwnsLease, Lease
  <2>5. /\ leases'[s] = leases[s] /\ keys'[leases[s].key] = keys[leases[s].key]
        /\ \A d \in settlement.todo : leases'[d].status = leases[d].status
    BY <1>3, <2>2, <2>3, <2>4 DEF SettlerOwnsLease
  <2> QED BY <2>3, <2>5 DEF SettlerOwnsLease, Lease, Spent, IsFinalUsage, Frozen
<1>10. TranscriptChargesUsage'
  BY <1>2, <1>3 DEF LeaseInv, TranscriptChargesUsage, Spent, IsFinalUsage, Frozen
<1> QED BY <1>5, <1>6, <1>7, <1>8, <1>9, <1>10 DEF LeaseAccounts

\* The parts of LeaseInv, put together.
LEMMA LeaseInvParts ==
  ASSUME IInv', leases' \in [ClientIds -> LeaseRow], keys' \in [KeyIds -> Key],
         held' \subseteq KeyIds, issue' \in [Workers -> IssueStep], settlement' \in Settlement,
         early' \subseteq ClientIds, IssuerOwnsLease', LeaseAccounts'
  PROVE  LeaseInv'
BY DEF LeaseInv, LeaseTypeOK, LeaseAccounts, IInv

\* The table is unchanged in every step of an issuance.
LEMMA UnchangedRowsKept == UNCHANGED nullifiers => LeaseRowsKept
BY DEF LeaseRowsKept

\* A lease request arrives while nobody holds the lease_issue_lock.
LEMMA PostLeaseInv ==
  ASSUME LeaseInv, NEW w \in Workers, NEW r \in ApiRequests, PostLease(w, r)
  PROVE  LeaseInv'
<1>1. /\ UNCHANGED leaseVars /\ handler[w].pc = "idle"
      /\ UNCHANGED <<nullifiers, root, now, nextState, crashes, upstream, replies, cleared>>
      /\ Arrive(w, r, "openrouter_lease")
      /\ \A v \in Workers : handler[v].kind # "openrouter_lease"
  BY DEF PostLease, Arrive, IssueLockFree
<1>2. /\ IInv' /\ handler'[w].pc = "lookup"
      /\ \A v \in Workers : v # w => handler'[v] = handler[v]
  <2>1. "openrouter_lease" \in ReservationKind
    BY DEF ReservationKind
  <2> QED BY <1>1, <2>1, ArriveInv DEF LeaseInv
<1>3. \A v \in Workers : issue'[v].pc = "start"
  <2>1. \A v \in Workers : handler[v].pc # "issue"
    BY <1>1 DEF LeaseInv, IInv, HandlersWellFormed
  <2> QED BY <1>1, <2>1 DEF LeaseInv, IssuerOwnsLease, leaseVars
<1>4. IssuerOwnsLease'
  BY <1>1, <1>2, <1>3 DEF IssuerOwnsLease
<1>5. LeaseAccounts'
  BY <1>1, UnchangedRowsKept, AccountsKept DEF LeaseInv, LeaseAccounts, leaseVars
<1> QED BY <1>1, <1>2, <1>4, <1>5, LeaseInvParts DEF LeaseInv, LeaseTypeOK, leaseVars

\* A handler that only answers changes no account.
LEMMA IssueQuitsInv ==
  ASSUME LeaseInv, NEW w \in Workers, handler[w].pc = "issue", IssueReturn(w), IssueFrame,
         UNCHANGED <<leases, keys, held>>
  PROVE  LeaseInv'
<1>1. IInv' /\ IssuerOwnsLease' /\ issue' \in [Workers -> IssueStep]
  BY IssueReturnKeeps
<1>2. LeaseAccounts'
  BY UnchangedRowsKept, AccountsKept DEF LeaseInv, LeaseAccounts, IssueFrame
<1> QED BY <1>1, <1>2, LeaseInvParts DEF LeaseInv, LeaseTypeOK, IssueFrame

\* The first attempt writes a provisioning row.
LEMMA IssueFreshInv ==
  ASSUME LeaseInv, NEW w \in Workers, IssueFresh(w)
  PROVE  LeaseInv'
<1> DEFINE r == Req(w)
           c == r.client
<1>1. /\ handler[w].pc = "issue" /\ leases[c].status = "none" /\ IssueFrame
      /\ leases' = [leases EXCEPT ![c] = ProvisioningRow(r)]
      /\ IssueGoto(w, "create", 0) /\ UNCHANGED <<handler, keys, held>>
  BY DEF IssueFresh, Issuing
<1>2. r \in ApiRequests /\ LeaseBoundTo(r) /\ c \in ClientIds
  BY <1>1, IssuerFacts
<1>3. /\ leases' \in [ClientIds -> LeaseRow]
      /\ leases'[c] = ProvisioningRow(r)
      /\ \A d \in ClientIds : d # c => leases'[d] = leases[d]
  BY <1>1, <1>2, RowWritten, WrittenRows DEF LeaseInv
<1>4. leases'[c].status = "provisioning" /\ leases'[c].key = 0 /\ leases'[c].request = r
  BY <1>3 DEF ProvisioningRow
<1>5. IInv' /\ IssuerOwnsLease' /\ issue' \in [Workers -> IssueStep]
  <2>1. 0 \in 0..MaxKeys
    BY LeaseAssumption
  <2> QED BY <1>1, <1>4, <2>1, IssueGotoKeeps
<1>6. UNCHANGED <<nullifiers, held, settlement, early, keys>>
  BY <1>1 DEF IssueFrame
<1>7. LeaseAccounts'
  <2> HIDE DEF r
  <2> QED BY <1>1, <1>2, <1>3, <1>4, <1>6, ProvisioningAccounts
<1> QED BY <1>3, <1>5, <1>6, <1>7, LeaseInvParts DEF LeaseInv, LeaseTypeOK

\* A retry of an interrupted attempt takes its row up again.
LEMMA IssueResumedInv ==
  ASSUME LeaseInv, NEW w \in Workers, IssueResumed(w)
  PROVE  LeaseInv'
<1> DEFINE next == IF Source = "openrouter" THEN "reconcile" ELSE "create"
<1>1. /\ handler[w].pc = "issue" /\ IssueFrame
      /\ leases[Req(w).client].status = "provisioning" /\ leases[Req(w).client].key = 0
      /\ leases[Req(w).client].request = Req(w)
      /\ IssueGoto(w, next, 0) /\ UNCHANGED <<handler, leases, keys, held>>
  BY DEF IssueResumed, Issuing
<1>2. 0 \in 0..MaxKeys
  BY LeaseAssumption
<1>3. next \in {"reconcile", "create", "creating"} /\ next # "creating"
      /\ (next = "reconcile" => Source = "openrouter")
  OBVIOUS
<1>4. IInv' /\ IssuerOwnsLease' /\ issue' \in [Workers -> IssueStep]
  <2> HIDE DEF next
  <2> QED BY <1>1, <1>2, <1>3, IssueGotoKeeps
<1>5. LeaseAccounts'
  BY <1>1, UnchangedRowsKept, AccountsKept DEF LeaseInv, LeaseAccounts, IssueFrame
<1> QED BY <1>1, <1>4, <1>5, LeaseInvParts DEF LeaseInv, LeaseTypeOK, IssueFrame

\* The keys of an interrupted attempt are those of its own row.
LEMMA DeleteAttempt ==
  ASSUME LeaseInv, NEW c \in ClientIds, NEW ks \in SUBSET KeysNamed(c), Delete(ks)
  PROVE  /\ keys' \in [KeyIds -> Key]
         /\ \A k \in KeyIds :
              \/ keys'[k] = keys[k]
              \/ /\ keys[k].status # "none" /\ keys[k].request.client = c
                 /\ keys'[k].status # "none" /\ keys'[k].request = keys[k].request
BY DeleteEffect DEF LeaseInv, KeysNamed

\* The keys of an interrupted attempt are deleted and the row is written anew.
LEMMA ReconcileDoneInv ==
  ASSUME LeaseInv, NEW w \in Workers, ReconcileDone(w)
  PROVE  LeaseInv'
<1> DEFINE r == Req(w)
           c == r.client
<1>1. /\ handler[w].pc = "issue" /\ issue[w].pc = "reconcile" /\ IssueFrame
      /\ Delete(KeysNamed(c))
      /\ leases' = [leases EXCEPT ![c] = ProvisioningRow(r)]
      /\ IssueGoto(w, "create", 0) /\ UNCHANGED <<handler, held>>
  BY DEF ReconcileDone, Issuing
<1>2. r \in ApiRequests /\ LeaseBoundTo(r) /\ c \in ClientIds
  BY <1>1, IssuerFacts
<1>3. leases[c].status = "provisioning" /\ Source = "openrouter"
  BY <1>1 DEF LeaseInv, IssuerOwnsLease
<1>4. /\ leases' \in [ClientIds -> LeaseRow]
      /\ leases'[c] = ProvisioningRow(r)
      /\ \A d \in ClientIds : d # c => leases'[d] = leases[d]
  BY <1>1, <1>2, RowWritten, WrittenRows DEF LeaseInv
<1>5. leases'[c].status = "provisioning" /\ leases'[c].key = 0 /\ leases'[c].request = r
  BY <1>4 DEF ProvisioningRow
<1>6. IInv' /\ IssuerOwnsLease' /\ issue' \in [Workers -> IssueStep]
  <2>1. 0 \in 0..MaxKeys
    BY LeaseAssumption
  <2> QED BY <1>1, <1>5, <2>1, IssueGotoKeeps
<1>7. /\ keys' \in [KeyIds -> Key]
      /\ \A k \in KeyIds :
           \/ keys'[k] = keys[k]
           \/ /\ keys[k].status # "none" /\ keys[k].request.client = c
              /\ keys'[k].status # "none" /\ keys'[k].request = keys[k].request
  <2> HIDE DEF r
  <2> QED BY <1>1, <1>2, DeleteAttempt
<1>8. UNCHANGED <<nullifiers, held, settlement, early>>
  BY <1>1 DEF IssueFrame
<1>9. LeaseAccounts'
  <2> HIDE DEF r
  <2>1. Source # "oa_org"
    BY <1>3
  <2> QED BY <1>2, <1>3, <1>4, <1>5, <1>7, <1>8, <2>1, ProvisioningAccounts
<1> QED BY <1>4, <1>6, <1>7, <1>8, <1>9, LeaseInvParts DEF LeaseInv, LeaseTypeOK

\* A failed or abandoned reconciliation has deleted some of those keys.
LEMMA ReconcileFailsInv ==
  ASSUME LeaseInv, NEW w \in Workers, ReconcileFails(w)
  PROVE  LeaseInv'
<1> DEFINE r == Req(w)
           c == r.client
<1>1. /\ handler[w].pc = "issue" /\ issue[w].pc = "reconcile" /\ IssueFrame
      /\ IssueReturn(w) /\ UNCHANGED <<leases, held>>
  BY DEF ReconcileFails, Issuing
<1>2. r \in ApiRequests /\ LeaseBoundTo(r) /\ c \in ClientIds
  BY <1>1, IssuerFacts
<1>3. leases[c].status = "provisioning"
  BY <1>1 DEF LeaseInv, IssuerOwnsLease
<1>4. /\ keys' \in [KeyIds -> Key]
      /\ \A k \in KeyIds :
           \/ keys'[k] = keys[k]
           \/ /\ keys[k].status # "none" /\ keys[k].request.client = c
              /\ keys'[k].status # "none" /\ keys'[k].request = keys[k].request
  <2>1. PICK ks \in SUBSET KeysNamed(c) : Delete(ks)
    BY DEF ReconcileFails
  <2> HIDE DEF r
  <2> QED BY <1>2, <2>1, DeleteAttempt
<1>5. IInv' /\ IssuerOwnsLease' /\ issue' \in [Workers -> IssueStep]
  BY <1>1, IssueReturnKeeps
<1>6. UNCHANGED <<nullifiers, held, settlement, early, leases>>
  BY <1>1 DEF IssueFrame
<1>7. LeaseAccounts'
  <2> HIDE DEF r
  <2> QED BY <1>2, <1>3, <1>4, <1>6, ProvisioningAccounts
<1> QED BY <1>4, <1>5, <1>6, <1>7, LeaseInvParts DEF LeaseInv, LeaseTypeOK

\* A key that the provider makes is a new one, for the request of the handler,
\* and lives as long as it was asked for.
LEMMA MakeKeyEffect ==
  ASSUME LeaseInv, NEW w \in Workers, handler[w].pc = "issue", MakeKey(w)
  PROVE  \E f \in KeyIds :
           /\ IssueGoto(w, "creating", f) /\ keys[f].status = "none"
           /\ keys' \in [KeyIds -> Key]
           /\ \A k \in KeyIds : k # f => keys'[k] = keys[k]
           /\ keys'[f].status = "live" /\ keys'[f].request = Req(w)
           /\ keys'[f].expiresIn = RequestedLifetime(Req(w).client)
           /\ keys'[f].finalIn <= keys'[f].expiresIn + Grace
<1>1. PICK f : f = FreshKey
  OBVIOUS
<1>2. PICK t : t = RequestedLifetime(Req(w).client)
  OBVIOUS
<1>3. f \in KeyIds /\ keys[f].status = "none"
  BY <1>1, FreshKeyIsFree DEF MakeKey, FreeKeys
<1>4. t \in 0..Ttl /\ t + Grace \in 0..(Ttl + Grace) /\ t + Grace <= t + Grace
  <2>1. t = Ttl \/ t = leases[Req(w).client].expiresIn
    BY <1>2 DEF RequestedLifetime
  <2>2. Req(w).client \in ClientIds
    BY IssuerFacts
  <2>3. t \in Nat /\ t <= Ttl
    BY <2>1, <2>2, RowFields, LeaseAssumption DEF LeaseInv
  <2> QED BY <2>3, LeaseAssumption
<1> DEFINE new == [status |-> "live", request |-> Req(w), usage |-> 0,
                   expiresIn |-> t, finalIn |-> t + Grace]
<1>5. IssueGoto(w, "creating", f) /\ keys' = [keys EXCEPT ![f] = new]
  BY <1>1, <1>2 DEF MakeKey
<1>6. new \in Key
  BY <1>4, IssuerFacts DEF Key
<1>7. /\ new.status = "live" /\ new.request = Req(w)
      /\ new.expiresIn = t /\ new.finalIn = t + Grace
  OBVIOUS
<1> HIDE DEF new
<1>8. /\ keys' \in [KeyIds -> Key] /\ keys'[f] = new
      /\ \A k \in KeyIds : k # f => keys'[k] = keys[k]
  BY <1>3, <1>5, <1>6 DEF LeaseInv, LeaseTypeOK
<1> QED BY <1>2, <1>3, <1>4, <1>5, <1>7, <1>8

\* create_key reaches the provider: OpenRouter makes a key for the row, the OA org
\* makes one or answers with the one it made for this very request.
LEMMA SendCreateInv ==
  ASSUME LeaseInv, NEW w \in Workers, SendCreate(w)
  PROVE  LeaseInv'
<1> DEFINE r == Req(w)
           c == r.client
<1>1. /\ handler[w].pc = "issue" /\ issue[w].pc = "create" /\ IssueFrame
      /\ UNCHANGED <<handler, leases, held>>
  BY DEF SendCreate, Issuing
<1>2. r \in ApiRequests /\ LeaseBoundTo(r) /\ c \in ClientIds
  BY <1>1, IssuerFacts
<1>3. leases[c].status = "provisioning" /\ leases[c].key = 0 /\ leases[c].request = r
  BY <1>1 DEF LeaseInv, IssuerOwnsLease
<1>4. UNCHANGED <<nullifiers, held, settlement, early, leases>>
  BY <1>1 DEF IssueFrame
<1>5. CASE MakeKey(w)
  <2>1. PICK f \in KeyIds :
           /\ IssueGoto(w, "creating", f) /\ keys[f].status = "none"
           /\ keys' \in [KeyIds -> Key]
           /\ \A k \in KeyIds : k # f => keys'[k] = keys[k]
           /\ keys'[f].status = "live" /\ keys'[f].request = r
           /\ keys'[f].expiresIn = RequestedLifetime(c)
           /\ keys'[f].finalIn <= keys'[f].expiresIn + Grace
    BY <1>1, <1>5, MakeKeyEffect
  <2>2. Source = "openrouter" => keys'[f].expiresIn = leases'[c].expiresIn
    BY <1>1, <2>1 DEF RequestedLifetime
  <2>3. f \in 0..MaxKeys
    BY LeaseAssumption DEF KeyIds
  <2>4. IInv' /\ IssuerOwnsLease' /\ issue' \in [Workers -> IssueStep]
    BY <1>1, <1>3, <2>1, <2>2, <2>3, IssueGotoKeeps
  <2>5. LeaseAccounts'
    <3> HIDE DEF r
    <3> QED BY <1>2, <1>3, <1>4, <2>1, ProvisioningAccounts
  <2> QED BY <1>4, <2>1, <2>4, <2>5, LeaseInvParts DEF LeaseInv, LeaseTypeOK
<1>6. CASE /\ Source = "oa_org" /\ UNCHANGED keys
           /\ \E k \in KeysNamed(c) : IssueGoto(w, "creating", k)
  <2>1. PICK k \in KeysNamed(c) : IssueGoto(w, "creating", k)
    BY <1>6
  <2>2. k \in KeyIds /\ keys[k].status # "none" /\ keys[k].request.client = c
    BY DEF KeysNamed
  <2>3. keys[k].request = r
    BY <1>3, <1>6, <2>2 DEF LeaseInv, KeysHaveOwners
  <2>4. k \in 0..MaxKeys
    BY <2>2, LeaseAssumption DEF KeyIds
  <2>5. IInv' /\ IssuerOwnsLease' /\ issue' \in [Workers -> IssueStep]
    BY <1>1, <1>3, <1>6, <2>1, <2>2, <2>3, <2>4, IssueGotoKeeps
  <2>6. LeaseAccounts'
    BY <1>4, <1>6, UnchangedRowsKept, AccountsKept DEF LeaseInv, LeaseAccounts
  <2> QED BY <1>4, <1>6, <2>5, <2>6, LeaseInvParts DEF LeaseInv, LeaseTypeOK
<1> QED BY <1>5, <1>6 DEF SendCreate, OpenRouterCreate, OaOrgCreate

\* create_key fails: with OpenRouter the row goes and the key may go with it.
LEMMA CreateFailsInv ==
  ASSUME LeaseInv, NEW w \in Workers, CreateFails(w)
  PROVE  LeaseInv'
<1> DEFINE r == Req(w)
           c == r.client
<1>1. /\ handler[w].pc = "issue" /\ issue[w].pc # "start" /\ IssueFrame
      /\ IssueReturn(w) /\ UNCHANGED held
      /\ leases' = IF Source = "openrouter" THEN WithoutFailedLease(c) ELSE leases
  BY DEF CreateFails, Issuing
<1>2. r \in ApiRequests /\ LeaseBoundTo(r) /\ c \in ClientIds
  BY <1>1, IssuerFacts
<1>3. leases[c].status = "provisioning"
  BY <1>1 DEF LeaseInv, IssuerOwnsLease
<1>4. /\ leases' \in [ClientIds -> LeaseRow]
      /\ \A d \in ClientIds : d # c => leases'[d] = leases[d]
      /\ leases'[c] = leases[c] \/ (leases'[c].status = "none" /\ Source = "openrouter")
  <2>1. CASE leases' = leases
    BY <2>1 DEF LeaseInv, LeaseTypeOK
  <2>2. CASE leases' = [leases EXCEPT ![c] = NoLease] /\ Source = "openrouter"
    BY <1>2, <2>2, RowWritten, WrittenRows DEF LeaseInv, NoLease
  <2> QED BY <1>1, <2>1, <2>2 DEF WithoutFailedLease
<1>5. /\ keys' \in [KeyIds -> Key]
      /\ \A k \in KeyIds :
           \/ keys'[k] = keys[k]
           \/ /\ keys[k].status # "none" /\ keys[k].request.client = c
              /\ keys'[k].status # "none" /\ keys'[k].request = keys[k].request
  <2>1. CASE UNCHANGED keys
    BY <2>1 DEF LeaseInv, LeaseTypeOK
  <2>2. CASE Issuing(w, "creating") /\ Delete({issue[w].key})
    <3>1. keys[issue[w].key].status # "none" /\ keys[issue[w].key].request = r
      BY <2>2 DEF LeaseInv, IssuerOwnsLease, Issuing
    <3> QED BY <2>2, <3>1, DeleteEffect DEF LeaseInv
  <2> QED BY <2>1, <2>2 DEF CreateFails
<1>6. IInv' /\ IssuerOwnsLease' /\ issue' \in [Workers -> IssueStep]
  BY <1>1, IssueReturnKeeps
<1>7. UNCHANGED <<nullifiers, held, settlement, early>>
  BY <1>1 DEF IssueFrame
<1>8. LeaseAccounts'
  <2> HIDE DEF r
  <2> QED BY <1>2, <1>3, <1>4, <1>5, <1>7, ProvisioningAccounts
<1> QED BY <1>4, <1>5, <1>6, <1>7, <1>8, LeaseInvParts DEF LeaseInv, LeaseTypeOK

\* Activating a lease gives its row the key, and a deadline by which the usage of
\* an OpenRouter key is final.
LEMMA ActivatedEffect ==
  ASSUME LeaseInv, NEW w \in Workers, IssueDone(w)
  PROVE  LET c == Req(w).client
             k == issue[w].key
         IN  /\ leases' \in [ClientIds -> LeaseRow]
             /\ \A d \in ClientIds : d # c => leases'[d] = leases[d]
             /\ leases'[c].status = "active" /\ leases'[c].key = k
             /\ leases'[c].request = leases[c].request
             /\ Source = "openrouter" =>
                  /\ keys[k].expiresIn <= leases'[c].settleIn
                  /\ keys[k].finalIn <= leases'[c].settleIn
<1>1. PICK c : c = Req(w).client
  OBVIOUS
<1>2. PICK k : k = issue[w].key
  OBVIOUS
<1>3. PICK u : u = UsableFor(k)
  OBVIOUS
<1>4. /\ handler[w].pc = "issue" /\ issue[w].pc = "creating" /\ KeyAccepted(k)
      /\ leases' = ActivatedLease(c, k)
  BY <1>1, <1>2 DEF IssueDone, Issuing
<1>5. c \in ClientIds
  BY <1>1, <1>4, IssuerFacts
<1>6. /\ k \in KeyIds /\ keys[k].request.client = c
      /\ Source = "openrouter" =>
           keys[k].expiresIn = leases[c].expiresIn /\ keys[k].finalIn <= keys[k].expiresIn + Grace
  BY <1>1, <1>2, <1>4 DEF LeaseInv, IssuerOwnsLease
<1>7. /\ keys[k].expiresIn \in Nat /\ keys[k].expiresIn <= Ttl /\ keys[k].finalIn \in Nat
      /\ leases[c].expiresIn \in Nat /\ leases[c].expiresIn <= Ttl
  BY <1>5, <1>6, KeyFields, RowFields DEF LeaseInv
<1>8. u \in Nat /\ u <= Ttl /\ (Source = "openrouter" => u = keys[k].expiresIn)
  <2>1. CASE Source = "oa_org"
    <3>1. u = keys[k].expiresIn - ExpirySafety /\ keys[k].expiresIn > ExpirySafety
      BY <1>3, <1>4, <2>1 DEF UsableFor, KeyAccepted
    <3> QED BY <1>7, <2>1, <3>1, LeaseAssumption
  <2>2. CASE Source # "oa_org"
    <3>1. u = leases[c].expiresIn
      BY <1>3, <1>6, <2>2 DEF UsableFor
    <3> QED BY <1>6, <1>7, <3>1
  <2> QED BY <2>1, <2>2
<1>9. u \in 0..Ttl /\ u + Grace \in 0..(Ttl + Grace) /\ k \in 0..MaxKeys
  BY <1>6, <1>8, LeaseAssumption DEF KeyIds
<1> DEFINE row == [leases[c] EXCEPT !.status = "active", !.key = k, !.expiresIn = u,
                                    !.settleIn = u + Grace]
<1>10. leases' = [leases EXCEPT ![c] = row]
  BY <1>3, <1>4, <1>5 DEF ActivatedLease, SettleAfter, LeaseInv, LeaseTypeOK
<1>11. /\ row \in LeaseRow /\ row.status = "active" /\ row.key = k
       /\ row.request = leases[c].request /\ row.settleIn = u + Grace
  BY <1>5, <1>9 DEF LeaseInv, LeaseTypeOK, LeaseRow
<1> HIDE DEF row
<1>12. /\ leases' \in [ClientIds -> LeaseRow] /\ leases'[c] = row
       /\ \A d \in ClientIds : d # c => leases'[d] = leases[d]
  BY <1>5, <1>10, <1>11, RowWritten DEF LeaseInv
<1>13. Source = "openrouter" => keys[k].expiresIn <= u + Grace /\ keys[k].finalIn <= u + Grace
  BY <1>6, <1>7, <1>8, LeaseAssumption
<1> QED BY <1>1, <1>2, <1>11, <1>12, <1>13

\* The key becomes the key of an active lease, and may reach the client.
LEMMA IssueDoneInv ==
  ASSUME LeaseInv, NEW w \in Workers, IssueDone(w)
  PROVE  LeaseInv'
<1>1. PICK c : c = Req(w).client
  OBVIOUS
<1>2. PICK k : k = issue[w].key
  OBVIOUS
<1>3. /\ handler[w].pc = "issue" /\ issue[w].pc = "creating" /\ IssueFrame
      /\ held' \in {held, held \cup {k}} /\ IssueReturn(w) /\ UNCHANGED keys
  BY <1>2 DEF IssueDone, Issuing
<1>4. Req(w) \in ApiRequests /\ LeaseBoundTo(Req(w)) /\ c \in ClientIds
  BY <1>1, <1>3, IssuerFacts
<1>5. /\ leases[c].status = "provisioning" /\ leases[c].request = Req(w)
      /\ k \in KeyIds /\ keys[k].status # "none" /\ keys[k].request = Req(w)
      /\ Source = "openrouter" => keys[k].status = "live"
  BY <1>1, <1>2, <1>3 DEF LeaseInv, IssuerOwnsLease
<1>6. /\ leases' \in [ClientIds -> LeaseRow]
      /\ \A d \in ClientIds : d # c => leases'[d] = leases[d]
      /\ leases'[c].status = "active" /\ leases'[c].key = k
      /\ leases'[c].request = leases[c].request
      /\ Source = "openrouter" =>
           /\ keys[k].expiresIn <= leases'[c].settleIn
           /\ keys[k].finalIn <= leases'[c].settleIn
  BY <1>1, <1>2, ActivatedEffect
<1>7. IInv' /\ IssuerOwnsLease' /\ issue' \in [Workers -> IssueStep]
  BY <1>3, IssueReturnKeeps
<1>8. UNCHANGED <<nullifiers, keys, settlement, early>>
  BY <1>3 DEF IssueFrame
<1>9. ~Spent(leases[c].request)
  BY <1>1, <1>4, <1>5 DEF LeaseInv, SpentLeasesAreSettled
<1>10. \A q \in ApiRequests : (LeaseBoundTo(q)' <=> LeaseBoundTo(q)) /\ (Spent(q)' <=> Spent(q))
  BY <1>8 DEF LeaseBoundTo, BoundTo, Spent
<1>11. \A q \in ApiRequests : q.client \in ClientIds
  BY RequestFields
<1>12. LeasesHaveOwners'
  BY <1>1, <1>4, <1>5, <1>6, <1>8, <1>10 DEF LeaseInv, LeasesHaveOwners
<1>13. KeysHaveOwners'
  BY <1>4, <1>5, <1>6, <1>8, <1>10, <1>11 DEF LeaseInv, KeysHaveOwners
<1>14. HeldKeysAreLeased'
  <2> SUFFICES ASSUME NEW j \in held'
               PROVE  /\ keys[j].status # "none"
                      /\ leases'[keys[j].request.client].key = j
                      /\ leases'[keys[j].request.client].status \in {"active", "finalized"}
    BY <1>8 DEF HeldKeysAreLeased
  <2>1. CASE j = k
    BY <1>1, <1>5, <1>6, <2>1
  <2>2. CASE j \in held
    <3>1. /\ j \in KeyIds /\ keys[j].status # "none"
          /\ leases[keys[j].request.client].key = j
          /\ leases[keys[j].request.client].status \in {"active", "finalized"}
      BY <2>2 DEF LeaseInv, LeaseTypeOK, HeldKeysAreLeased
    <3>2. keys[j].request.client \in ClientIds
      BY <1>11, <3>1 DEF LeaseInv, KeysHaveOwners
    <3> QED BY <1>5, <1>6, <3>1, <3>2
  <2> QED BY <1>3, <2>1, <2>2
<1>15. SpentLeasesAreSettled'
  <2>1. \A q \in ApiRequests : LeaseBoundTo(q)' /\ Spent(q)' =>
          leases'[q.client].status \in {"active", "finalized"} /\ leases'[q.client].request = q
    BY <1>5, <1>6, <1>10, <1>11 DEF LeaseInv, SpentLeasesAreSettled
  <2>2. \A d \in ClientIds : leases'[d].status = "finalized" =>
          /\ nullifiers'[leases'[d].request.nullifier].status = "Finalized"
          /\ leases'[d].charge = nullifiers'[leases'[d].request.nullifier].charge
    BY <1>6, <1>8 DEF LeaseInv, SpentLeasesAreSettled, Spent
  <2> QED BY <2>1, <2>2 DEF SpentLeasesAreSettled, Spent
<1>16. SettlerOwnsLease'
  <2> SUFFICES ASSUME settlement.by # "nobody" PROVE SettlerOwnsLease'
    BY <1>8 DEF SettlerOwnsLease
  <2> DEFINE s == settlement.client
  <2>1. SettlerOwnsLease /\ settlement.todo \subseteq ClientIds
    BY DEF LeaseInv, LeaseTypeOK, Settlement
  <2>2. s \in ClientIds /\ leases[s].status \in {"active", "finalized"}
    BY <2>1 DEF SettlerOwnsLease, Lease
  <2>3. leases'[s] = leases[s] /\ \A d \in settlement.todo : leases'[d].status = leases[d].status
    BY <1>5, <1>6, <2>1, <2>2 DEF SettlerOwnsLease
  <2> QED BY <1>8, <2>1, <2>3 DEF SettlerOwnsLease, Lease, Spent, IsFinalUsage, Frozen
<1>17. TranscriptChargesUsage'
  BY <1>6, <1>8, <1>9 DEF LeaseInv, TranscriptChargesUsage, Spent, IsFinalUsage, Frozen
<1>18. LeaseAccounts'
  BY <1>12, <1>13, <1>14, <1>15, <1>16, <1>17 DEF LeaseAccounts
<1>19. held' \subseteq KeyIds
  BY <1>3, <1>5 DEF LeaseInv, LeaseTypeOK
<1> QED BY <1>6, <1>7, <1>8, <1>18, <1>19, LeaseInvParts DEF LeaseInv, LeaseTypeOK

-----------------------------------------------------------------------------
(* Settlement *)

\* What the settler works on.
LEMMA SettlerFacts ==
  ASSUME LeaseInv, settlement.by # "nobody"
  PROVE  /\ settlement.client \in ClientIds /\ Lease.status \in {"active", "finalized"}
         /\ settlement.pc # "delete" => Lease.status = "active"
         /\ Lease.request \in ApiRequests /\ Lease.request.client = settlement.client
         /\ LeaseBoundTo(Lease.request) /\ Lease.request.nullifier \in Nullifiers
         /\ Lease.key \in KeyIds /\ keys[Lease.key].status # "none"
         /\ keys[Lease.key].request = Lease.request
         /\ settlement.todo \subseteq ClientIds /\ settlement.client \notin settlement.todo
         /\ \A c \in settlement.todo : leases[c].status = "active"
         /\ settlement \in Settlement
<1>1. /\ settlement.client \in ClientIds /\ Lease.status \in {"active", "finalized"}
      /\ settlement.pc # "delete" => Lease.status = "active"
      /\ settlement.client \notin settlement.todo
      /\ \A c \in settlement.todo : leases[c].status = "active"
  BY DEF LeaseInv, SettlerOwnsLease, Lease
<1>2. settlement \in Settlement /\ settlement.todo \subseteq ClientIds
  BY DEF LeaseInv, LeaseTypeOK, Settlement
<1>3. /\ Lease.request \in ApiRequests /\ Lease.request.client = settlement.client
      /\ LeaseBoundTo(Lease.request)
      /\ Lease.key \in KeyIds /\ keys[Lease.key].status # "none"
      /\ keys[Lease.key].request = Lease.request
  BY <1>1 DEF LeaseInv, LeasesHaveOwners, Lease
<1> QED BY <1>1, <1>2, <1>3, RequestFields

\* A step outside an issuance leaves the issuer alone when it changes no
\* provisioning row and no key of one.
LEMMA IssuerUndisturbed ==
  ASSUME LeaseInv, UNCHANGED <<handler, issue>>,
         \A c \in ClientIds : leases[c].status = "provisioning" => leases'[c] = leases[c],
         \A k \in KeyIds :
           \/ keys'[k].status = keys[k].status
           \/ /\ keys[k].request \in ApiRequests
              /\ leases[keys[k].request.client].status # "provisioning",
         \A k \in KeyIds :
           /\ keys'[k].request = keys[k].request
           /\ keys'[k].expiresIn = keys[k].expiresIn /\ keys'[k].finalIn = keys[k].finalIn
  PROVE  IssuerOwnsLease'
<1>1. \A w \in Workers : issue[w].pc # "start" => Req(w).client \in ClientIds
  BY IssuerFacts DEF LeaseInv, IssuerOwnsLease
<1> QED BY <1>1, IssuerKept DEF LeaseInv

\* A step that changes no row and no key keeps the accounts if the settler's new
\* job is in order; reading a usage early only weakens what they say.
LEMMA RowsUndisturbed ==
  ASSUME LeaseInv, UNCHANGED <<nullifiers, leases, keys, held>>, early \subseteq early',
         SettlerOwnsLease'
  PROVE  LeaseAccounts'
<1>1. \A q : LeaseBoundTo(q)' <=> LeaseBoundTo(q)
  BY DEF LeaseBoundTo, BoundTo
<1>2. LeasesHaveOwners' /\ KeysHaveOwners' /\ HeldKeysAreLeased'
  BY <1>1 DEF LeaseInv, LeasesHaveOwners, KeysHaveOwners, HeldKeysAreLeased
<1>3. SpentLeasesAreSettled' /\ TranscriptChargesUsage'
  BY <1>1
  DEF LeaseInv, SpentLeasesAreSettled, TranscriptChargesUsage, Spent, IsFinalUsage, Frozen
<1> QED BY <1>2, <1>3 DEF LeaseAccounts

\* A step of the settler that changes nothing but its own job.
LEMMA SettlerMoves ==
  ASSUME LeaseInv, SettleFrame, UNCHANGED <<nullifiers, nextState, leases, keys>>,
         early \subseteq early', early' \subseteq ClientIds,
         settlement' \in Settlement, SettlerOwnsLease'
  PROVE  LeaseInv'
<1>1. UNCHANGED vars /\ UNCHANGED <<nullifiers, leases, keys, held, issue, handler>>
  BY DEF SettleFrame, vars
<1>2. IInv'
  BY <1>1, NextInv DEF LeaseInv
<1>3. IssuerOwnsLease'
  BY <1>1, IssuerUndisturbed
<1>4. LeaseAccounts'
  BY <1>1, RowsUndisturbed
<1> QED BY <1>1, <1>2, <1>3, <1>4, LeaseInvParts DEF LeaseInv, LeaseTypeOK

\* A scan or a retirement takes up active leases.
LEMMA SettlementStartsInv ==
  ASSUME LeaseInv, SweepStarts \/ \E c \in ClientIds : RetireStarts(c)
  PROVE  LeaseInv'
<1>1. CASE SweepStarts
  <2>1. /\ settlement' \in Jobs(DueLeases) /\ SettleFrame
        /\ UNCHANGED <<nullifiers, nextState, leases, keys, early>>
    BY <1>1 DEF SweepStarts
  <2>2. DueLeases \in SUBSET ClientIds /\ \A c \in DueLeases : leases'[c].status = "active"
    BY <2>1 DEF DueLeases
  <2> QED BY <2>1, <2>2, JobIsOwned, SettlerMoves DEF LeaseInv, LeaseTypeOK
<1>2. ASSUME NEW c \in ClientIds, RetireStarts(c) PROVE LeaseInv'
  <2>1. /\ settlement' = Job("retire", c, {}) /\ leases'[c].status = "active" /\ SettleFrame
        /\ UNCHANGED <<nullifiers, nextState, leases, keys, early>>
    BY <1>2 DEF RetireStarts
  <2>2. /\ settlement' \in Settlement /\ settlement'.pc = "start" /\ settlement'.client = c
        /\ settlement'.todo = {}
    BY <2>1 DEF Job, NoSettlement, Settlement
  <2>3. SettlerOwnsLease'
    BY <2>1, <2>2 DEF SettlerOwnsLease, Lease
  <2> QED BY <2>1, <2>2, <2>3, SettlerMoves DEF LeaseInv, LeaseTypeOK
<1> QED BY <1>1, <1>2

\* The settler gives a lease up and goes on.
LEMMA UsageFailsInv ==
  ASSUME LeaseInv, UsageFails
  PROVE  LeaseInv'
<1>1. /\ settlement.by # "nobody" /\ settlement' \in Jobs(settlement.todo) /\ SettleFrame
      /\ UNCHANGED <<nullifiers, nextState, leases, keys, early>>
  BY DEF UsageFails, Settling, SettlementReleased
<1>2. settlement' \in Settlement /\ SettlerOwnsLease'
  BY <1>1, SettlerFacts, JobIsOwned
<1> QED BY <1>1, <1>2, SettlerMoves DEF LeaseInv, LeaseTypeOK

\* A lease that is not spent yet is settled by the usage of its key.
LEMMA SettleReadsInv ==
  ASSUME LeaseInv, SettleReads
  PROVE  LeaseInv'
<1>1. /\ settlement.by # "nobody" /\ settlement.pc = "start" /\ ~Spent(Lease.request)
      /\ settlement' = [settlement EXCEPT !.pc = "usage"] /\ SettleFrame
      /\ UNCHANGED <<nullifiers, nextState, leases, keys, early>>
  BY DEF SettleReads, Settling, Spent
<1>2. settlement \in Settlement
  BY <1>1, SettlerFacts
<1>3. /\ settlement' \in Settlement /\ settlement'.pc = "usage"
      /\ settlement'.by = settlement.by /\ settlement'.client = settlement.client
      /\ settlement'.todo = settlement.todo
  BY <1>1, <1>2 DEF Settlement
<1>4. SettlerOwnsLease'
  BY <1>1, <1>3 DEF LeaseInv, SettlerOwnsLease, Lease, Spent
<1> QED BY <1>1, <1>3, <1>4, SettlerMoves DEF LeaseInv, LeaseTypeOK

\* The charge is the usage that was read, up to the bound; it is final unless the
\* usage of an OpenRouter key was read before the row was due.
LEMMA UsageAnswersInv ==
  ASSUME LeaseInv, UsageAnswers
  PROVE  LeaseInv'
<1>1. PICK k : k = Lease.key
  OBVIOUS
<1>2. PICK b : b = Lease.request.bound
  OBVIOUS
<1>3. /\ settlement.by # "nobody" /\ settlement.pc = "usage" /\ SettleFrame
      /\ early' = IF Lease.settleIn > 0 THEN early \cup {settlement.client} ELSE early
      /\ UNCHANGED <<nullifiers, nextState, leases, keys>>
  BY DEF UsageAnswers, Settling
<1>4. PICK u \in IF Source = "openrouter" THEN OpenRouterUsage(k) ELSE OaOrgUsage(k) :
        settlement' = [settlement EXCEPT !.pc = "finalize", !.charge = Smaller(u, b)]
  BY <1>1, <1>2 DEF UsageAnswers
<1>5. /\ settlement.client \in ClientIds /\ k \in KeyIds /\ Lease.request \in ApiRequests
      /\ settlement \in Settlement /\ Lease.status = "active"
  BY <1>1, <1>3, SettlerFacts
<1>6. keys[k].usage \in Nat /\ keys[k].expiresIn \in Nat /\ keys[k].finalIn \in Nat /\ b \in Nat
  BY <1>2, <1>5, KeyFields, RequestFields DEF LeaseInv
<1>7. u \in Nat
  BY <1>4, <1>6 DEF OpenRouterUsage, OaOrgUsage
<1>8. Smaller(u, b) \in Nat /\ Smaller(u, b) <= b
  BY <1>6, <1>7 DEF Smaller
<1>9. /\ settlement' \in Settlement /\ settlement'.pc = "finalize"
      /\ settlement'.charge = Smaller(u, b) /\ settlement'.by = settlement.by
      /\ settlement'.client = settlement.client /\ settlement'.todo = settlement.todo
  <2>1. PICK x \in Nat : x = Smaller(u, b)
    BY <1>8
  <2> QED BY <1>4, <1>5, <2>1 DEF Settlement
<1>10. Source = "oa_org" \/ settlement.client \notin early' => u = keys[k].usage /\ Frozen(k)
  <2>1. CASE Source = "oa_org"
    BY <1>4, <2>1 DEF OaOrgUsage, ReceiptFinal, Frozen
  <2>2. CASE Source = "openrouter" /\ settlement.client \notin early'
    <3>1. Lease.settleIn \in Nat /\ ~(Lease.settleIn > 0)
      BY <1>3, <1>5, <2>2, RowFields DEF LeaseInv, Lease
    <3>2. keys[k].expiresIn <= Lease.settleIn /\ keys[k].finalIn <= Lease.settleIn
      BY <1>1, <1>5, <2>2 DEF LeaseInv, LeasesHaveOwners, Lease
    <3>3. keys[k].expiresIn = 0 /\ keys[k].finalIn = 0
      BY <1>6, <3>1, <3>2
    <3> QED BY <1>4, <2>2, <3>3 DEF OpenRouterUsage, Frozen
  <2> QED BY <2>1, <2>2, LeaseAssumption
<1>11. SettlerOwnsLease'
  <2>1. SettlerOwnsLease
    BY DEF LeaseInv
  <2>2. Lease' = Lease
    BY <1>3, <1>9 DEF Lease
  <2>3. ~Spent(Lease.request) /\ nullifiers' = nullifiers
    BY <1>3, <2>1 DEF SettlerOwnsLease
  <2>4. Source = "oa_org" \/ settlement.client \notin early' =>
          /\ keys[Lease.key].status = "off" \/ keys[Lease.key].expiresIn = 0
          /\ settlement'.charge = Smaller(keys[Lease.key].usage, Lease.request.bound)
    BY <1>1, <1>2, <1>9, <1>10 DEF Frozen
  <2>5. settlement'.charge <= Lease.request.bound
    BY <1>2, <1>8, <1>9
  <2>6. Source = "oa_org" \/ settlement.client \notin early' =>
          IsFinalUsage(settlement.client, settlement.charge)'
    BY <1>3, <1>9, <2>4 DEF IsFinalUsage, Frozen, Lease
  <2> QED BY <1>3, <1>5, <1>9, <2>1, <2>2, <2>3, <2>5, <2>6
      DEF SettlerOwnsLease, Spent, Lease
<1>12. early \subseteq early' /\ early' \subseteq ClientIds
  BY <1>3, <1>5 DEF LeaseInv, LeaseTypeOK
<1> QED BY <1>3, <1>9, <1>11, <1>12, SettlerMoves

\* A spent lease whose row takes the charge of its transcript over is settled.
LEMMA FinalizedAccounts ==
  ASSUME LeaseInv, NEW c \in ClientIds, leases[c].status = "active", Spent(leases[c].request),
         \A d \in ClientIds : d # c => leases'[d] = leases[d],
         leases'[c].status = "finalized",
         leases'[c].charge = nullifiers[leases[c].request.nullifier].charge,
         leases'[c].request = leases[c].request, leases'[c].key = leases[c].key,
         UNCHANGED <<nullifiers, keys, held, early>>, SettlerOwnsLease'
  PROVE  LeaseAccounts'
<1>1. \A q \in ApiRequests : (LeaseBoundTo(q)' <=> LeaseBoundTo(q)) /\ (Spent(q)' <=> Spent(q))
  BY DEF LeaseBoundTo, BoundTo, Spent
<1>2. \A q \in ApiRequests : q.client \in ClientIds
  BY RequestFields
<1>3. \A d \in ClientIds :
        /\ leases'[d].request = leases[d].request /\ leases'[d].key = leases[d].key
        /\ leases'[d].status = "none" <=> leases[d].status = "none"
        /\ leases'[d].status \in {"active", "finalized"} <=>
             leases[d].status \in {"active", "finalized"}
        /\ leases'[d].status = "active" => leases'[d] = leases[d]
        /\ leases'[d].status = "finalized" => d = c \/ leases'[d] = leases[d]
  OBVIOUS
<1>4. LeasesHaveOwners'
  <2> SUFFICES ASSUME NEW d \in ClientIds
               PROVE  LET row == leases'[d] IN
                 /\ row.status # "none" =>
                      /\ row.request \in ApiRequests /\ row.request.client = d
                      /\ LeaseBoundTo(leases[d].request)'
                 /\ row.status \in {"active", "finalized"} =>
                      /\ row.key \in KeyIds /\ keys[row.key].status # "none"
                      /\ keys[row.key].request = row.request
                 /\ row.status = "active" /\ Source = "openrouter" =>
                      /\ keys[row.key].status = "live"
                      /\ keys[row.key].expiresIn <= row.settleIn
                      /\ keys[row.key].finalIn <= row.settleIn
    BY DEF LeasesHaveOwners
  <2>1. leases[d].status # "none" =>
          /\ leases[d].request \in ApiRequests /\ leases[d].request.client = d
          /\ LeaseBoundTo(leases[d].request)
    BY DEF LeaseInv, LeasesHaveOwners
  <2>2. leases[d].status # "none" => LeaseBoundTo(leases[d].request)'
    BY <1>3, <2>1 DEF LeaseBoundTo, BoundTo
  <2> QED BY <1>3, <2>1, <2>2 DEF LeaseInv, LeasesHaveOwners
<1>5. KeysHaveOwners'
  BY <1>1, <1>2, <1>3 DEF LeaseInv, KeysHaveOwners
<1>6. HeldKeysAreLeased'
  <2>1. \A k \in held : k \in KeyIds /\ keys[k].request.client \in ClientIds
    BY <1>2 DEF LeaseInv, LeaseTypeOK, HeldKeysAreLeased, KeysHaveOwners
  <2> QED BY <1>3, <2>1 DEF LeaseInv, HeldKeysAreLeased
<1>7. SpentLeasesAreSettled'
  <2>1. \A q \in ApiRequests : LeaseBoundTo(q)' /\ Spent(q)' =>
          leases'[q.client].status \in {"active", "finalized"} /\ leases'[q.client].request = q
    BY <1>1, <1>2, <1>3 DEF LeaseInv, SpentLeasesAreSettled
  <2>2. \A d \in ClientIds : leases'[d].status = "finalized" =>
          /\ nullifiers[leases[d].request.nullifier].status = "Finalized"
          /\ leases'[d].charge = nullifiers[leases[d].request.nullifier].charge
    BY <1>3 DEF LeaseInv, SpentLeasesAreSettled, Spent
  <2> QED BY <1>3, <2>1, <2>2 DEF SpentLeasesAreSettled, Spent
<1>8. TranscriptChargesUsage'
  BY <1>3 DEF LeaseInv, TranscriptChargesUsage, Spent, IsFinalUsage, Frozen
<1> QED BY <1>4, <1>5, <1>6, <1>7, <1>8 DEF LeaseAccounts

\* A settlement that finds the transcript stored repairs the lease row; one that
\* stored it writes the row.
LEMMA SettleRowInv ==
  ASSUME LeaseInv, SettleRecovered \/ SettleLeaseRow
  PROVE  LeaseInv'
<1>1. PICK c : c = settlement.client
  OBVIOUS
<1>2. PICK charge : charge = nullifiers[Lease.request.nullifier].charge
  OBVIOUS
<1>3. /\ settlement.by # "nobody" /\ settlement.pc # "delete" /\ Spent(Lease.request)
      /\ leases' = FinalizedLease(c, charge) /\ SettleFrame
      /\ UNCHANGED <<nullifiers, nextState, keys, early>>
      /\ \/ settlement' \in Jobs(settlement.todo)
         \/ /\ Source = "openrouter" /\ settlement.pc = "lease_row"
            /\ settlement' = [settlement EXCEPT !.pc = "delete"]
  <2>1. CASE SettleRecovered
    BY <1>1, <1>2, <2>1 DEF SettleRecovered, Settling, Spent, SettlementReleased
  <2>2. CASE SettleLeaseRow
    <3>1. Settling("lease_row")
      BY <2>2 DEF SettleLeaseRow
    <3>2. Spent(Lease.request) /\ settlement.charge = charge
      BY <1>2, <3>1 DEF LeaseInv, SettlerOwnsLease, Settling
    <3> QED BY <1>1, <2>2, <3>1, <3>2 DEF SettleLeaseRow, Settling, SettlementReleased
  <2> QED BY <2>1, <2>2
<1>4. /\ c \in ClientIds /\ leases[c].status = "active" /\ Lease = leases[c]
      /\ Lease.request.nullifier \in Nullifiers
      /\ settlement.todo \subseteq ClientIds /\ c \notin settlement.todo
      /\ \A d \in settlement.todo : leases[d].status = "active"
      /\ settlement \in Settlement
  BY <1>1, <1>3, SettlerFacts DEF Lease
<1>5. charge \in Nat
  BY <1>2, <1>4 DEF LeaseInv, IInv, TypeOK, NullifiersType, TranscriptRecord
<1>6. /\ leases' \in [ClientIds -> LeaseRow]
      /\ \A d \in ClientIds : d # c => leases'[d] = leases[d]
      /\ leases'[c].status = "finalized" /\ leases'[c].charge = charge
      /\ leases'[c].request = leases[c].request /\ leases'[c].key = leases[c].key
  BY <1>3, <1>4, <1>5, FinalizedEffect DEF LeaseInv
<1>7. settlement' \in Settlement /\ SettlerOwnsLease'
  <2>1. CASE settlement' \in Jobs(settlement.todo)
    <3>1. \A d \in settlement.todo : leases'[d].status = "active"
      BY <1>4, <1>6
    <3> QED BY <1>4, <2>1, <3>1, JobIsOwned
  <2>2. CASE Source = "openrouter" /\ settlement' = [settlement EXCEPT !.pc = "delete"]
    <3>1. /\ settlement' \in Settlement /\ settlement'.pc = "delete"
          /\ settlement'.client = c /\ settlement'.todo = settlement.todo
      BY <1>1, <1>4, <2>2 DEF Settlement
    <3>2. \A d \in settlement.todo : leases'[d].status = "active"
      BY <1>4, <1>6
    <3> QED BY <1>4, <1>6, <2>2, <3>1, <3>2 DEF SettlerOwnsLease, Lease
  <2> QED BY <1>3, <2>1, <2>2
<1>8. UNCHANGED vars /\ UNCHANGED <<nullifiers, keys, held, issue, handler, early>>
  BY <1>3 DEF SettleFrame, vars
<1>9. LeaseAccounts'
  BY <1>2, <1>3, <1>4, <1>6, <1>7, <1>8, FinalizedAccounts
<1>10. IInv' /\ IssuerOwnsLease'
  BY <1>4, <1>6, <1>8, NextInv, IssuerUndisturbed DEF LeaseInv
<1> QED BY <1>6, <1>7, <1>8, <1>9, <1>10, LeaseInvParts DEF LeaseInv, LeaseTypeOK

\* Closing the key of an OA lease, or of a settled one, disturbs nobody: a closed
\* key stays closed and what it has used stays used.
LEMMA KeyClosed ==
  ASSUME LeaseInv, NEW c \in ClientIds, leases[c].status \in {"active", "finalized"},
         leases[c].status = "finalized" \/ Source = "oa_org",
         Delete({leases[c].key}) \/ UNCHANGED keys,
         UNCHANGED <<nullifiers, leases, held, early, handler, issue>>
  PROVE  /\ keys' \in [KeyIds -> Key] /\ IssuerOwnsLease'
         /\ LeasesHaveOwners' /\ KeysHaveOwners' /\ HeldKeysAreLeased'
         /\ SpentLeasesAreSettled' /\ TranscriptChargesUsage'
<1>1. PICK j : j = leases[c].key
  OBVIOUS
<1>2. /\ j \in KeyIds /\ keys[j].status # "none" /\ keys[j].request = leases[c].request
      /\ leases[c].request \in ApiRequests /\ leases[c].request.client = c
  BY <1>1 DEF LeaseInv, LeasesHaveOwners
<1>3. /\ keys' \in [KeyIds -> Key]
      /\ \A k \in KeyIds :
           /\ keys'[k].request = keys[k].request /\ keys'[k].usage = keys[k].usage
           /\ keys'[k].expiresIn = keys[k].expiresIn /\ keys'[k].finalIn = keys[k].finalIn
           /\ k # j => keys'[k].status = keys[k].status
      /\ keys'[j].status # "none" /\ (keys[j].status = "off" => keys'[j].status = "off")
  <2>1. CASE Delete({j})
    BY <1>2, <2>1, DeleteEffect DEF LeaseInv
  <2>2. CASE UNCHANGED keys
    BY <1>2, <2>2 DEF LeaseInv, LeaseTypeOK
  <2> QED BY <1>1, <2>1, <2>2
<1>4. IssuerOwnsLease'
  BY <1>2, <1>3, IssuerUndisturbed
<1>5. \A q : LeaseBoundTo(q)' <=> LeaseBoundTo(q)
  BY DEF LeaseBoundTo, BoundTo
<1>6. ASSUME NEW d \in ClientIds, leases[d].status \in {"active", "finalized"}
      PROVE  leases[d].key \in KeyIds /\ (leases[d].key = j => d = c)
  BY <1>2, <1>6 DEF LeaseInv, LeasesHaveOwners
<1>7. LeasesHaveOwners'
  <2> SUFFICES ASSUME NEW d \in ClientIds
               PROVE  LET row == leases[d] IN
                 /\ row.status # "none" =>
                      /\ row.request \in ApiRequests /\ row.request.client = d
                      /\ LeaseBoundTo(row.request)'
                 /\ row.status \in {"active", "finalized"} =>
                      /\ row.key \in KeyIds /\ keys'[row.key].status # "none"
                      /\ keys'[row.key].request = row.request
                 /\ row.status = "active" /\ Source = "openrouter" =>
                      /\ keys'[row.key].status = "live"
                      /\ keys'[row.key].expiresIn <= row.settleIn
                      /\ keys'[row.key].finalIn <= row.settleIn
    BY DEF LeasesHaveOwners
  <2>1. leases[d].status # "none" =>
          /\ leases[d].request \in ApiRequests /\ leases[d].request.client = d
          /\ LeaseBoundTo(leases[d].request)'
    BY DEF LeaseInv, LeasesHaveOwners, LeaseBoundTo, BoundTo
  <2> QED BY <1>3, <1>6, <2>1, LeaseAssumption DEF LeaseInv, LeasesHaveOwners
<1>8. KeysHaveOwners'
  BY <1>2, <1>3, <1>5 DEF LeaseInv, KeysHaveOwners
<1>9. HeldKeysAreLeased'
  <2>1. held \subseteq KeyIds
    BY DEF LeaseInv, LeaseTypeOK
  <2> QED BY <1>3, <2>1 DEF LeaseInv, HeldKeysAreLeased
<1>10. SpentLeasesAreSettled'
  BY <1>5 DEF LeaseInv, SpentLeasesAreSettled, Spent
<1>11. TranscriptChargesUsage'
  BY <1>3, <1>6 DEF LeaseInv, TranscriptChargesUsage, Spent, IsFinalUsage, Frozen
<1> QED BY <1>3, <1>4, <1>7, <1>8, <1>9, <1>10, <1>11

\* The station closes the key whose usage the settler asked for.
LEMMA StationDisablesInv ==
  ASSUME LeaseInv, StationDisables
  PROVE  LeaseInv'
<1>1. /\ settlement.by # "nobody" /\ settlement.pc = "usage" /\ Source = "oa_org"
      /\ Delete({leases[settlement.client].key}) /\ SettleFrame
      /\ UNCHANGED <<nullifiers, nextState, leases, settlement, early>>
  BY DEF StationDisables, Settling, Lease
<1>2. settlement.client \in ClientIds /\ leases[settlement.client].status = "active"
  BY <1>1, SettlerFacts DEF Lease
<1>3. UNCHANGED vars /\ UNCHANGED <<nullifiers, leases, held, early, handler, issue>>
  BY <1>1 DEF SettleFrame, vars
<1>4. /\ keys' \in [KeyIds -> Key] /\ IssuerOwnsLease'
      /\ LeasesHaveOwners' /\ KeysHaveOwners' /\ HeldKeysAreLeased'
      /\ SpentLeasesAreSettled' /\ TranscriptChargesUsage'
  BY <1>1, <1>2, <1>3, KeyClosed
<1>5. SettlerOwnsLease'
  BY <1>1 DEF LeaseInv, SettlerOwnsLease, Lease, Spent
<1>6. IInv' /\ LeaseAccounts'
  BY <1>3, <1>4, <1>5, NextInv DEF LeaseInv, LeaseAccounts
<1> QED BY <1>1, <1>3, <1>4, <1>6, LeaseInvParts DEF LeaseInv, LeaseTypeOK

\* The key of a settled lease is deleted, if the provider is there.
LEMMA SettleDeletesInv ==
  ASSUME LeaseInv, SettleDeletes
  PROVE  LeaseInv'
<1>1. /\ settlement.by # "nobody" /\ settlement.pc = "delete"
      /\ Delete({leases[settlement.client].key}) \/ UNCHANGED keys
      /\ settlement' \in Jobs(settlement.todo) /\ SettleFrame
      /\ UNCHANGED <<nullifiers, nextState, leases, early>>
  BY DEF SettleDeletes, Settling, Lease, SettlementReleased
<1>2. settlement.client \in ClientIds /\ leases[settlement.client].status = "finalized"
  BY <1>1 DEF LeaseInv, SettlerOwnsLease, Lease
<1>3. UNCHANGED vars /\ UNCHANGED <<nullifiers, leases, held, early, handler, issue>>
  BY <1>1 DEF SettleFrame, vars
<1>4. /\ keys' \in [KeyIds -> Key] /\ IssuerOwnsLease'
      /\ LeasesHaveOwners' /\ KeysHaveOwners' /\ HeldKeysAreLeased'
      /\ SpentLeasesAreSettled' /\ TranscriptChargesUsage'
  BY <1>1, <1>2, <1>3, KeyClosed
<1>5. settlement' \in Settlement /\ SettlerOwnsLease'
  BY <1>1, SettlerFacts, JobIsOwned
<1>6. IInv' /\ LeaseAccounts'
  BY <1>3, <1>4, <1>5, NextInv DEF LeaseInv, LeaseAccounts
<1> QED BY <1>3, <1>4, <1>5, <1>6, LeaseInvParts DEF LeaseInv, LeaseTypeOK

\* The settler stores the transcript of the lease it owns.
LEMMA SettleFinalizesInv ==
  ASSUME LeaseInv, SettleFinalizes
  PROVE  LeaseInv'
<1>1. PICK r : r = Lease.request
  OBVIOUS
<1>2. PICK n : n = r.nullifier
  OBVIOUS
<1>3. PICK x : x = settlement.charge
  OBVIOUS
<1>4. /\ settlement.by # "nobody" /\ settlement.pc = "finalize" /\ FinalizeStored(r, x, FALSE)
      /\ settlement' = [settlement EXCEPT !.pc = "lease_row"] /\ SettleFrame
      /\ UNCHANGED <<leases, keys, early>>
  BY <1>1, <1>3 DEF SettleFinalizes, Settling
<1>5. /\ r \in ApiRequests /\ LeaseBoundTo(r) /\ n \in Nullifiers /\ settlement \in Settlement
      /\ settlement.client \in ClientIds /\ r.client = settlement.client
      /\ leases[settlement.client].status = "active" /\ leases[settlement.client].request = r
  BY <1>1, <1>2, <1>4, SettlerFacts DEF Lease
<1>6. x \in Nat
  BY <1>3, <1>5 DEF Settlement
<1>7. nextState + 1 \in Nat /\ nullifiers[n].status = "Reserved" /\ finalize(r, x, nextState + 1)
  BY <1>2, <1>4 DEF LeaseInv, IInv, TypeOK, FinalizeStored, CanFinalize
<1>8. /\ \A m \in Nullifiers : m # n => nullifiers'[m] = nullifiers[m]
      /\ nullifiers'[n].status = "Finalized" /\ nullifiers'[n].charge = x
      /\ nullifiers'[n].binding = nullifiers[n].binding /\ nullifiers'[n].kind = nullifiers[n].kind
  BY <1>2, <1>5, <1>6, <1>7, FinalizeEffect DEF LeaseInv, IInv, TypeOK
<1>9. UNCHANGED <<root, now, handler, crashes, upstream, replies, cleared, held, issue>>
  BY <1>4 DEF SettleFrame
<1>10. /\ NullifiersType' /\ nextState' \in 0..MaxStates
       /\ RowsHaveOwners' /\ StatesAreFresh' /\ HistoryIsDurable'
       /\ \A m \in Nullifiers : \A s, j : BoundTo(m, s, j) => BoundTo(m, s, j)'
  <2>1. PICK reply \in Reply :
          reply.nullifier = n /\ reply.charge = x /\ reply.state = nextState + 1
    <3> DEFINE y == [nullifier |-> n, client |-> r.client, charge |-> x, state |-> nextState + 1]
    <3>1. y \in Reply
      BY <1>5, <1>6, <1>7, RequestFields DEF Reply
    <3> QED BY <3>1
  <2>2. BoundTo(n, r, "openrouter_lease") /\ "openrouter_lease" \in ReservationKind
    BY <1>2, <1>5 DEF LeaseBoundTo, ReservationKind
  <2> QED BY <1>2, <1>4, <1>5, <1>6, <1>9, <2>1, <2>2, StoredInv DEF LeaseInv
<1>11. IInv'
  <2>1. HandlersWellFormed'
    BY <1>9 DEF LeaseInv, IInv, HandlersWellFormed
  <2>2. HandlersOwnRows'
    <3>1. ASSUME NEW v \in Workers, NEW q, q = handler[v].request, NEW k, k = handler[v].kind,
                 handler[v].pc \in {"execute", "await", "finalize", "issue"}
          PROVE  BoundTo(q.nullifier, q, k)'
      <4>1. BoundTo(q.nullifier, q, k) /\ q \in ApiRequests
        BY <3>1 DEF LeaseInv, IInv, HandlersOwnRows, HandlersWellFormed
      <4> QED BY <1>10, <4>1, RequestFields
    <3> QED BY <1>9, <3>1 DEF LeaseInv, IInv, HandlersOwnRows, BoundTo
  <2>3. TypeOK'
    BY <1>9, <1>10 DEF LeaseInv, IInv, TypeOK
  <2> QED BY <1>10, <2>1, <2>2, <2>3 DEF IInv
<1>12. IssuerOwnsLease'
  BY <1>4, <1>9, IssuerUndisturbed
<1>13. \A q \in ApiRequests : LeaseBoundTo(q) => LeaseBoundTo(q)'
  BY <1>10, RequestFields DEF LeaseBoundTo
<1>14. ASSUME NEW q \in ApiRequests, LeaseBoundTo(q)', q.nullifier = n PROVE q = r
  BY <1>2, <1>5, <1>8, <1>14, BindingInjective DEF LeaseBoundTo, BoundTo
<1>15. LeasesHaveOwners' /\ KeysHaveOwners' /\ HeldKeysAreLeased'
  BY <1>4, <1>9, <1>13 DEF LeaseInv, LeasesHaveOwners, KeysHaveOwners, HeldKeysAreLeased
<1>16. \A d \in ClientIds : leases[d].status # "none" =>
         /\ leases[d].request.nullifier \in Nullifiers
         /\ leases[d].request.nullifier = n => d = settlement.client /\ leases[d].request = r
  <2> SUFFICES ASSUME NEW d \in ClientIds, leases[d].status # "none", NEW q, q = leases[d].request
               PROVE  q.nullifier \in Nullifiers /\ (q.nullifier = n => d = settlement.client /\ q = r)
    OBVIOUS
  <2>1. q \in ApiRequests /\ q.client = d /\ LeaseBoundTo(q)
    BY DEF LeaseInv, LeasesHaveOwners
  <2> QED BY <1>5, <1>13, <1>14, <2>1, RequestFields
<1>17. SpentLeasesAreSettled'
  <2>1. ASSUME NEW q \in ApiRequests, LeaseBoundTo(q)', Spent(q)'
        PROVE  leases[q.client].status \in {"active", "finalized"} /\ leases[q.client].request = q
    <3>1. CASE q.nullifier = n
      BY <1>5, <1>14, <2>1, <3>1
    <3>2. CASE q.nullifier # n
      <4>1. nullifiers'[q.nullifier] = nullifiers[q.nullifier]
        BY <1>8, <3>2, RequestFields
      <4>2. LeaseBoundTo(q) /\ Spent(q)
        BY <2>1, <4>1 DEF LeaseBoundTo, BoundTo, Spent
      <4> QED BY <4>2 DEF LeaseInv, SpentLeasesAreSettled
    <3> QED BY <3>1, <3>2
  <2>2. ASSUME NEW d \in ClientIds, leases[d].status = "finalized"
        PROVE  /\ nullifiers'[leases[d].request.nullifier].status = "Finalized"
               /\ leases[d].charge = nullifiers'[leases[d].request.nullifier].charge
    <3>1. leases[d].request.nullifier # n /\ leases[d].request.nullifier \in Nullifiers
      BY <1>5, <1>16, <2>2
    <3> QED BY <1>8, <2>2, <3>1 DEF LeaseInv, SpentLeasesAreSettled, Spent
  <2> QED BY <1>4, <2>1, <2>2 DEF SpentLeasesAreSettled, Spent
<1>18. /\ settlement' \in Settlement /\ settlement'.pc = "lease_row"
       /\ settlement'.by = settlement.by /\ settlement'.client = settlement.client
       /\ settlement'.todo = settlement.todo /\ settlement'.charge = x
  BY <1>3, <1>4, <1>5 DEF Settlement
<1>19. SettlerOwnsLease'
  <2>1. nullifiers'[Lease.request.nullifier].status = "Finalized"
        /\ nullifiers'[Lease.request.nullifier].charge = x
    BY <1>1, <1>2, <1>8
  <2>2. Lease' = Lease
    BY <1>4, <1>18 DEF Lease
  <2>3. /\ settlement.client \notin settlement.todo
        /\ \A c \in settlement.todo : leases[c].status = "active"
    BY <1>4, SettlerFacts
  <2> QED BY <1>4, <1>5, <1>18, <2>1, <2>2, <2>3 DEF SettlerOwnsLease, Spent, Lease
<1>20. TranscriptChargesUsage'
  <2> SUFFICES ASSUME NEW d \in ClientIds, leases[d].status \in {"active", "finalized"},
                      nullifiers'[leases[d].request.nullifier].status = "Finalized",
                      Source = "oa_org" \/ d \notin early
               PROVE  /\ keys[leases[d].key].status = "off" \/ keys[leases[d].key].expiresIn = 0
                      /\ nullifiers'[leases[d].request.nullifier].charge =
                           Smaller(keys[leases[d].key].usage, leases[d].request.bound)
    BY <1>4 DEF TranscriptChargesUsage, Spent, IsFinalUsage, Frozen
  <2>1. CASE leases[d].request.nullifier = n
    <3>1. d = settlement.client
      BY <1>16, <2>1
    <3>2. IsFinalUsage(d, x)
      BY <1>3, <1>4, <3>1 DEF LeaseInv, SettlerOwnsLease
    <3> QED BY <1>8, <2>1, <3>2 DEF IsFinalUsage, Frozen
  <2>2. CASE leases[d].request.nullifier # n
    <3>1. nullifiers'[leases[d].request.nullifier] = nullifiers[leases[d].request.nullifier]
      BY <1>8, <1>16, <2>2
    <3> QED BY <3>1 DEF LeaseInv, TranscriptChargesUsage, Spent, IsFinalUsage, Frozen
  <2> QED BY <2>1, <2>2
<1>21. LeaseAccounts'
  BY <1>15, <1>17, <1>19, <1>20 DEF LeaseAccounts
<1> QED BY <1>4, <1>9, <1>11, <1>12, <1>18, <1>21, LeaseInvParts DEF LeaseInv, LeaseTypeOK

-----------------------------------------------------------------------------
(* Clients, the clock and crashes *)

\* The use of a key and the passing of time change neither who owns a row or a
\* key nor the usage of a key that is off or has expired.
LEMMA OwnersKept ==
  ASSUME LeaseInv, UNCHANGED <<nullifiers, held, settlement, early>>,
         \A c \in ClientIds :
           /\ leases'[c].status = leases[c].status /\ leases'[c].request = leases[c].request
           /\ leases'[c].key = leases[c].key /\ leases'[c].charge = leases[c].charge,
         \A k \in KeyIds :
           /\ keys'[k].status = keys[k].status /\ keys'[k].request = keys[k].request
           /\ keys[k].expiresIn = 0 => keys'[k].expiresIn = 0
           /\ Frozen(k) => keys'[k].usage = keys[k].usage
  PROVE  /\ KeysHaveOwners' /\ HeldKeysAreLeased' /\ SpentLeasesAreSettled'
         /\ SettlerOwnsLease' /\ TranscriptChargesUsage'
<1>1. \A q \in ApiRequests : q.client \in ClientIds
  BY RequestFields
<1>2. \A q : (LeaseBoundTo(q)' <=> LeaseBoundTo(q)) /\ (Spent(q)' <=> Spent(q))
  BY DEF LeaseBoundTo, BoundTo, Spent
<1>3. KeysHaveOwners'
  BY <1>1, <1>2 DEF LeaseInv, KeysHaveOwners
<1>4. HeldKeysAreLeased'
  <2>1. \A k \in held : k \in KeyIds /\ keys[k].request.client \in ClientIds
    BY <1>1 DEF LeaseInv, LeaseTypeOK, HeldKeysAreLeased, KeysHaveOwners
  <2> QED BY <2>1 DEF LeaseInv, HeldKeysAreLeased
<1>5. SpentLeasesAreSettled'
  BY <1>1, <1>2 DEF LeaseInv, SpentLeasesAreSettled, Spent
<1>6. ASSUME NEW c \in ClientIds, leases[c].status \in {"active", "finalized"}, NEW x,
             IsFinalUsage(c, x)
      PROVE  /\ keys'[leases'[c].key].status = "off" \/ keys'[leases'[c].key].expiresIn = 0
             /\ x = Smaller(keys'[leases'[c].key].usage, leases'[c].request.bound)
  <2>1. leases[c].key \in KeyIds
    BY <1>6 DEF LeaseInv, LeasesHaveOwners
  <2> QED BY <1>6, <2>1 DEF IsFinalUsage, Frozen
<1>7. TranscriptChargesUsage'
  BY <1>6 DEF LeaseInv, TranscriptChargesUsage, Spent, IsFinalUsage, Frozen
<1>8. SettlerOwnsLease'
  <2> SUFFICES ASSUME settlement.by # "nobody" PROVE SettlerOwnsLease'
    BY DEF SettlerOwnsLease
  <2>1. PICK s : s = settlement.client
    OBVIOUS
  <2>2. /\ s \in ClientIds /\ leases[s].status \in {"active", "finalized"}
        /\ settlement.todo \subseteq ClientIds
    BY <2>1, SettlerFacts DEF Lease
  <2>3. SettlerOwnsLease
    BY DEF LeaseInv
  <2>4. settlement.pc = "finalize" /\ (Source = "oa_org" \/ s \notin early) =>
          /\ keys'[leases'[s].key].status = "off" \/ keys'[leases'[s].key].expiresIn = 0
          /\ settlement.charge = Smaller(keys'[leases'[s].key].usage, leases'[s].request.bound)
    BY <1>6, <2>1, <2>2, <2>3 DEF SettlerOwnsLease
  <2>5. \A c \in settlement.todo : leases'[c].status = leases[c].status
    BY <2>2
  <2> QED BY <2>1, <2>2, <2>3, <2>4, <2>5
      DEF SettlerOwnsLease, Lease, Spent, IsFinalUsage, Frozen
<1> QED BY <1>3, <1>4, <1>5, <1>7, <1>8

\* A client uses a key that is live and not expired, so no charge depends on its
\* usage yet.
LEMMA UseKeyInv ==
  ASSUME LeaseInv, NEW k \in KeyIds, UseKey(k)
  PROVE  LeaseInv'
<1>1. /\ keys[k].status = "live" /\ keys[k].expiresIn > 0
      /\ keys' = [keys EXCEPT ![k].usage = @ + 1]
      /\ UNCHANGED vars /\ UNCHANGED <<nullifiers, handler, leases, held, issue, settlement, early>>
  BY DEF UseKey, vars
<1>2. keys[k].usage \in Nat /\ keys[k].expiresIn \in Nat
  BY KeyFields DEF LeaseInv
<1>3. /\ keys' \in [KeyIds -> Key]
      /\ \A j \in KeyIds :
           /\ keys'[j].status = keys[j].status /\ keys'[j].request = keys[j].request
           /\ keys'[j].expiresIn = keys[j].expiresIn /\ keys'[j].finalIn = keys[j].finalIn
           /\ j # k => keys'[j].usage = keys[j].usage
  <2> DEFINE new == [keys[k] EXCEPT !.usage = @ + 1]
  <2>1. keys[k] \in Key /\ keys \in [KeyIds -> Key]
    BY DEF LeaseInv, LeaseTypeOK
  <2>2. keys' = [keys EXCEPT ![k] = new]
    BY <1>1, <2>1
  <2>3. /\ new \in Key /\ new.status = keys[k].status /\ new.request = keys[k].request
        /\ new.expiresIn = keys[k].expiresIn /\ new.finalIn = keys[k].finalIn
    BY <1>2, <2>1 DEF Key
  <2> HIDE DEF new
  <2> QED BY <2>1, <2>2, <2>3
<1>4. \A j \in KeyIds : Frozen(j) => keys'[j].usage = keys[j].usage
  BY <1>1, <1>2, <1>3 DEF Frozen
<1>5. /\ KeysHaveOwners' /\ HeldKeysAreLeased' /\ SpentLeasesAreSettled'
      /\ SettlerOwnsLease' /\ TranscriptChargesUsage'
  BY <1>1, <1>3, <1>4, OwnersKept
<1>6. LeasesHaveOwners'
  <2>1. \A q : LeaseBoundTo(q)' <=> LeaseBoundTo(q)
    BY <1>1 DEF LeaseBoundTo, BoundTo
  <2> QED BY <1>1, <1>3, <2>1 DEF LeaseInv, LeasesHaveOwners
<1>7. IInv' /\ IssuerOwnsLease'
  BY <1>1, <1>3, NextInv, IssuerUndisturbed DEF LeaseInv
<1>8. LeaseAccounts'
  BY <1>5, <1>6 DEF LeaseAccounts
<1> QED BY <1>1, <1>3, <1>7, <1>8, LeaseInvParts DEF LeaseInv, LeaseTypeOK

\* After a crash nobody holds a lease lock, and the rows are what they were.
LEMMA LeaseCrashInv ==
  ASSUME LeaseInv, LeaseCrash
  PROVE  LeaseInv'
<1>1. /\ CrashRestart /\ issue' = [w \in Workers |-> NotIssuing]
      /\ settlement' = NoSettlement /\ UNCHANGED <<nullifiers, leases, keys, held, early>>
  BY DEF LeaseCrash, CrashRestart
<1>2. IInv'
  BY <1>1, EnvironmentInv DEF LeaseInv
<1>3. NotIssuing \in IssueStep /\ NotIssuing.pc = "start"
  BY LeaseAssumption DEF NotIssuing, IssueStep
<1>4. issue' \in [Workers -> IssueStep] /\ \A w \in Workers : issue'[w].pc = "start"
  BY <1>1, <1>3
<1>5. \A w \in Workers : handler'[w].kind = "proxy"
  BY <1>1, IdleHandler DEF CrashRestart
<1>6. IssuerOwnsLease'
  BY <1>4, <1>5 DEF IssuerOwnsLease
<1>7. settlement' \in Settlement /\ SettlerOwnsLease'
  BY <1>1 DEF NoSettlement, Settlement, SettlerOwnsLease
<1>8. LeaseAccounts'
  BY <1>1, <1>7, RowsUndisturbed
<1> QED BY <1>1, <1>2, <1>4, <1>6, <1>7, <1>8, LeaseInvParts DEF LeaseInv, LeaseTypeOK

\* What a second takes from the times that are left.
LEMMA LessOneFacts ==
  ASSUME NEW t \in Nat
  PROVE  /\ LessOne(t) \in Nat /\ LessOne(t) <= t /\ LessOne(0) = 0
         /\ \A u \in Nat : t <= u => LessOne(t) <= LessOne(u)
         /\ \A u \in Nat : t <= u + Grace => LessOne(t) <= LessOne(u) + Grace
BY LeaseAssumption DEF LessOne

\* A second passes for the rows.
LEMMA RowsAge ==
  ASSUME LeaseTypeOK, NEW c \in ClientIds, LeaseTick
  PROVE  /\ leases'[c] \in LeaseRow
         /\ leases'[c].status = leases[c].status /\ leases'[c].request = leases[c].request
         /\ leases'[c].key = leases[c].key /\ leases'[c].charge = leases[c].charge
         /\ leases'[c].expiresIn = LessOne(leases[c].expiresIn)
         /\ leases'[c].settleIn = LessOne(leases[c].settleIn)
<1>1. PICK row \in LeaseRow : row = leases[c]
  BY DEF LeaseTypeOK
<1>2. PICK e, s : e = LessOne(row.expiresIn) /\ s = LessOne(row.settleIn)
  OBVIOUS
<1>3. e \in 0..Ttl /\ s \in 0..(Ttl + Grace)
  BY <1>2, LeaseAssumption DEF LeaseRow, LessOne
<1>4. leases'[c] = [row EXCEPT !.expiresIn = e, !.settleIn = s]
  BY <1>1, <1>2 DEF LeaseTick, LeaseRow
<1> QED BY <1>1, <1>2, <1>3, <1>4 DEF LeaseRow

\* A second passes for the keys.
LEMMA KeysAge ==
  ASSUME LeaseTypeOK, NEW k \in KeyIds, LeaseTick
  PROVE  /\ keys'[k] \in Key
         /\ keys'[k].status = keys[k].status /\ keys'[k].request = keys[k].request
         /\ keys'[k].usage = keys[k].usage
         /\ keys'[k].expiresIn = LessOne(keys[k].expiresIn)
         /\ keys'[k].finalIn = LessOne(keys[k].finalIn)
<1>1. PICK old \in Key : old = keys[k]
  BY DEF LeaseTypeOK
<1>2. PICK e, f : e = LessOne(old.expiresIn) /\ f = LessOne(old.finalIn)
  OBVIOUS
<1>3. e \in 0..Ttl /\ f \in 0..(Ttl + Grace)
  BY <1>2, LeaseAssumption DEF Key, LessOne
<1>4. keys'[k] = [old EXCEPT !.expiresIn = e, !.finalIn = f]
  BY <1>1, <1>2 DEF LeaseTick, Key
<1> QED BY <1>1, <1>2, <1>3, <1>4 DEF Key

\* Time passes at the same pace for the rows and for the keys.
LEMMA LeaseTickInv ==
  ASSUME LeaseInv, LeaseTick
  PROVE  LeaseInv'
<1>1. UNCHANGED <<nullifiers, handler, held, issue, settlement, early>>
  BY DEF LeaseTick
<1>2. IInv'
  <2>1. Tick \/ UNCHANGED vars
    BY DEF LeaseTick, Tick, vars
  <2> QED BY <2>1, NextInv DEF LeaseInv, Next
<1>3. leases' \in [ClientIds -> LeaseRow] /\ keys' \in [KeyIds -> Key]
  <2>1. (\A c \in ClientIds : leases'[c] \in LeaseRow) /\ \A k \in KeyIds : keys'[k] \in Key
    BY RowsAge, KeysAge DEF LeaseInv
  <2>2. leases' = [c \in ClientIds |-> leases'[c]] /\ keys' = [k \in KeyIds |-> keys'[k]]
    BY DEF LeaseTick
  <2> QED BY <2>1, <2>2
<1>4. \A c \in ClientIds :
        /\ leases'[c].status = leases[c].status /\ leases'[c].request = leases[c].request
        /\ leases'[c].key = leases[c].key /\ leases'[c].charge = leases[c].charge
        /\ leases'[c].expiresIn = LessOne(leases[c].expiresIn)
        /\ leases'[c].settleIn = LessOne(leases[c].settleIn)
  BY RowsAge DEF LeaseInv
<1>5. \A k \in KeyIds :
        /\ keys'[k].status = keys[k].status /\ keys'[k].request = keys[k].request
        /\ keys'[k].usage = keys[k].usage
        /\ keys'[k].expiresIn = LessOne(keys[k].expiresIn)
        /\ keys'[k].finalIn = LessOne(keys[k].finalIn)
  BY KeysAge DEF LeaseInv
<1>6. LessOne(0) = 0
  BY LessOneFacts
<1>7. /\ KeysHaveOwners' /\ HeldKeysAreLeased' /\ SpentLeasesAreSettled'
      /\ SettlerOwnsLease' /\ TranscriptChargesUsage'
  BY <1>1, <1>4, <1>5, <1>6, OwnersKept
<1>8. LeasesHaveOwners'
  <2>1. \A q : LeaseBoundTo(q)' <=> LeaseBoundTo(q)
    BY <1>1 DEF LeaseBoundTo, BoundTo
  <2>2. ASSUME NEW c \in ClientIds, leases[c].status = "active", Source = "openrouter"
        PROVE  LET row == leases'[c] IN
                 /\ keys'[row.key].status = "live"
                 /\ keys'[row.key].expiresIn <= row.settleIn
                 /\ keys'[row.key].finalIn <= row.settleIn
    <3>1. PICK k \in KeyIds : k = leases[c].key
      BY <2>2 DEF LeaseInv, LeasesHaveOwners
    <3>2. /\ keys[k].status = "live"
          /\ keys[k].expiresIn <= leases[c].settleIn /\ keys[k].finalIn <= leases[c].settleIn
      BY <2>2, <3>1 DEF LeaseInv, LeasesHaveOwners
    <3>3. keys[k].expiresIn \in Nat /\ keys[k].finalIn \in Nat /\ leases[c].settleIn \in Nat
      BY KeyFields, RowFields DEF LeaseInv
    <3> QED BY <1>4, <1>5, <3>1, <3>2, <3>3, LessOneFacts
  <2> QED BY <1>1, <1>4, <1>5, <2>1, <2>2 DEF LeaseInv, LeasesHaveOwners
<1>9. IssuerOwnsLease'
  <2>1. ASSUME NEW w \in Workers, issue[w].pc = "creating", Source = "openrouter"
        PROVE  LET k == issue[w].key IN
                 /\ keys'[k].status = "live"
                 /\ keys'[k].expiresIn = leases'[Req(w).client].expiresIn
                 /\ keys'[k].finalIn <= keys'[k].expiresIn + Grace
    <3>1. PICK k \in KeyIds : k = issue[w].key
      BY <2>1 DEF LeaseInv, IssuerOwnsLease
    <3>2. /\ keys[k].status = "live" /\ keys[k].expiresIn = leases[Req(w).client].expiresIn
          /\ keys[k].finalIn <= keys[k].expiresIn + Grace
      BY <2>1, <3>1 DEF LeaseInv, IssuerOwnsLease
    <3>3. keys[k].expiresIn \in Nat /\ keys[k].finalIn \in Nat
      BY KeyFields DEF LeaseInv
    <3>4. Req(w).client \in ClientIds
      BY <2>1, IssuerFacts DEF LeaseInv, IssuerOwnsLease
    <3> QED BY <1>4, <1>5, <3>1, <3>2, <3>3, <3>4, LessOneFacts
  <2>2. \A w \in Workers : issue[w].pc # "start" => Req(w).client \in ClientIds
    BY IssuerFacts DEF LeaseInv, IssuerOwnsLease
  <2>3. \A w \in Workers : Req(w)' = Req(w)
    BY <1>1 DEF Req
  <2> QED BY <1>1, <1>4, <1>5, <2>1, <2>2, <2>3 DEF LeaseInv, IssuerOwnsLease
<1>10. LeaseAccounts'
  BY <1>7, <1>8 DEF LeaseAccounts
<1> QED BY <1>1, <1>2, <1>3, <1>9, <1>10, LeaseInvParts DEF LeaseInv, LeaseTypeOK

-----------------------------------------------------------------------------
(* LeaseInv holds in every reachable state *)

\* No leases, no keys, nobody at work.
LEMMA LeaseInitInv == LeaseInit => LeaseInv
<1> SUFFICES ASSUME LeaseInit PROVE LeaseInv
  OBVIOUS
<1>1. /\ IInv /\ leases = [c \in ClientIds |-> NoLease] /\ keys = [k \in KeyIds |-> NoKey]
      /\ held = {} /\ issue = [w \in Workers |-> NotIssuing] /\ settlement = NoSettlement
      /\ early = {} /\ \A w \in Workers : handler[w] = Idle
      /\ \A n \in Nullifiers : nullifiers[n].status = "Absent"
  BY InitInv DEF LeaseInit, Init, NullifiersInit, NoRow
<1>2. 0 \in 0..MaxKeys /\ 0 \in 0..Ttl /\ 0 \in 0..(Ttl + Grace)
  BY LeaseAssumption
<1>3. NoKey \in Key /\ NotIssuing \in IssueStep /\ NoSettlement \in Settlement
  BY <1>2 DEF NoKey, Key, NotIssuing, IssueStep, NoSettlement, Settlement
<1>4. LeaseTypeOK
  BY <1>1, <1>3, WrittenRows DEF LeaseTypeOK, IInv
<1>5. /\ \A c \in ClientIds : leases[c].status = "none"
      /\ \A k \in KeyIds : keys[k].status = "none"
      /\ \A w \in Workers : issue[w].pc = "start" /\ handler[w].kind = "proxy"
      /\ settlement.by = "nobody"
  BY <1>1, IdleHandler DEF NoLease, NoKey, NotIssuing, NoSettlement
<1>6. IssuerOwnsLease /\ LeasesHaveOwners /\ KeysHaveOwners /\ HeldKeysAreLeased
  BY <1>1, <1>5 DEF IssuerOwnsLease, LeasesHaveOwners, KeysHaveOwners, HeldKeysAreLeased
<1>7. SpentLeasesAreSettled /\ SettlerOwnsLease /\ TranscriptChargesUsage
  BY <1>1, <1>5, RequestFields
  DEF SpentLeasesAreSettled, SettlerOwnsLease, TranscriptChargesUsage, Spent
<1> QED BY <1>1, <1>4, <1>6, <1>7 DEF LeaseInv

\* Every step of the server with leases preserves LeaseInv.
LEMMA LeaseNextInv == LeaseInv /\ [LeaseNext]_allVars => LeaseInv'
<1> SUFFICES ASSUME LeaseInv, [LeaseNext]_allVars PROVE LeaseInv'
  OBVIOUS
<1>1. CASE UNCHANGED allVars
  <2>1. UNCHANGED vars /\ UNCHANGED leaseVars
    BY <1>1 DEF allVars
  <2>2. UNCHANGED <<nullifiers, root, now, handler, nextState, crashes, upstream, replies, cleared,
                    leases, keys, held, issue, settlement, early>>
    BY <2>1 DEF vars, leaseVars
  <2>3. IInv'
    BY <2>1, NextInv DEF LeaseInv
  <2>4. LeaseAccounts'
    BY <2>2, UnchangedRowsKept, AccountsKept DEF LeaseInv, LeaseAccounts
  <2>5. IssuerOwnsLease'
    BY <2>2, IssuerUndisturbed
  <2> QED BY <2>2, <2>3, <2>4, <2>5, LeaseInvParts DEF LeaseInv, LeaseTypeOK
<1>2. CASE Serve /\ UNCHANGED leaseVars
  BY <1>2, ServeLeaseInv
<1>3. ASSUME NEW w \in Workers, NEW r \in ApiRequests, PostLease(w, r) PROVE LeaseInv'
  BY <1>3, PostLeaseInv
<1>4. ASSUME NEW w \in Workers, IssueRefused(w) \/ IssueHangup(w) PROVE LeaseInv'
  BY <1>4, IssueQuitsInv DEF IssueRefused, IssueHangup, Issuing
<1>5. ASSUME NEW w \in Workers,
             \/ IssueFresh(w) \/ IssueResumed(w) \/ SendCreate(w) \/ ReconcileDone(w)
             \/ ReconcileFails(w) \/ CreateFails(w) \/ IssueDone(w)
      PROVE  LeaseInv'
  BY <1>5, IssueFreshInv, IssueResumedInv, SendCreateInv, ReconcileDoneInv, ReconcileFailsInv,
     CreateFailsInv, IssueDoneInv
<1>6. CASE SweepStarts \/ \E c \in ClientIds : RetireStarts(c)
  BY <1>6, SettlementStartsInv
<1>7. CASE SettlementStep
  BY <1>7, SettleRowInv, SettleReadsInv, SettleFinalizesInv, SettleDeletesInv DEF SettlementStep
<1>8. CASE StationDisables \/ UsageAnswers \/ UsageFails
  BY <1>8, StationDisablesInv, UsageAnswersInv, UsageFailsInv
<1>9. ASSUME NEW k \in KeyIds, UseKey(k) PROVE LeaseInv'
  BY <1>9, UseKeyInv
<1>10. CASE LeaseTick \/ LeaseCrash
  BY <1>10, LeaseTickInv, LeaseCrashInv
<1> QED
  BY <1>1, <1>2, <1>3, <1>4, <1>5, <1>6, <1>7, <1>8, <1>9, <1>10 DEF LeaseNext, IssueHandler

\* LeaseInv holds in every reachable state, for both key sources and any number
\* of clients, keys, concurrent handlers and crashes.
THEOREM LeaseInvariance == LeaseSpec => []LeaseInv
<1>1. LeaseInit => LeaseInv
  BY LeaseInitInv
<1>2. LeaseInv /\ [LeaseNext]_allVars => LeaseInv'
  BY LeaseNextInv
<1> QED BY <1>1, <1>2, PTL DEF LeaseSpec

\* A key in a client's hands is the key of a lease that is active or settled, and
\* an OpenRouter key is live until its lease is settled.
THEOREM LeaseHeldKeyIsAccounted == LeaseSpec => []HeldKeyIsAccounted
<1>1. LeaseInv => HeldKeyIsAccounted
  <2> SUFFICES ASSUME LeaseInv, NEW k \in held, NEW c, c = keys[k].request.client
               PROVE  /\ leases[c].key = k /\ leases[c].status \in {"active", "finalized"}
                      /\ leases[c].status = "active" /\ Source = "openrouter" =>
                           keys[k].status = "live"
    BY DEF HeldKeyIsAccounted
  <2>1. /\ k \in KeyIds /\ keys[k].status # "none"
        /\ leases[c].key = k /\ leases[c].status \in {"active", "finalized"}
    BY DEF LeaseInv, LeaseTypeOK, HeldKeysAreLeased
  <2>2. c \in ClientIds
    BY <2>1, RequestFields DEF LeaseInv, KeysHaveOwners
  <2> QED BY <2>1, <2>2 DEF LeaseInv, LeasesHaveOwners
<1> QED BY <1>1, LeaseInvariance, PTL

\* A settled lease and the transcript of its nullifier agree on the request, the
\* endpoint and the charge.
THEOREM LeaseMatchesTranscript == LeaseSpec => []SettledLeaseMatchesTranscript
<1>1. LeaseInv => SettledLeaseMatchesTranscript
  <2> SUFFICES ASSUME LeaseInv, NEW c \in ClientIds, leases[c].status = "finalized",
                      NEW r, r = leases[c].request
               PROVE  /\ nullifiers[r.nullifier].status = "Finalized"
                      /\ nullifiers[r.nullifier].kind = "openrouter_lease"
                      /\ nullifiers[r.nullifier].binding = api_request_binding(r)
                      /\ nullifiers[r.nullifier].charge = leases[c].charge
    BY DEF SettledLeaseMatchesTranscript
  <2>1. LeaseBoundTo(r)
    BY DEF LeaseInv, LeasesHaveOwners
  <2> QED BY <2>1 DEF LeaseInv, SpentLeasesAreSettled, Spent, LeaseBoundTo, BoundTo
<1> QED BY <1>1, LeaseInvariance, PTL

\* What a lease is charged is the final usage of its key, up to the bound, unless
\* it was retired on an early reading of an OpenRouter key.
THEOREM LeaseUsageIsCharged == LeaseSpec => []SettledUsageIsCharged
<1>1. LeaseInv => SettledUsageIsCharged
  <2> SUFFICES ASSUME LeaseInv, NEW c \in ClientIds, leases[c].status = "finalized",
                      Source = "oa_org" \/ c \notin early
               PROVE  leases[c].charge = Smaller(keys[leases[c].key].usage, leases[c].request.bound)
    BY DEF SettledUsageIsCharged
  <2>1. /\ Spent(leases[c].request)
        /\ leases[c].charge = nullifiers[leases[c].request.nullifier].charge
    BY DEF LeaseInv, SpentLeasesAreSettled
  <2> QED BY <2>1 DEF LeaseInv, TranscriptChargesUsage, IsFinalUsage
<1> QED BY <1>1, LeaseInvariance, PTL

\* The proxy, the lease endpoint and the clearance endpoint never serve the same
\* nullifier: its row carries the kind of the endpoint that reserved it.
THEOREM LeaseEndpointsExclusive == LeaseSpec => []EndpointsExclusive
<1>1. LeaseInv => EndpointsExclusive
  <2> SUFFICES ASSUME LeaseInv, NEW k \in KeyIds, keys[k].status # "none",
                      NEW n, n = keys[k].request.nullifier
               PROVE  (\A r \in upstream : r.nullifier # n) /\ n \notin cleared
    BY DEF EndpointsExclusive
  <2>1. nullifiers[n].status \in {"Reserved", "Finalized"} /\ nullifiers[n].kind = "openrouter_lease"
    BY DEF LeaseInv, KeysHaveOwners, LeaseBoundTo, BoundTo
  <2> QED BY <2>1 DEF LeaseInv, IInv, HistoryIsDurable, BoundTo
<1> QED BY <1>1, LeaseInvariance, PTL

\* The holder of the issue lock finds its provisioning row, and the holder of the
\* settlement lock can store the charge it computed.
THEOREM LeaseLockHoldersSucceed == LeaseSpec => []LockHoldersSucceed
<1>1. LeaseInv => LockHoldersSucceed
  <2> SUFFICES ASSUME LeaseInv PROVE LockHoldersSucceed
    OBVIOUS
  <2>1. \A w \in Workers :
          Issuing(w, "create") \/ Issuing(w, "creating") =>
            LET row == leases[Req(w).client] IN
              row.status = "provisioning" /\ row.key = 0 /\ row.request = Req(w)
    BY DEF LeaseInv, IssuerOwnsLease, Issuing
  <2>2. ASSUME Settling("finalize")
        PROVE  /\ CanFinalize(Lease.request.nullifier)
               /\ settlement.charge <= ChargeCap(Lease.request, "openrouter_lease", FALSE)
    <3>1. LeaseBoundTo(Lease.request)
      BY <2>2, SettlerFacts DEF Settling
    <3>2. ~Spent(Lease.request) /\ settlement.charge <= Lease.request.bound
      BY <2>2 DEF Settling, LeaseInv, SettlerOwnsLease
    <3> QED BY <3>1, <3>2 DEF LeaseBoundTo, BoundTo, Spent, CanFinalize, ChargeCap
  <2> QED BY <2>1, <2>2 DEF LockHoldersSucceed
<1> QED BY <1>1, LeaseInvariance, PTL

\* With leases beside proxied requests and clearances the guarantees of the request
\* processor still hold: one service and one successor per nullifier, a close or a
\* spend, and no charge above the proved bound.
THEOREM LeasesAreSafe ==
  LeaseSpec => [](NoDoubleService /\ CloseExcludesSpend /\ OneNextState /\ ChargeWithinProof)
<1>1. LeaseInv => NoDoubleService /\ CloseExcludesSpend /\ OneNextState /\ ChargeWithinProof
  BY SafeAccounts DEF LeaseInv
<1> QED BY <1>1, LeaseInvariance, PTL

-----------------------------------------------------------------------------
(* The server with leases implements SpendOnce *)

\* A step of the other endpoints is the same step of SpendOnce: leases only add
\* to the charges an outcome may carry.
LEMMA PromiseWidens ==
  ASSUME [Promise!Next]_Promise!vars
  PROVE  [LeasePromise!Next]_LeasePromise!vars
<1>1. CASE UNCHANGED Promise!vars
  BY <1>1 DEF Promise!vars, LeasePromise!vars
<1>2. ASSUME NEW n \in Nullifiers,
             Promise!Reserve(n) \/ Promise!Close(n) \/ Promise!Answer(n) \/ Promise!Release(n)
      PROVE  LeasePromise!Next
  <2>1. \/ LeasePromise!Reserve(n) \/ LeasePromise!Close(n)
        \/ LeasePromise!Answer(n) \/ LeasePromise!Release(n)
    BY <1>2, Zenon
    DEF Promise!Reserve, Promise!Close, Promise!Answer, Promise!Release,
        LeasePromise!Reserve, LeasePromise!Close, LeasePromise!Answer, LeasePromise!Release
  <2> QED BY <2>1, Zenon DEF LeasePromise!Next
<1>3. ASSUME NEW n \in Nullifiers, NEW o \in [charge : Charges, state : 1..MaxStates],
             Promise!Spend(n, o)
      PROVE  LeasePromise!Next
  <2>1. LeasePromise!Spend(n, o)
    BY <1>3, Zenon DEF Promise!Spend, LeasePromise!Spend
  <2>2. o \in [charge : LeaseCharges, state : 1..MaxStates]
    BY DEF LeaseCharges
  <2> QED BY <2>1, <2>2, Zenon DEF LeasePromise!Next
<1>4. CASE Promise!Next
  <2>1. PICK n \in Nullifiers :
          \/ Promise!Reserve(n) \/ Promise!Close(n) \/ Promise!Answer(n) \/ Promise!Release(n)
          \/ \E o \in [charge : Charges, state : 1..MaxStates] : Promise!Spend(n, o)
    BY <1>4, Zenon DEF Promise!Next
  <2> QED BY <1>2, <1>3, <2>1, Zenon
<1> QED BY <1>1, <1>4

\* A step that changes neither the table nor the histories is a stutter.
LEMMA LeasePromiseStutter ==
  ASSUME UNCHANGED <<nullifiers, replies, cleared>>
  PROVE  UNCHANGED LeasePromise!vars
BY DEF LeasePromise!vars

\* The settlement of a lease is the abstract Spend, with a charge within the
\* bound of its request and a state no other row has.
LEMMA PromiseSettle ==
  ASSUME LeaseInv, SettleFinalizes
  PROVE  LeasePromise!Next
<1>1. PICK r : r = Lease.request
  OBVIOUS
<1>2. PICK n : n = r.nullifier
  OBVIOUS
<1>3. PICK x : x = settlement.charge
  OBVIOUS
<1>4. PICK s : s = nextState + 1
  OBVIOUS
<1>5. /\ settlement.by # "nobody" /\ settlement.pc = "finalize"
      /\ nullifiers[n].status = "Reserved" /\ nextState < MaxStates /\ finalize(r, x, s)
      /\ UNCHANGED <<replies, cleared>>
  BY <1>1, <1>2, <1>3, <1>4
  DEF SettleFinalizes, Settling, SettleFrame, FinalizeStored, CanFinalize
<1>6. r \in ApiRequests /\ n \in Nullifiers /\ settlement \in Settlement
  BY <1>1, <1>2, <1>5, SettlerFacts
<1>7. x \in Nat /\ x <= r.bound /\ r.bound \in Nat
  BY <1>1, <1>3, <1>5, <1>6, RequestFields DEF LeaseInv, SettlerOwnsLease, Settlement
<1>8. x \in LeaseCharges
  BY <1>6, <1>7 DEF LeaseCharges
<1>9. nextState \in Nat /\ s \in Nat /\ s \in 1..MaxStates
  BY <1>4, <1>5, BoundsAssumption DEF LeaseInv, IInv, TypeOK
<1>10. /\ \A m \in Nullifiers : m # n => nullifiers'[m] = nullifiers[m]
       /\ nullifiers'[n].status = "Finalized"
       /\ nullifiers'[n].charge = x /\ nullifiers'[n].state = s
  BY <1>2, <1>5, <1>6, <1>7, <1>9, FinalizeEffect DEF LeaseInv, IInv, TypeOK
<1>11. Ledger[n] = "reserved" /\ Ledger' = [Ledger EXCEPT ![n] = "spent"]
  BY <1>5, <1>6, <1>10, Fates, LedgerStep DEF Ledger
<1>12. Outcome' = [Outcome EXCEPT ![n] = [charge |-> x, state |-> s]] /\ Answered' = Answered
  BY <1>5, <1>6, <1>10 DEF Outcome, Answered
<1>13. \A m \in Nullifiers : Outcome[m].state # s
  <2>1. ASSUME NEW m \in Nullifiers PROVE nullifiers[m].state # s
    <3>1. nullifiers[m].state \in Nat /\ nullifiers[m].state <= nextState
      BY DEF LeaseInv, IInv, TypeOK, NullifiersType, TranscriptRecord, StatesAreFresh
    <3> QED BY <1>4, <1>9, <3>1
  <2> QED BY <2>1 DEF Outcome
<1>14. LeasePromise!Spend(n, [charge |-> x, state |-> s])
  BY <1>5, <1>11, <1>12, <1>13 DEF LeasePromise!Spend, Ledger, Outcome, Answered
<1>15. [charge |-> x, state |-> s] \in [charge : LeaseCharges, state : 1..MaxStates]
  BY <1>8, <1>9
<1> QED BY <1>6, <1>14, <1>15, Zenon DEF LeasePromise!Next

\* Every step of the server with leases is a step of SpendOnce, or a stutter.
LEMMA LeasePromiseNext ==
  LeaseInv /\ [LeaseNext]_allVars => [LeasePromise!Next]_LeasePromise!vars
<1> SUFFICES ASSUME LeaseInv, [LeaseNext]_allVars
             PROVE  [LeasePromise!Next]_LeasePromise!vars
  OBVIOUS
<1>1. CASE Serve
  BY <1>1, PromiseNext, PromiseWidens DEF LeaseInv, Next
<1>2. CASE SettleFinalizes
  BY <1>2, PromiseSettle
<1>3. CASE UNCHANGED <<nullifiers, replies, cleared>>
  BY <1>3, LeasePromiseStutter
<1>4. ASSUME NEW w \in Workers,
             \/ \E r \in ApiRequests : PostLease(w, r)
             \/ IssueHandler(w) \/ ReconcileDone(w) \/ ReconcileFails(w)
             \/ CreateFails(w) \/ IssueHangup(w) \/ IssueDone(w)
      PROVE  UNCHANGED <<nullifiers, replies, cleared>>
  BY <1>4
  DEF PostLease, IssueHandler, IssueRefused, IssueFresh, IssueResumed, SendCreate, ReconcileDone,
      ReconcileFails, CreateFails, IssueHangup, IssueDone, IssueFrame
<1>5. ASSUME \/ SweepStarts \/ (\E c \in ClientIds : RetireStarts(c))
             \/ SettleRecovered \/ SettleReads \/ SettleLeaseRow \/ SettleDeletes
             \/ StationDisables \/ UsageAnswers \/ UsageFails
      PROVE  UNCHANGED <<nullifiers, replies, cleared>>
  BY <1>5
  DEF SweepStarts, RetireStarts, SettleRecovered, SettleReads, SettleLeaseRow, SettleDeletes,
      StationDisables, UsageAnswers, UsageFails, SettleFrame
<1>6. ASSUME (\E k \in KeyIds : UseKey(k)) \/ LeaseTick \/ LeaseCrash \/ UNCHANGED allVars
      PROVE  UNCHANGED <<nullifiers, replies, cleared>>
  BY <1>6 DEF UseKey, LeaseTick, LeaseCrash, CrashRestart, allVars, vars
<1> QED BY <1>1, <1>2, <1>3, <1>4, <1>5, <1>6 DEF LeaseNext, SettlementStep

\* Leases and proxied requests side by side, with their crashes, hang-ups and
\* re-issues, implement the abstract promise that a nullifier is used up once.
THEOREM LeasesImplementSpendOnce == LeaseSpec => LeasesKeepPromise
<1>1. LeaseInit => LeasePromise!Init
  BY DEF LeaseInit, Init, NullifiersInit, NoRow, FateOf, LeasePromise!Init, LeasePromise!NoOutcome
<1>2. LeaseInv /\ [LeaseNext]_allVars => [LeasePromise!Next]_LeasePromise!vars
  BY LeasePromiseNext
<1> QED BY <1>1, <1>2, LeaseInvariance, PTL DEF LeaseSpec, LeasesKeepPromise, LeasePromise!Spec

=============================================================================
