----------------------- MODULE RequestProcessorProofs -----------------------
(***************************************************************************)
(* Proofs about RequestProcessor: the inductive invariant IInv, the safety *)
(* properties that follow from it, and the refinement of SpendOnce.        *)
(***************************************************************************)
EXTENDS RequestProcessor, TLAPS

-----------------------------------------------------------------------------
(* Steps of one handler *)

\* Goto moves one handler and keeps everything else about it.
LEMMA GotoEffect ==
  ASSUME handler \in [Workers -> Handler], NEW w \in Workers, NEW pc \in PC, Goto(w, pc)
  PROVE  /\ handler' \in [Workers -> Handler]
         /\ \A v \in Workers : v # w => handler'[v] = handler[v]
         /\ handler'[w].pc = pc /\ handler'[w].kind = handler[w].kind
         /\ handler'[w].request = handler[w].request
         /\ handler'[w].clearing = handler[w].clearing
         /\ handler'[w].response = handler[w].response
BY DEF Goto, Handler

\* Return makes one handler idle.
LEMMA ReturnEffect ==
  ASSUME handler \in [Workers -> Handler], NEW w \in Workers, Return(w)
  PROVE  /\ handler' \in [Workers -> Handler]
         /\ \A v \in Workers : v # w => handler'[v] = handler[v]
         /\ handler'[w] = Idle
BY DEF Return, Handler, Idle, PC, ReservationKind

\* A handler serves one of two endpoints.
LEMMA HandlerKind ==
  ASSUME IInv, NEW w \in Workers
  PROVE  handler[w].kind \in ReservationKind /\ handler[w].kind \in {"proxy", "openrouter_lease"}
BY DEF IInv, TypeOK, Handler, ReservationKind

\* The idle handler satisfies what is asked of every handler.
LEMMA IdleHandler == Idle.pc = "idle" /\ Idle.kind = "proxy"
BY DEF Idle

-----------------------------------------------------------------------------
(* Steps of the table *)

\* An INSERT of a reservation writes one row.
LEMMA ReserveEffect ==
  ASSUME NullifiersType, NEW r \in ApiRequests, NEW k \in ReservationKind,
         reserve_with_kind(r, k)
  PROVE  /\ nullifiers' \in [Nullifiers -> TranscriptRecord]
         /\ \A m \in Nullifiers : m # r.nullifier => nullifiers'[m] = nullifiers[m]
         /\ nullifiers'[r.nullifier] = ReservedRow(r, k)
         /\ r.nullifier \in Nullifiers
BY RequestsAssumption
DEF NullifiersType, TranscriptRecord, reserve_with_kind, ReservedRow, ApiRequest,
    NullifierStatus, ReservationKind

\* An INSERT of a clearance writes one row.
LEMMA ClearanceEffect ==
  ASSUME NullifiersType, NEW n \in Nullifiers, reserve_clearance(n)
  PROVE  /\ nullifiers' \in [Nullifiers -> TranscriptRecord]
         /\ \A m \in Nullifiers : m # n => nullifiers'[m] = nullifiers[m]
         /\ nullifiers'[n].status = "ClearanceReserved"
         /\ nullifiers'[n].state = 0 /\ nullifiers'[n].charge = 0
BY DEF NullifiersType, TranscriptRecord, reserve_clearance, NoRow, NullifierStatus, ReservationKind

\* The UPDATE of finalize writes four columns of one row.
LEMMA FinalizeEffect ==
  ASSUME NullifiersType, NEW r \in ApiRequests, NEW n \in Nullifiers, n = r.nullifier,
         NEW c \in Nat, NEW s \in Nat, finalize(r, c, s)
  PROVE  /\ nullifiers' \in [Nullifiers -> TranscriptRecord]
         /\ \A m \in Nullifiers : m # n => nullifiers'[m] = nullifiers[m]
         /\ nullifiers'[n].status = "Finalized"
         /\ nullifiers'[n].charge = c /\ nullifiers'[n].state = s
         /\ nullifiers'[n].archive = r
         /\ nullifiers'[n].kind = nullifiers[n].kind
         /\ nullifiers'[n].client = nullifiers[n].client
         /\ nullifiers'[n].payload = nullifiers[n].payload
         /\ nullifiers'[n].binding = nullifiers[n].binding
<1> DEFINE row == [nullifiers[n] EXCEPT !.status = "Finalized", !.charge = c, !.state = s,
                                        !.archive = r]
<1>1. nullifiers \in [Nullifiers -> TranscriptRecord] /\ nullifiers[n] \in TranscriptRecord
  BY DEF NullifiersType
<1>2. nullifiers' = [nullifiers EXCEPT ![n] = row]
  BY <1>1 DEF finalize
<1>3. /\ row \in TranscriptRecord /\ row.status = "Finalized"
      /\ row.charge = c /\ row.state = s /\ row.archive = r
      /\ row.kind = nullifiers[n].kind /\ row.client = nullifiers[n].client
      /\ row.payload = nullifiers[n].payload /\ row.binding = nullifiers[n].binding
  BY <1>1 DEF TranscriptRecord, NullifierStatus
<1> HIDE DEF row
<1> QED BY <1>1, <1>2, <1>3

\* The binding identifies the request.
LEMMA BindingInjective ==
  ASSUME NEW r, NEW s, api_request_binding(r) = api_request_binding(s)
  PROVE  r = s
BY DEF api_request_binding

-----------------------------------------------------------------------------
(* The invariant is inductive *)

\* The initial states satisfy the invariant.
LEMMA InitInv == Init => IInv
<1> SUFFICES ASSUME Init PROVE IInv
  OBVIOUS
<1>1. TypeOK
  <2>1. Idle \in Handler
    BY DEF Idle, Handler, PC, ReservationKind
  <2>2. NoRow \in TranscriptRecord
    BY DEF NoRow, TranscriptRecord, NullifierStatus, ReservationKind
  <2> QED BY <2>1, <2>2, BoundsAssumption DEF Init, TypeOK, NullifiersInit, NullifiersType
<1>2. \A n \in Nullifiers : /\ nullifiers[n].status = "Absent"
                            /\ nullifiers[n].charge = 0 /\ nullifiers[n].state = 0
  BY DEF Init, NullifiersInit, NoRow
<1>3. HandlersWellFormed /\ HandlersOwnRows
  BY IdleHandler DEF Init, HandlersWellFormed, HandlersOwnRows
<1>4. RowsHaveOwners /\ StatesAreFresh
  BY <1>2 DEF Init, RowsHaveOwners, StatesAreFresh
<1>5. HistoryIsDurable
  BY DEF Init, HistoryIsDurable
<1> QED BY <1>1, <1>3, <1>4, <1>5 DEF IInv

\* A step that changes no row and adds nothing to the histories but what the
\* table already says keeps the parts of the invariant about the table.
LEMMA TableUnchanged ==
  ASSUME IInv, UNCHANGED <<nullifiers, nextState>>,
         \A r \in upstream' : r \in upstream \/ BoundTo(r.nullifier, r, "proxy"),
         \A x \in replies' :
           \/ x \in replies
           \/ /\ nullifiers[x.nullifier].status = "Finalized"
              /\ x.charge = nullifiers[x.nullifier].charge
              /\ x.state = nullifiers[x.nullifier].state,
         \A n \in cleared' : n \in cleared \/ nullifiers[n].status = "ClearanceReserved"
  PROVE  RowsHaveOwners' /\ StatesAreFresh' /\ HistoryIsDurable'
<1>1. RowsHaveOwners'
  BY DEF IInv, RowsHaveOwners
<1>2. StatesAreFresh'
  BY DEF IInv, StatesAreFresh
<1>3. HistoryIsDurable'
  BY DEF IInv, HistoryIsDurable, BoundTo
<1> QED BY <1>1, <1>2, <1>3

\* When the table is unchanged, a handler that returns keeps the invariant of
\* the handlers.
LEMMA ReturnKeepsHandlers ==
  ASSUME IInv, NEW w \in Workers, Return(w), UNCHANGED nullifiers
  PROVE  HandlersWellFormed' /\ HandlersOwnRows'
<1>1. /\ \A v \in Workers : v # w => handler'[v] = handler[v]
      /\ handler'[w].pc = "idle" /\ handler'[w].kind = "proxy"
  BY ReturnEffect, IdleHandler DEF IInv, TypeOK
<1>2. HandlersWellFormed'
  BY <1>1 DEF IInv, HandlersWellFormed
<1>3. HandlersOwnRows'
  BY <1>1 DEF IInv, HandlersOwnRows, BoundTo
<1> QED BY <1>2, <1>3

\* When the table is unchanged, a handler that moves on keeps the invariant of
\* the handlers if it holds what its new place asks for.
LEMMA GotoKeepsHandlers ==
  ASSUME IInv, NEW w \in Workers, NEW pc \in PC \ {"finalize"}, Goto(w, pc),
         UNCHANGED nullifiers,
         pc \in {"lookup", "checks", "reserve", "execute", "await", "issue"} =>
           Req(w) \in ApiRequests,
         pc \notin {"lookup", "checks", "reserve", "issue"} => handler[w].kind = "proxy",
         pc = "issue" => handler[w].kind = "openrouter_lease",
         pc \in {"clear_lookup", "clear_reserve"} => handler[w].clearing \in Nullifiers,
         pc \in {"execute", "await", "issue"} => BoundTo(Req(w).nullifier, Req(w), handler[w].kind),
         pc = "reserve" => Req(w).bound >= RequiredSolvency
  PROVE  handler' \in [Workers -> Handler] /\ HandlersWellFormed' /\ HandlersOwnRows'
<1>1. /\ handler' \in [Workers -> Handler]
      /\ \A v \in Workers : v # w => handler'[v] = handler[v]
      /\ handler'[w].pc = pc /\ handler'[w].kind = handler[w].kind
      /\ handler'[w].request = handler[w].request
      /\ handler'[w].clearing = handler[w].clearing
      /\ handler'[w].response = handler[w].response
  BY GotoEffect DEF IInv, TypeOK
<1>2. HandlersWellFormed'
  BY <1>1 DEF IInv, HandlersWellFormed, Req
<1>3. HandlersOwnRows'
  BY <1>1 DEF IInv, HandlersOwnRows, BoundTo, Req
<1> QED BY <1>1, <1>2, <1>3

\* A row that is reserved or finalized is bound to its request for good: the
\* steps of the table keep what the handlers and the history rely on.
LEMMA BoundStays ==
  ASSUME NEW n \in Nullifiers, NEW r, NEW k, BoundTo(n, r, k),
         \/ nullifiers'[n] = nullifiers[n]
         \/ /\ nullifiers'[n].status = "Finalized"
            /\ nullifiers'[n].binding = nullifiers[n].binding
            /\ nullifiers'[n].kind = nullifiers[n].kind
  PROVE  BoundTo(n, r, k)'
BY DEF BoundTo

\* ResponseFromRecord reads a well-typed reply off a finalized row.
LEMMA ReplyFromRecord ==
  ASSUME IInv, NEW n \in Nullifiers, nullifiers[n].status = "Finalized",
         NEW c \in ClientIds
  PROVE  /\ ResponseFromRecord(n, c) \in Reply
         /\ ResponseFromRecord(n, c).nullifier = n
         /\ ResponseFromRecord(n, c).charge = nullifiers[n].charge
         /\ ResponseFromRecord(n, c).state = nullifiers[n].state
BY DEF IInv, TypeOK, NullifiersType, TranscriptRecord, ResponseFromRecord, Reply

\* A request has the fields of a wire request.
LEMMA RequestFields ==
  ASSUME NEW r \in ApiRequests
  PROVE  /\ r.nullifier \in Nullifiers /\ r.client \in ClientIds /\ r.payload \in Payloads
         /\ r.bound \in Nat
BY RequestsAssumption DEF ApiRequest

\* A handler that returns and changes nothing else keeps IInv.
LEMMA QuietReturn ==
  ASSUME IInv, NEW w \in Workers, Return(w),
         UNCHANGED <<nullifiers, root, now, nextState, crashes, upstream, replies, cleared>>
  PROVE  IInv'
<1>1. handler' \in [Workers -> Handler] /\ HandlersWellFormed' /\ HandlersOwnRows'
  BY ReturnEffect, ReturnKeepsHandlers DEF IInv, TypeOK
<1>2. RowsHaveOwners' /\ StatesAreFresh' /\ HistoryIsDurable'
  BY TableUnchanged
<1>3. TypeOK'
  BY <1>1 DEF IInv, TypeOK, NullifiersType
<1> QED BY <1>1, <1>2, <1>3 DEF IInv

\* A handler that moves on, and changes nothing else, keeps IInv if it owns what
\* its next point needs.
LEMMA QuietGoto ==
  ASSUME IInv, NEW w \in Workers, NEW pc \in PC \ {"finalize"}, Goto(w, pc),
         UNCHANGED <<nullifiers, root, now, nextState, crashes, upstream, replies, cleared>>,
         pc \in {"lookup", "checks", "reserve", "execute", "await", "issue"} =>
           Req(w) \in ApiRequests,
         pc \notin {"lookup", "checks", "reserve", "issue"} => handler[w].kind = "proxy",
         pc = "issue" => handler[w].kind = "openrouter_lease",
         pc \in {"clear_lookup", "clear_reserve"} => handler[w].clearing \in Nullifiers,
         pc \in {"execute", "await", "issue"} => BoundTo(Req(w).nullifier, Req(w), handler[w].kind),
         pc = "reserve" => Req(w).bound >= RequiredSolvency
  PROVE  IInv'
<1>1. handler' \in [Workers -> Handler] /\ HandlersWellFormed' /\ HandlersOwnRows'
  BY GotoKeepsHandlers
<1>2. RowsHaveOwners' /\ StatesAreFresh' /\ HistoryIsDurable'
  BY TableUnchanged
<1>3. TypeOK'
  BY <1>1 DEF IInv, TypeOK, NullifiersType
<1> QED BY <1>1, <1>2, <1>3 DEF IInv

-----------------------------------------------------------------------------
(* One lemma per step of a handler *)

\* The lookup delivers a stored response, resumes a reservation or goes on.
LEMMA LookupInv ==
  ASSUME IInv, NEW w \in Workers, validate_and_reserve_lookup(w)
  PROVE  IInv'
<1> DEFINE r == Req(w)
<1> USE DEF validate_and_reserve_lookup
<1>1. handler[w].pc = "lookup" /\ r \in ApiRequests
  BY DEF IInv, HandlersWellFormed, Req, ResumeFinalized, ResumeReserved, RefuseReplay, LookupMiss
<1>2. r.nullifier \in Nullifiers /\ r.client \in ClientIds
  BY <1>1, RequestFields
<1>3. CASE ResumeFinalized(w)
  <2>1. /\ nullifiers[r.nullifier].status = "Finalized" /\ Return(w)
        /\ replies' \in {replies, replies \cup {ResponseFromRecord(r.nullifier, r.client)}}
    BY <1>1, <1>3 DEF ResumeFinalized, Deliver
  <2>2. handler' \in [Workers -> Handler] /\ HandlersWellFormed' /\ HandlersOwnRows'
    BY <2>1, ReturnEffect, ReturnKeepsHandlers DEF IInv, TypeOK
  <2>3. RowsHaveOwners' /\ StatesAreFresh' /\ HistoryIsDurable'
    BY <1>2, <2>1, ReplyFromRecord, TableUnchanged
  <2>4. TypeOK'
    BY <1>2, <2>1, <2>2, ReplyFromRecord DEF IInv, TypeOK, NullifiersType
  <2> QED BY <2>2, <2>3, <2>4 DEF IInv
<1>4. CASE RefuseReplay(w)
  BY <1>4, QuietReturn DEF RefuseReplay
<1>5. CASE ResumeReserved(w)
  <2>1. BoundTo(r.nullifier, r, handler[w].kind) /\ UNCHANGED replies
    BY <1>1, <1>5 DEF ResumeReserved, BoundTo, SameRequest
  <2>2. \/ handler[w].kind = "proxy" /\ Goto(w, "execute")
        \/ handler[w].kind = "openrouter_lease" /\ Goto(w, "issue")
    BY <1>5, HandlerKind DEF ResumeReserved, AfterReserve
  <2>3. CASE handler[w].kind = "proxy" /\ Goto(w, "execute")
    BY <1>1, <2>1, <2>3, QuietGoto DEF PC
  <2>4. CASE handler[w].kind = "openrouter_lease" /\ Goto(w, "issue")
    BY <1>1, <2>1, <2>4, QuietGoto DEF PC
  <2> QED BY <2>2, <2>3, <2>4
<1>6. CASE LookupMiss(w)
  <2>1. Goto(w, "checks") /\ UNCHANGED replies
    BY <1>6 DEF LookupMiss
  <2> QED BY <1>1, <2>1, QuietGoto DEF PC
<1> QED BY <1>3, <1>4, <1>5, <1>6

\* The checks of a first attempt let only a solvent request through.
LEMMA ChecksInv ==
  ASSUME IInv, NEW w \in Workers, validate_and_reserve_checks(w)
  PROVE  IInv'
<1>1. Req(w) \in ApiRequests
  BY DEF IInv, HandlersWellFormed, Req, validate_and_reserve_checks
<1>2. CASE Acceptable(Req(w)) /\ Goto(w, "reserve")
  <2>1. Req(w).bound >= RequiredSolvency
    BY <1>2 DEF Acceptable
  <2> QED BY <1>1, <1>2, <2>1, QuietGoto DEF PC, validate_and_reserve_checks
<1>3. CASE Return(w)
  BY <1>3, QuietReturn DEF validate_and_reserve_checks
<1> QED BY <1>2, <1>3 DEF validate_and_reserve_checks

\* The INSERT makes the row this request's, or refuses.
LEMMA InsertInv ==
  ASSUME IInv, NEW w \in Workers, validate_and_reserve_insert(w)
  PROVE  IInv'
<1> DEFINE r == Req(w)
           n == r.nullifier
           kind == handler[w].kind
           next == AfterReserve(kind)
<1>1. /\ r \in ApiRequests /\ r.bound >= RequiredSolvency /\ kind \in ReservationKind
      /\ \/ kind = "proxy" /\ next = "execute"
         \/ kind = "openrouter_lease" /\ next = "issue"
  BY HandlerKind
  DEF IInv, HandlersWellFormed, HandlersOwnRows, Req, validate_and_reserve_insert, AfterReserve
<1>2. n \in Nullifiers /\ r.client \in ClientIds /\ r.bound \in Nat
  BY <1>1, RequestFields
<1>3. CASE ~CanInsert(n)
  BY <1>3, QuietReturn DEF validate_and_reserve_insert
<1>4. CASE CanInsert(n)
  <2>1. /\ reserve_with_kind(r, kind) /\ Goto(w, next)
        /\ nullifiers[n].status = "Absent"
        /\ UNCHANGED <<root, now, nextState, crashes, upstream, replies, cleared>>
    BY <1>1, <1>4 DEF validate_and_reserve_insert, CanInsert, HasRow
  <2>2. /\ nullifiers' \in [Nullifiers -> TranscriptRecord]
        /\ \A m \in Nullifiers : m # n => nullifiers'[m] = nullifiers[m]
        /\ nullifiers'[n] = ReservedRow(r, kind)
    BY <1>1, <2>1, ReserveEffect DEF IInv, TypeOK
  <2>3. /\ nullifiers'[n].status = "Reserved" /\ nullifiers'[n].kind = kind
        /\ nullifiers'[n].client = r.client
        /\ nullifiers'[n].binding = api_request_binding(r)
        /\ nullifiers'[n].charge = 0 /\ nullifiers'[n].state = 0
    BY <2>2 DEF ReservedRow
  <2>4. /\ handler' \in [Workers -> Handler]
        /\ \A v \in Workers : v # w => handler'[v] = handler[v]
        /\ handler'[w].pc = next /\ handler'[w].kind = kind
        /\ handler'[w].request = r
    BY <1>1, <2>1, GotoEffect DEF IInv, TypeOK, PC, Req
  <2>5. TypeOK'
    BY <2>1, <2>2, <2>4 DEF IInv, TypeOK, NullifiersType
  <2>6. HandlersWellFormed'
    BY <1>1, <2>4 DEF IInv, HandlersWellFormed
  <2>7. \A m \in Nullifiers : \A s, k : BoundTo(m, s, k) => BoundTo(m, s, k)'
    BY <2>1, <2>2 DEF BoundTo
  <2>8. HandlersOwnRows'
    <3>1. ASSUME NEW q, NEW k, q = r, k = kind PROVE BoundTo(q.nullifier, q, k)'
      BY <2>3, <3>1 DEF BoundTo
    <3>2. ASSUME NEW v \in Workers, v # w, NEW q, q = handler[v].request, NEW k, k = handler[v].kind,
                 handler[v].pc \in {"execute", "await", "finalize", "issue"}
          PROVE  BoundTo(q.nullifier, q, k)'
      <4>1. BoundTo(q.nullifier, q, k) /\ q \in ApiRequests
        BY <3>2 DEF IInv, HandlersOwnRows, HandlersWellFormed
      <4> QED BY <2>7, <4>1, RequestFields
    <3> QED BY <1>1, <2>4, <3>1, <3>2 DEF IInv, HandlersOwnRows, BoundTo
  <2>9. RowsHaveOwners'
    BY <1>1, <1>2, <2>2, <2>3 DEF IInv, RowsHaveOwners, ChargeCovered
  <2>10. StatesAreFresh'
    BY <2>1, <2>2, <2>3 DEF IInv, TypeOK, StatesAreFresh
  <2>11. HistoryIsDurable'
    BY <2>1, <2>2, <2>7, RequestFields DEF IInv, TypeOK, HistoryIsDurable, Reply, BoundTo
  <2> QED BY <2>5, <2>6, <2>8, <2>9, <2>10, <2>11 DEF IInv
<1> QED BY <1>3, <1>4

\* A request starts, at either endpoint, where it needs nothing of the table.
LEMMA ArriveInv ==
  ASSUME IInv, NEW w \in Workers, NEW r \in ApiRequests, NEW k \in ReservationKind,
         Arrive(w, r, k),
         UNCHANGED <<nullifiers, root, now, nextState, crashes, upstream, replies, cleared>>
  PROVE  /\ IInv'
         /\ \A v \in Workers : v # w => handler'[v] = handler[v]
         /\ handler'[w].pc = "lookup" /\ handler'[w].kind = k /\ handler'[w].request = r
<1>1. /\ handler' \in [Workers -> Handler]
      /\ \A v \in Workers : v # w => handler'[v] = handler[v]
      /\ handler'[w].pc = "lookup" /\ handler'[w].kind = k /\ handler'[w].request = r
  BY DEF IInv, TypeOK, Handler, Arrive, Idle, PC
<1>2. HandlersWellFormed'
  BY <1>1 DEF IInv, HandlersWellFormed
<1>3. HandlersOwnRows'
  BY <1>1 DEF IInv, HandlersOwnRows, BoundTo
<1>4. RowsHaveOwners' /\ StatesAreFresh' /\ HistoryIsDurable'
  BY TableUnchanged
<1>5. TypeOK'
  BY <1>1 DEF IInv, TypeOK, NullifiersType
<1> QED BY <1>1, <1>2, <1>3, <1>4, <1>5 DEF IInv

\* Only a handler that owns the row calls the upstream.
LEMMA SendUpstreamInv ==
  ASSUME IInv, NEW w \in Workers, SendUpstream(w)
  PROVE  IInv'
<1>1. /\ Req(w) \in ApiRequests /\ BoundTo(Req(w).nullifier, Req(w), "proxy")
      /\ handler[w].kind = "proxy"
      /\ Goto(w, "await") /\ upstream' = upstream \cup {Req(w)}
      /\ UNCHANGED <<nullifiers, root, now, nextState, crashes, replies, cleared>>
  BY DEF IInv, HandlersWellFormed, HandlersOwnRows, Req, SendUpstream
<1>2. handler' \in [Workers -> Handler] /\ HandlersWellFormed' /\ HandlersOwnRows'
  BY <1>1, GotoKeepsHandlers DEF PC
<1>3. RowsHaveOwners' /\ StatesAreFresh' /\ HistoryIsDurable'
  BY <1>1, TableUnchanged
<1>4. TypeOK'
  BY <1>1, <1>2 DEF IInv, TypeOK, NullifiersType
<1> QED BY <1>2, <1>3, <1>4 DEF IInv

\* The upstream's answer is kept by the handler that owns the row.
LEMMA ProviderAnswersInv ==
  ASSUME IInv, NEW w \in Workers, NEW c \in Charges, NEW p \in BOOLEAN,
         ProviderAnswers(w, c, p)
  PROVE  IInv'
<1>1. [charge |-> c, policy |-> p] \in ProviderResponse
  BY DEF ProviderResponse
<1>2. /\ handler' \in [Workers -> Handler]
      /\ \A v \in Workers : v # w => handler'[v] = handler[v]
      /\ handler'[w].pc = "finalize" /\ handler'[w].kind = handler[w].kind
      /\ handler'[w].request = handler[w].request
      /\ handler'[w].response = [charge |-> c, policy |-> p]
  BY <1>1 DEF IInv, TypeOK, Handler, ProviderAnswers, PC
<1>3. /\ handler[w].pc = "await"
      /\ UNCHANGED <<nullifiers, root, now, nextState, crashes, upstream, replies, cleared>>
  BY DEF ProviderAnswers
<1>4. HandlersWellFormed'
  BY <1>1, <1>2, <1>3 DEF IInv, HandlersWellFormed
<1>5. HandlersOwnRows'
  BY <1>2, <1>3 DEF IInv, HandlersOwnRows, BoundTo
<1>6. RowsHaveOwners' /\ StatesAreFresh' /\ HistoryIsDurable'
  BY <1>3, TableUnchanged
<1>7. TypeOK'
  BY <1>2, <1>3 DEF IInv, TypeOK, NullifiersType
<1> QED BY <1>4, <1>5, <1>6, <1>7 DEF IInv

\* A charge that passes the cap of the endpoint is within the proved bound, or is
\* an ordinary charge of a proxied request under inverted caps.
LEMMA CapWithinBound ==
  ASSUME NEW r \in ApiRequests, NEW k \in ReservationKind, NEW c \in Nat, NEW p,
         r.bound >= RequiredSolvency, c <= ChargeCap(r, k, p)
  PROVE  c <= r.bound \/ (CapsInverted /\ k = "proxy" /\ c <= RequestCap)
BY RequestFields, CapsAssumption
DEF ChargeCap, RequiredSolvency, CapsInverted, ReservationKind

\* The UPDATE finalizes the row of the request that owns it, within its bound and
\* with a state nobody has seen, and keeps what is known of all rows.
LEMMA StoredInv ==
  ASSUME IInv, NEW r \in ApiRequests, NEW n \in Nullifiers, n = r.nullifier,
         NEW k \in ReservationKind, BoundTo(n, r, k),
         NEW c \in Nat, NEW p, FinalizeStored(r, c, p),
         NEW reply \in Reply, reply.nullifier = n, reply.charge = c, reply.state = nextState + 1,
         replies' \in {replies, replies \cup {reply}}, UNCHANGED <<upstream, cleared>>
  PROVE  /\ NullifiersType' /\ nextState' \in 0..MaxStates /\ replies' \subseteq Reply
         /\ RowsHaveOwners' /\ StatesAreFresh' /\ HistoryIsDurable'
         /\ \A m \in Nullifiers : \A s, j : BoundTo(m, s, j) => BoundTo(m, s, j)'
<1>1. /\ c <= ChargeCap(r, nullifiers[n].kind, p) /\ nullifiers[n].kind = k
      /\ nullifiers[n].binding = api_request_binding(r)
      /\ nullifiers[n].status = "Reserved"
      /\ nextState < MaxStates /\ nextState' = nextState + 1
      /\ finalize(r, c, nextState + 1)
  BY DEF FinalizeStored, CanFinalize, BoundTo
<1>2. nextState \in Nat /\ nextState + 1 \in Nat /\ nextState' \in 0..MaxStates
  BY <1>1, BoundsAssumption DEF IInv, TypeOK
<1>3. /\ nullifiers' \in [Nullifiers -> TranscriptRecord]
      /\ \A m \in Nullifiers : m # n => nullifiers'[m] = nullifiers[m]
      /\ nullifiers'[n].status = "Finalized"
      /\ nullifiers'[n].charge = c /\ nullifiers'[n].state = nextState + 1
      /\ nullifiers'[n].kind = nullifiers[n].kind
      /\ nullifiers'[n].client = nullifiers[n].client
      /\ nullifiers'[n].binding = nullifiers[n].binding
  BY <1>1, <1>2, FinalizeEffect DEF IInv, TypeOK
<1>4. \A m \in Nullifiers : \A s, j : BoundTo(m, s, j) => BoundTo(m, s, j)'
  BY <1>3 DEF BoundTo
<1>5. RowsHaveOwners'
  <2>1. PICK q \in ApiRequests :
          /\ q.nullifier = n /\ q.bound >= RequiredSolvency
          /\ nullifiers[n].client = q.client /\ nullifiers[n].binding = api_request_binding(q)
    BY <1>1 DEF IInv, RowsHaveOwners
  <2>2. q = r
    BY <1>1, <2>1, BindingInjective
  <2>3. ChargeCovered(nullifiers'[n], q)
    BY <1>1, <1>3, <2>1, <2>2, CapWithinBound DEF ChargeCovered
  <2> QED BY <1>3, <2>1, <2>3 DEF IInv, RowsHaveOwners
<1>6. StatesAreFresh'
  <2>1. \A m \in Nullifiers : nullifiers[m].state \in Nat
    BY DEF IInv, TypeOK, NullifiersType, TranscriptRecord
  <2> QED BY <1>1, <1>2, <1>3, <2>1 DEF IInv, StatesAreFresh
<1>7. HistoryIsDurable'
  <2>1. \A q \in upstream' : BoundTo(q.nullifier, q, "proxy")'
    BY <1>4, RequestFields DEF IInv, TypeOK, HistoryIsDurable
  <2>2. \A m \in cleared' : nullifiers'[m].status = "ClearanceReserved"
    BY <1>1, <1>3 DEF IInv, TypeOK, HistoryIsDurable
  <2>3. \A x \in replies' :
          /\ nullifiers'[x.nullifier].status = "Finalized"
          /\ x.charge = nullifiers'[x.nullifier].charge
          /\ x.state = nullifiers'[x.nullifier].state
    <3>1. \A x \in replies : x.nullifier \in Nullifiers /\ x.nullifier # n
      BY <1>1 DEF IInv, TypeOK, HistoryIsDurable, Reply
    <3> QED BY <1>3, <3>1 DEF IInv, HistoryIsDurable
  <2> QED BY <2>1, <2>2, <2>3 DEF HistoryIsDurable
<1>8. NullifiersType' /\ replies' \subseteq Reply
  BY <1>3 DEF IInv, TypeOK, NullifiersType
<1> QED BY <1>2, <1>4, <1>5, <1>6, <1>7, <1>8

\* finalize_request stores the transcript of its own request and returns, or
\* changes nothing.
LEMMA FinalizeInv ==
  ASSUME IInv, NEW w \in Workers, finalize_request(w)
  PROVE  IInv'
<1> DEFINE r == Req(w)
           n == r.nullifier
           p == handler[w].response
           reply == [nullifier |-> n, client |-> r.client, charge |-> p.charge,
                     state |-> nextState + 1]
<1>1. r \in ApiRequests /\ p \in ProviderResponse /\ BoundTo(n, r, "proxy")
  BY DEF IInv, HandlersWellFormed, HandlersOwnRows, Req, finalize_request
<1>2. n \in Nullifiers /\ r.client \in ClientIds /\ p.charge \in Nat
  BY <1>1, RequestFields, CapsAssumption DEF ProviderResponse
<1>3. CASE FinalizeRefused(r, p.charge, p.policy) /\ UNCHANGED replies
  BY <1>3, QuietReturn DEF finalize_request, FinalizeRefused
<1>4. CASE FinalizeStored(r, p.charge, p.policy) /\ Deliver(reply)
  <2>1. Return(w) /\ UNCHANGED <<root, now, crashes, upstream, cleared>>
    BY DEF finalize_request
  <2>2. reply \in Reply /\ replies' \in {replies, replies \cup {reply}}
    <3>1. nextState + 1 \in Nat
      BY DEF IInv, TypeOK
    <3> QED BY <1>2, <1>4, <3>1 DEF Reply, Deliver
  <2>3. /\ reply.nullifier = n /\ reply.charge = p.charge /\ reply.state = nextState + 1
        /\ "proxy" \in ReservationKind
    BY DEF ReservationKind
  <2>4. /\ NullifiersType' /\ nextState' \in 0..MaxStates /\ replies' \subseteq Reply
        /\ RowsHaveOwners' /\ StatesAreFresh' /\ HistoryIsDurable'
        /\ \A m \in Nullifiers : \A s, j : BoundTo(m, s, j) => BoundTo(m, s, j)'
    <3> HIDE DEF reply, p, r
    <3> QED BY <1>1, <1>2, <1>4, <2>1, <2>2, <2>3, StoredInv
  <2>5. /\ handler' \in [Workers -> Handler]
        /\ \A v \in Workers : v # w => handler'[v] = handler[v]
        /\ handler'[w].pc = "idle" /\ handler'[w].kind = "proxy"
    BY <2>1, ReturnEffect, IdleHandler DEF IInv, TypeOK
  <2>6. TypeOK'
    BY <2>1, <2>4, <2>5 DEF IInv, TypeOK
  <2>7. HandlersWellFormed'
    BY <2>5 DEF IInv, HandlersWellFormed
  <2>8. HandlersOwnRows'
    <3>1. ASSUME NEW v \in Workers, NEW q, q = handler[v].request, NEW k, k = handler[v].kind,
                 handler[v].pc \in {"execute", "await", "finalize", "issue"}
          PROVE  BoundTo(q.nullifier, q, k)'
      <4>1. BoundTo(q.nullifier, q, k) /\ q \in ApiRequests
        BY <3>1 DEF IInv, HandlersOwnRows, HandlersWellFormed
      <4> QED BY <2>4, <4>1, RequestFields
    <3> QED BY <2>5, <3>1 DEF IInv, HandlersOwnRows, BoundTo
  <2> QED BY <2>4, <2>6, <2>7, <2>8 DEF IInv
<1> QED BY <1>3, <1>4 DEF finalize_request

\* A clearance starts where it needs nothing of the table.
LEMMA PostClearanceInv ==
  ASSUME IInv, NEW w \in Workers, NEW n \in Nullifiers, PostClearance(w, n)
  PROVE  IInv'
<1>1. /\ handler' \in [Workers -> Handler]
      /\ \A v \in Workers : v # w => handler'[v] = handler[v]
      /\ handler'[w].pc = "clear_lookup" /\ handler'[w].kind = "proxy"
      /\ handler'[w].clearing = n
  BY DEF IInv, TypeOK, Handler, PostClearance, Idle, PC, ReservationKind
<1>2. UNCHANGED <<nullifiers, root, now, nextState, crashes, upstream, replies, cleared>>
  BY DEF PostClearance
<1>3. HandlersWellFormed'
  BY <1>1 DEF IInv, HandlersWellFormed
<1>4. HandlersOwnRows'
  BY <1>1, <1>2 DEF IInv, HandlersOwnRows, BoundTo
<1>5. RowsHaveOwners' /\ StatesAreFresh' /\ HistoryIsDurable'
  BY <1>2, TableUnchanged
<1>6. TypeOK'
  BY <1>1, <1>2 DEF IInv, TypeOK, NullifiersType
<1> QED BY <1>3, <1>4, <1>5, <1>6 DEF IInv

\* A clearance is signed again only for a row that says so.
LEMMA ClearLookupInv ==
  ASSUME IInv, NEW w \in Workers, process_clearance_lookup(w)
  PROVE  IInv'
<1> DEFINE n == handler[w].clearing
<1>1. /\ n \in Nullifiers /\ handler[w].kind = "proxy"
      /\ UNCHANGED <<nullifiers, root, now, nextState, crashes, upstream, replies>>
  BY DEF IInv, HandlersWellFormed, process_clearance_lookup
<1>2. CASE Return(w) /\ UNCHANGED cleared
  BY <1>1, <1>2, QuietReturn
<1>3. CASE Goto(w, "clear_reserve") /\ UNCHANGED cleared
  BY <1>1, <1>3, QuietGoto DEF PC
<1>4. CASE /\ nullifiers[n].status = "ClearanceReserved"
           /\ DeliverClearance(n) /\ Return(w)
  <2>1. handler' \in [Workers -> Handler] /\ HandlersWellFormed' /\ HandlersOwnRows'
    BY <1>1, <1>4, ReturnEffect, ReturnKeepsHandlers DEF IInv, TypeOK
  <2>2. RowsHaveOwners' /\ StatesAreFresh' /\ HistoryIsDurable'
    BY <1>1, <1>4, TableUnchanged DEF DeliverClearance
  <2>3. TypeOK'
    BY <1>1, <1>4, <2>1 DEF IInv, TypeOK, NullifiersType, DeliverClearance
  <2> QED BY <2>1, <2>2, <2>3 DEF IInv
<1> QED BY <1>2, <1>3, <1>4 DEF process_clearance_lookup

\* The INSERT of a clearance takes an unused nullifier, or refuses.
LEMMA ClearInsertInv ==
  ASSUME IInv, NEW w \in Workers, process_clearance_insert(w)
  PROVE  IInv'
<1> DEFINE n == handler[w].clearing
<1>1. /\ n \in Nullifiers /\ Return(w)
      /\ UNCHANGED <<root, now, nextState, crashes, upstream, replies>>
  BY DEF IInv, HandlersWellFormed, process_clearance_insert
<1>2. CASE ~CanInsert(n)
  BY <1>1, <1>2, QuietReturn DEF process_clearance_insert
<1>3. CASE CanInsert(n)
  <2>1. /\ nullifiers[n].status = "Absent" /\ reserve_clearance(n)
        /\ cleared' \in {cleared, cleared \cup {n}}
    BY <1>3 DEF process_clearance_insert, CanInsert, HasRow, DeliverClearance
  <2>2. /\ nullifiers' \in [Nullifiers -> TranscriptRecord]
        /\ \A m \in Nullifiers : m # n => nullifiers'[m] = nullifiers[m]
        /\ nullifiers'[n].status = "ClearanceReserved"
        /\ nullifiers'[n].charge = 0 /\ nullifiers'[n].state = 0
    BY <1>1, <2>1, ClearanceEffect DEF IInv, TypeOK
  <2>3. /\ handler' \in [Workers -> Handler]
        /\ \A v \in Workers : v # w => handler'[v] = handler[v]
        /\ handler'[w].pc = "idle" /\ handler'[w].kind = "proxy"
    BY <1>1, ReturnEffect, IdleHandler DEF IInv, TypeOK
  <2>4. TypeOK'
    BY <1>1, <2>1, <2>2, <2>3 DEF IInv, TypeOK, NullifiersType
  <2>5. HandlersWellFormed'
    BY <2>3 DEF IInv, HandlersWellFormed
  <2>6. \A m \in Nullifiers : \A s, k : BoundTo(m, s, k) => BoundTo(m, s, k)'
    BY <2>1, <2>2 DEF BoundTo
  <2>7. HandlersOwnRows'
    <3>1. ASSUME NEW v \in Workers, NEW q, q = handler[v].request, NEW k, k = handler[v].kind,
                 handler[v].pc \in {"execute", "await", "finalize", "issue"}
          PROVE  BoundTo(q.nullifier, q, k)'
      <4>1. BoundTo(q.nullifier, q, k) /\ q \in ApiRequests
        BY <3>1 DEF IInv, HandlersOwnRows, HandlersWellFormed
      <4> QED BY <2>6, <4>1, RequestFields
    <3> QED BY <2>3, <3>1 DEF IInv, HandlersOwnRows, BoundTo
  <2>8. RowsHaveOwners'
    BY <2>2 DEF IInv, RowsHaveOwners
  <2>9. StatesAreFresh'
    BY <1>1, <2>1, <2>2 DEF IInv, TypeOK, StatesAreFresh
  <2>10. HistoryIsDurable'
    <3>1. \A q \in upstream' : BoundTo(q.nullifier, q, "proxy")'
      BY <1>1, <2>6, RequestFields DEF IInv, TypeOK, HistoryIsDurable
    <3>2. \A m \in cleared' : nullifiers'[m].status = "ClearanceReserved"
      BY <2>1, <2>2 DEF IInv, TypeOK, HistoryIsDurable
    <3>3. \A x \in replies' :
            /\ nullifiers'[x.nullifier].status = "Finalized"
            /\ x.charge = nullifiers'[x.nullifier].charge
            /\ x.state = nullifiers'[x.nullifier].state
      <4>1. \A x \in replies : x.nullifier \in Nullifiers /\ x.nullifier # n
        BY <2>1 DEF IInv, TypeOK, HistoryIsDurable, Reply
      <4> QED BY <1>1, <2>2, <4>1 DEF IInv, HistoryIsDurable
    <3> QED BY <3>1, <3>2, <3>3 DEF HistoryIsDurable
  <2> QED BY <2>4, <2>5, <2>7, <2>8, <2>9, <2>10 DEF IInv
<1> QED BY <1>2, <1>3

\* Recovery returns what the table says.
LEMMA RecoverInv ==
  ASSUME IInv, NEW n \in Nullifiers, Recover(n)
  PROVE  IInv'
<1>1. /\ nullifiers[n].status = "Finalized"
      /\ Deliver(ResponseFromRecord(n, nullifiers[n].client))
      /\ UNCHANGED <<nullifiers, root, now, handler, nextState, crashes, upstream, cleared>>
  BY DEF Recover
<1>2. nullifiers[n].client \in ClientIds
  BY <1>1, RequestFields DEF IInv, RowsHaveOwners
<1>3. HandlersWellFormed' /\ HandlersOwnRows'
  BY <1>1 DEF IInv, HandlersWellFormed, HandlersOwnRows, BoundTo
<1>4. RowsHaveOwners' /\ StatesAreFresh' /\ HistoryIsDurable'
  BY <1>1, <1>2, ReplyFromRecord, TableUnchanged DEF Deliver
<1>5. TypeOK'
  BY <1>1, <1>2, ReplyFromRecord DEF IInv, TypeOK, NullifiersType, Deliver
<1> QED BY <1>3, <1>4, <1>5 DEF IInv

\* The poller, the clock and a crash leave the table and the histories alone.
LEMMA EnvironmentInv ==
  ASSUME IInv, (\E r \in Roots : update_root(r)) \/ Tick \/ CrashRestart
  PROVE  IInv'
<1>1. UNCHANGED <<nullifiers, nextState, upstream, replies, cleared>>
  BY DEF update_root, Tick, CrashRestart
<1>2. RowsHaveOwners' /\ StatesAreFresh' /\ HistoryIsDurable'
  BY <1>1, TableUnchanged
<1>3. CASE UNCHANGED handler
  <2>1. HandlersWellFormed' /\ HandlersOwnRows'
    BY <1>1, <1>3 DEF IInv, HandlersWellFormed, HandlersOwnRows, BoundTo
  <2>2. root' \in Roots /\ now' \in 0..MaxNow /\ crashes' \in 0..MaxCrashes
    BY BoundsAssumption DEF IInv, TypeOK, update_root, Tick, CrashRestart
  <2>3. TypeOK'
    BY <1>1, <1>3, <2>2 DEF IInv, TypeOK, NullifiersType
  <2> QED BY <1>2, <2>1, <2>3 DEF IInv
<1>4. CASE CrashRestart
  <2>1. Idle \in Handler
    BY DEF Idle, Handler, PC, ReservationKind
  <2>2. \A w \in Workers : handler'[w] = Idle
    BY <1>4 DEF CrashRestart
  <2>3. HandlersWellFormed' /\ HandlersOwnRows'
    BY <2>2, IdleHandler DEF HandlersWellFormed, HandlersOwnRows
  <2>4. TypeOK'
    BY <1>1, <1>4, <2>1, BoundsAssumption DEF IInv, TypeOK, NullifiersType, CrashRestart
  <2> QED BY <1>2, <2>3, <2>4 DEF IInv
<1> QED BY <1>3, <1>4 DEF update_root, Tick

-----------------------------------------------------------------------------
(* The theorems *)

\* Every step of the proxy, clearance and recovery endpoints preserves IInv.
LEMMA ServeInv == IInv /\ Serve => IInv'
<1> SUFFICES ASSUME IInv, Serve PROVE IInv'
  OBVIOUS
<1>1. ASSUME NEW w \in Workers, HandlerStep(w) PROVE IInv'
  BY <1>1, LookupInv, ChecksInv, InsertInv, SendUpstreamInv, FinalizeInv, ClearLookupInv,
     ClearInsertInv DEF HandlerStep
<1>2. ASSUME NEW w \in Workers, NEW r \in ApiRequests, PostRequest(w, r) PROVE IInv'
  BY <1>2, ArriveInv DEF PostRequest, ReservationKind
<1>3. ASSUME NEW w \in Workers, NEW c \in Charges, NEW p \in BOOLEAN, ProviderAnswers(w, c, p)
      PROVE  IInv'
  BY <1>3, ProviderAnswersInv
<1>4. ASSUME NEW w \in Workers, ProviderFails(w) PROVE IInv'
  BY <1>4, QuietReturn DEF ProviderFails
<1>5. ASSUME NEW w \in Workers, NEW n \in Nullifiers, PostClearance(w, n) PROVE IInv'
  BY <1>5, PostClearanceInv
<1>6. ASSUME NEW n \in Nullifiers, Recover(n) PROVE IInv'
  BY <1>6, RecoverInv
<1>7. CASE \E r \in Roots : update_root(r)
  BY <1>7, EnvironmentInv
<1> QED
  BY <1>1, <1>2, <1>3, <1>4, <1>5, <1>6, <1>7
  DEF Serve, recover_by_nullifier, recover_by_client_id

\* Every step of the server, whoever takes it, preserves IInv.
LEMMA NextInv == IInv /\ [Next]_vars => IInv'
<1> SUFFICES ASSUME IInv, [Next]_vars PROVE IInv'
  OBVIOUS
<1>1. CASE UNCHANGED vars
  <2>1. HandlersWellFormed' /\ HandlersOwnRows' /\ TypeOK'
    BY <1>1 DEF IInv, vars, TypeOK, NullifiersType, HandlersWellFormed, HandlersOwnRows, BoundTo
  <2>2. RowsHaveOwners' /\ StatesAreFresh' /\ HistoryIsDurable'
    BY <1>1, TableUnchanged DEF vars
  <2> QED BY <2>1, <2>2 DEF IInv
<1> QED BY <1>1, ServeInv, EnvironmentInv DEF Next

\* IInv holds in every reachable state of the request processor, for any
\* number of handlers, requests, roots and crashes.
THEOREM Invariance == Spec => []IInv
<1>1. Init => IInv
  BY InitInv
<1>2. IInv /\ [Next]_vars => IInv'
  BY NextInv
<1> QED BY <1>1, <1>2, PTL DEF Spec

\* The variables keep their types: in particular every row of the table is a
\* well-formed TranscriptRecord and every reply a well-formed response.
THEOREM TypeCorrect == Spec => []TypeOK
<1>1. IInv => TypeOK
  BY DEF IInv
<1> QED BY <1>1, Invariance, PTL

\* What IInv says about service, closing, successors and charges, whichever
\* endpoints run beside each other.
LEMMA SafeAccounts ==
  IInv => NoDoubleService /\ CloseExcludesSpend /\ OneNextState /\ ChargeWithinProof
<1> SUFFICES ASSUME IInv
             PROVE  NoDoubleService /\ CloseExcludesSpend /\ OneNextState /\ ChargeWithinProof
  OBVIOUS
<1>1. NoDoubleService
  BY BindingInjective DEF IInv, HistoryIsDurable, BoundTo, NoDoubleService
<1>2. CloseExcludesSpend
  BY DEF IInv, HistoryIsDurable, CloseExcludesSpend
<1>3. OneNextState
  <2>1. \A x \in replies : x.nullifier \in Nullifiers
    BY DEF IInv, TypeOK, Reply
  <2> QED BY <2>1 DEF IInv, HistoryIsDurable, StatesAreFresh, OneNextState
<1>4. ChargeWithinProof
  <2> SUFFICES ASSUME NEW n \in Nullifiers, nullifiers[n].status = "Finalized"
               PROVE  \E r \in ApiRequests :
                        /\ r.nullifier = n
                        /\ nullifiers[n].binding = api_request_binding(r)
                        /\ ChargeCovered(nullifiers[n], r)
    BY DEF ChargeWithinProof
  <2> QED BY DEF IInv, RowsHaveOwners
<1> QED BY <1>1, <1>2, <1>3, <1>4

\* The paid upstream never serves two requests for one nullifier, nor one whose
\* clearance was handed out: the row a handler owns when it calls the upstream
\* is durable and names its request.
THEOREM NeverServedTwice == Spec => []NoDoubleService
<1>1. IInv => NoDoubleService
  BY SafeAccounts
<1> QED BY <1>1, Invariance, PTL

\* A nullifier whose clearance a caller holds is closed for good and has no
\* response.
THEOREM ClosedOrSpent == Spec => []CloseExcludesSpend
<1>1. IInv => CloseExcludesSpend
  BY SafeAccounts
<1> QED BY <1>1, Invariance, PTL

\* A note state has exactly one successor, whichever endpoint returns it.
THEOREM UniqueSuccessor == Spec => []OneNextState
<1>1. IInv => OneNextState
  BY SafeAccounts
<1> QED BY <1>1, Invariance, PTL

\* Under every configuration no accepted charge exceeds the solvency bound the
\* client's proof carries, except an ordinary one under inverted caps, which
\* request_charge_cap still limits.
THEOREM ChargesAreCovered == Spec => []ChargeWithinProof
<1>1. IInv => ChargeWithinProof
  BY SafeAccounts
<1> QED BY <1>1, Invariance, PTL

\* The exception of ChargesAreCovered is exact: the caps that finalize_request
\* applies to a proof of the least bound validate_and_reserve accepts stay within
\* that bound if, and only if, the caps of the configuration are not inverted.
THEOREM CapsDecideCoverage ==
  ASSUME NEW r, r.bound = RequiredSolvency
  PROVE  (\A policy \in BOOLEAN : ChargeCap(r, "proxy", policy) <= r.bound) <=> ~CapsInverted
<1>1. RequestCap \in Nat /\ PolicyCap \in Nat
  BY CapsAssumption
<1>2. CASE PolicyEnabled
  <2>1. /\ ChargeCap(r, "proxy", FALSE) = RequestCap
        /\ \A policy \in BOOLEAN : ChargeCap(r, "proxy", policy) \in {PolicyCap, RequestCap}
    BY <1>2 DEF ChargeCap
  <2>2. r.bound = PolicyCap /\ (CapsInverted <=> PolicyCap < RequestCap)
    BY <1>2 DEF RequiredSolvency, CapsInverted
  <2>3. ASSUME ~CapsInverted, NEW policy \in BOOLEAN
        PROVE  ChargeCap(r, "proxy", policy) <= r.bound
    BY <1>1, <2>1, <2>2, <2>3
  <2>4. ASSUME CapsInverted PROVE ~(ChargeCap(r, "proxy", FALSE) <= r.bound)
    <3>1. ~(RequestCap <= r.bound)
      BY <1>1, <2>2, <2>4
    <3> QED BY <2>1, <3>1, Zenon
  <2> QED BY <2>3, <2>4, Zenon
<1>3. CASE ~PolicyEnabled
  <2>1. \A policy \in BOOLEAN : ChargeCap(r, "proxy", policy) = RequestCap
    BY <1>3 DEF ChargeCap
  <2>2. r.bound = RequestCap /\ ~CapsInverted
    BY <1>3 DEF RequiredSolvency, CapsInverted
  <2> QED BY <1>1, <2>1, <2>2
<1> QED BY <1>2, <1>3

-----------------------------------------------------------------------------
(* Every spent state can be challenged *)

\* A step that leaves the table and the requests sent alone keeps the archive.
LEMMA ArchiveKept ==
  ASSUME ArchiveIsServed, UNCHANGED nullifiers, upstream \subseteq upstream',
         \A w \in Workers : handler'[w].pc \in {"await", "finalize"} =>
           \/ handler[w].pc \in {"await", "finalize"} /\ handler'[w].request = handler[w].request
           \/ handler'[w].request \in upstream'
  PROVE  ArchiveIsServed'
BY DEF ArchiveIsServed, Req

\* A handler that returns, or moves to a place before the upstream call, does too.
LEMMA HandlerBefore ==
  ASSUME handler \in [Workers -> Handler], NEW w \in Workers, ArchiveIsServed,
         \/ Return(w)
         \/ \E pc \in PC \ {"await", "finalize"} : Goto(w, pc)
  PROVE  \A v \in Workers : handler'[v].pc \in {"await", "finalize"} =>
           handler[v].pc \in {"await", "finalize"} /\ handler'[v].request = handler[v].request
BY ReturnEffect, GotoEffect, IdleHandler DEF PC

\* The archive is written from a request that was sent, and never changes.
LEMMA ArchiveStep == IInv /\ ArchiveIsServed /\ [Next]_vars => ArchiveIsServed'
<1> SUFFICES ASSUME IInv, ArchiveIsServed, [Next]_vars PROVE ArchiveIsServed'
  OBVIOUS
<1>1. handler \in [Workers -> Handler] /\ nullifiers \in [Nullifiers -> TranscriptRecord]
  BY DEF IInv, TypeOK, NullifiersType
<1>2. ASSUME NEW w \in Workers,
             Return(w) \/ (\E pc \in PC \ {"await", "finalize"} : Goto(w, pc)),
             UNCHANGED <<nullifiers, upstream>>
      PROVE  ArchiveIsServed'
  BY <1>1, <1>2, HandlerBefore, ArchiveKept
<1>3. CASE UNCHANGED <<nullifiers, handler, upstream>>
  BY <1>3, ArchiveKept
<1>4. ASSUME NEW w \in Workers, validate_and_reserve_lookup(w) PROVE ArchiveIsServed'
  <2>1. AfterReserve(handler[w].kind) \in PC \ {"await", "finalize"}
    BY DEF AfterReserve, PC
  <2> QED BY <1>2, <1>4, <2>1
      DEF validate_and_reserve_lookup, ResumeFinalized, ResumeReserved, RefuseReplay, LookupMiss, PC
<1>5. ASSUME NEW w \in Workers, validate_and_reserve_checks(w) PROVE ArchiveIsServed'
  BY <1>2, <1>5 DEF validate_and_reserve_checks, PC
<1>6. ASSUME NEW w \in Workers, validate_and_reserve_insert(w) PROVE ArchiveIsServed'
  <2>1. /\ handler[w].kind \in ReservationKind /\ Req(w) \in ApiRequests
        /\ AfterReserve(handler[w].kind) \in PC \ {"await", "finalize"}
    BY <1>6, HandlerKind
    DEF IInv, HandlersWellFormed, Req, validate_and_reserve_insert, AfterReserve, PC
  <2>2. CASE UNCHANGED nullifiers
    BY <1>2, <1>6, <2>1, <2>2 DEF validate_and_reserve_insert
  <2>3. CASE reserve_with_kind(Req(w), handler[w].kind)
    <3>1. \A n \in Nullifiers : nullifiers'[n] = nullifiers[n] \/ nullifiers'[n].status = "Reserved"
      <4>1. /\ \A n \in Nullifiers : n # Req(w).nullifier => nullifiers'[n] = nullifiers[n]
            /\ nullifiers'[Req(w).nullifier] = ReservedRow(Req(w), handler[w].kind)
        BY <2>1, <2>3, ReserveEffect DEF IInv, TypeOK
      <4> QED BY <4>1 DEF ReservedRow
    <3>2. UNCHANGED upstream /\ (Goto(w, AfterReserve(handler[w].kind)) \/ Return(w))
      BY <1>6 DEF validate_and_reserve_insert
    <3>3. \A v \in Workers : handler'[v].pc \in {"await", "finalize"} =>
            handler[v].pc \in {"await", "finalize"} /\ handler'[v].request = handler[v].request
      BY <1>1, <2>1, <3>2, HandlerBefore
    <3> QED BY <3>1, <3>2, <3>3 DEF ArchiveIsServed, Req
  <2> QED BY <1>6, <2>1, <2>2, <2>3 DEF validate_and_reserve_insert
<1>7. ASSUME NEW w \in Workers, SendUpstream(w) PROVE ArchiveIsServed'
  <2>1. /\ \A v \in Workers : v # w => handler'[v] = handler[v]
        /\ handler'[w].request = Req(w)
    BY <1>1, <1>7, GotoEffect DEF SendUpstream, PC, Req
  <2> QED BY <1>7, <2>1, ArchiveKept DEF SendUpstream
<1>8. ASSUME NEW w \in Workers, finalize_request(w) PROVE ArchiveIsServed'
  <2> DEFINE r == Req(w)
             n == r.nullifier
             p == handler[w].response
  <2>1. CASE UNCHANGED nullifiers
    BY <1>2, <1>8, <2>1 DEF finalize_request
  <2>2. CASE FinalizeStored(r, p.charge, p.policy)
    <3>1. /\ r \in ApiRequests /\ n \in Nullifiers /\ p.charge \in Nat
          /\ r \in upstream /\ Return(w) /\ UNCHANGED upstream
      BY <1>8, RequestFields, CapsAssumption
      DEF IInv, HandlersWellFormed, Req, finalize_request, ProviderResponse, ArchiveIsServed
    <3>2. nextState + 1 \in Nat /\ finalize(r, p.charge, nextState + 1)
      BY <2>2 DEF FinalizeStored, IInv, TypeOK
    <3>3. /\ nullifiers'[n].archive = r
          /\ \A m \in Nullifiers : m # n => nullifiers'[m] = nullifiers[m]
      BY <3>1, <3>2, FinalizeEffect DEF IInv, TypeOK
    <3>4. \A v \in Workers : handler'[v].pc \in {"await", "finalize"} =>
            handler[v].pc \in {"await", "finalize"} /\ handler'[v].request = handler[v].request
      BY <1>1, <3>1, HandlerBefore
    <3>5. \A m \in Nullifiers : nullifiers'[m].status = "Finalized" =>
            nullifiers'[m].archive \in upstream' /\ nullifiers'[m].archive.nullifier = m
      BY <3>1, <3>3 DEF ArchiveIsServed
    <3> QED BY <3>1, <3>4, <3>5 DEF ArchiveIsServed, Req
  <2> QED BY <1>8, <2>1, <2>2 DEF finalize_request, FinalizeRefused
<1>9. ASSUME NEW w \in Workers, process_clearance_lookup(w) PROVE ArchiveIsServed'
  BY <1>2, <1>9 DEF process_clearance_lookup, PC
<1>10. ASSUME NEW w \in Workers, process_clearance_insert(w) PROVE ArchiveIsServed'
  <2>1. handler[w].clearing \in Nullifiers /\ Return(w) /\ UNCHANGED upstream
    BY <1>10 DEF IInv, HandlersWellFormed, process_clearance_insert
  <2>2. CASE UNCHANGED nullifiers
    BY <1>2, <2>1, <2>2
  <2>3. CASE reserve_clearance(handler[w].clearing)
    <3>1. \A n \in Nullifiers :
            nullifiers'[n] = nullifiers[n] \/ nullifiers'[n].status = "ClearanceReserved"
      BY <2>1, <2>3, ClearanceEffect DEF IInv, TypeOK
    <3>2. \A v \in Workers : handler'[v].pc \in {"await", "finalize"} =>
            handler[v].pc \in {"await", "finalize"} /\ handler'[v].request = handler[v].request
      BY <1>1, <2>1, HandlerBefore
    <3> QED BY <2>1, <3>1, <3>2 DEF ArchiveIsServed, Req
  <2> QED BY <1>10, <2>2, <2>3 DEF process_clearance_insert
<1>11. ASSUME NEW w \in Workers, NEW q \in Handler, handler' = [handler EXCEPT ![w] = q],
              q.pc \notin {"await", "finalize"}, UNCHANGED <<nullifiers, upstream>>
       PROVE  ArchiveIsServed'
  BY <1>1, <1>11, ArchiveKept
<1>12. ASSUME NEW w \in Workers, NEW r \in ApiRequests, PostRequest(w, r) PROVE ArchiveIsServed'
  <2>1. [Idle EXCEPT !.pc = "lookup", !.kind = "proxy", !.request = r] \in Handler
    BY DEF Idle, Handler, PC, ReservationKind
  <2> QED BY <1>11, <1>12, <2>1 DEF PostRequest, Arrive, Idle
<1>13. ASSUME NEW w \in Workers, NEW n \in Nullifiers, PostClearance(w, n) PROVE ArchiveIsServed'
  <2>1. [Idle EXCEPT !.pc = "clear_lookup", !.clearing = n] \in Handler
    BY DEF Idle, Handler, PC, ReservationKind
  <2> QED BY <1>11, <1>13, <2>1 DEF PostClearance, Idle
<1>14. ASSUME NEW w \in Workers, NEW c \in Charges, NEW p \in BOOLEAN, ProviderAnswers(w, c, p)
       PROVE  ArchiveIsServed'
  <2>1. /\ handler[w].pc = "await" /\ handler'[w].request = handler[w].request
        /\ \A v \in Workers : v # w => handler'[v] = handler[v]
    BY <1>1, <1>14 DEF ProviderAnswers, Handler
  <2> QED BY <1>14, <2>1, ArchiveKept DEF ProviderAnswers
<1>15. ASSUME NEW w \in Workers, ProviderFails(w) PROVE ArchiveIsServed'
  BY <1>2, <1>15 DEF ProviderFails
<1>16. CASE CrashRestart
  BY <1>16, IdleHandler, ArchiveKept DEF CrashRestart
<1> QED
  BY <1>3, <1>4, <1>5, <1>6, <1>7, <1>8, <1>9, <1>10, <1>12, <1>13, <1>14, <1>15, <1>16
  DEF Next, Serve, HandlerStep, vars, recover_by_nullifier, recover_by_client_id, Recover,
      update_root, Tick

\* Whatever handlers race, are lost or retried, a response in a caller's hands can be
\* answered with a challenge built from the request that was served, and a clearance
\* can not.
THEOREM EscapeFromSpentIsChallengeable == Spec => []SpentStateIsChallengeable
<1>1. Init => ArchiveIsServed
  BY IdleHandler DEF Init, NullifiersInit, NoRow, ArchiveIsServed
<1>2. IInv /\ ArchiveIsServed => SpentStateIsChallengeable
  <2> SUFFICES ASSUME IInv, ArchiveIsServed PROVE SpentStateIsChallengeable
    OBVIOUS
  <2>1. \A x \in replies : x.nullifier \in Nullifiers /\ nullifiers[x.nullifier].status = "Finalized"
    BY DEF IInv, TypeOK, Reply, HistoryIsDurable
  <2>2. \A q \in upstream : q # None
    BY NoneAssumption DEF IInv, TypeOK
  <2>3. \A n \in cleared : nullifiers[n].status = "ClearanceReserved"
    BY DEF IInv, HistoryIsDurable
  <2> QED BY <2>1, <2>2, <2>3
      DEF ArchiveIsServed, SpentStateIsChallengeable, build_challenge_action, finalized_transcript
<1>3. IInv /\ ArchiveIsServed /\ [Next]_vars => ArchiveIsServed'
  BY ArchiveStep
<1> QED BY <1>1, <1>2, <1>3, Invariance, PTL DEF Spec

-----------------------------------------------------------------------------
(* The table only moves forward *)

\* What a step may do to one row.
RowStep(n) ==
  LET old == nullifiers[n]
      new == nullifiers'[n]
  IN  \/ new = old
      \/ old.status = "Absent"
      \/ /\ old.status = "Reserved" /\ new.status = "Finalized"
         /\ new = [old EXCEPT !.status = new.status, !.charge = new.charge,
                              !.state = new.state, !.archive = new.archive]

\* The INSERTs write absent rows, the UPDATE a reserved one, and nothing else
\* writes the table.
LEMMA RowSteps == IInv /\ [Next]_vars => \A n \in Nullifiers : RowStep(n)
<1> SUFFICES ASSUME IInv, [Next]_vars, NEW n \in Nullifiers PROVE RowStep(n)
  OBVIOUS
<1>1. CASE UNCHANGED nullifiers
  BY <1>1 DEF RowStep
<1>2. ASSUME NEW w \in Workers, validate_and_reserve_insert(w) PROVE RowStep(n)
  BY <1>2 DEF validate_and_reserve_insert, reserve_with_kind, CanInsert, HasRow, RowStep,
              IInv, TypeOK, NullifiersType
<1>3. ASSUME NEW w \in Workers, process_clearance_insert(w) PROVE RowStep(n)
  BY <1>3 DEF process_clearance_insert, reserve_clearance, CanInsert, HasRow, RowStep,
              IInv, TypeOK, NullifiersType
<1>4. ASSUME NEW w \in Workers, finalize_request(w) PROVE RowStep(n)
  <2>1. CASE UNCHANGED nullifiers
    BY <2>1 DEF RowStep
  <2>2. CASE \E r, c, s : CanFinalize(r.nullifier) /\ finalize(r, c, s)
    <3>1. PICK r, c, s : CanFinalize(r.nullifier) /\ finalize(r, c, s)
      BY <2>2
    <3>2. CASE r.nullifier # n
      <4>1. nullifiers'[n] = nullifiers[n]
        BY <3>1, <3>2 DEF finalize, IInv, TypeOK, NullifiersType
      <4> QED BY <4>1 DEF RowStep
    <3>3. CASE r.nullifier = n
      <4>1. nullifiers[n] \in TranscriptRecord /\ nullifiers[n].status = "Reserved"
        BY <3>1, <3>3 DEF CanFinalize, IInv, TypeOK, NullifiersType
      <4>2. nullifiers'[n] = [nullifiers[n] EXCEPT !.status = "Finalized", !.charge = c,
                                                   !.state = s, !.archive = r]
        BY <3>1, <3>3 DEF finalize, IInv, TypeOK, NullifiersType
      <4>3. /\ nullifiers'[n].status = "Finalized" /\ nullifiers'[n].charge = c
            /\ nullifiers'[n].state = s /\ nullifiers'[n].archive = r
        BY <4>1, <4>2 DEF TranscriptRecord
      <4> QED BY <4>1, <4>2, <4>3 DEF RowStep
    <3> QED BY <3>2, <3>3
  <2> QED BY <1>4, <2>1, <2>2 DEF finalize_request, FinalizeStored, FinalizeRefused
<1> QED
  BY <1>1, <1>2, <1>3, <1>4
  DEF Next, Serve, HandlerStep, vars, validate_and_reserve_lookup, validate_and_reserve_checks,
      SendUpstream, process_clearance_lookup, PostRequest, ProviderAnswers, ProviderFails,
      PostClearance, recover_by_nullifier, recover_by_client_id, Recover, update_root, Tick,
      CrashRestart

\* No step rewrites a finalized or cleared row, or hands a reservation to
\* another request or endpoint.
THEOREM HistoryIsNeverRewritten == Spec => StoreOnlyMovesForward
<1>1. IInv /\ [Next]_vars => [\A n \in Nullifiers : RowStep(n)]_vars
  BY RowSteps
<1> QED BY <1>1, Invariance, PTL DEF Spec, StoreOnlyMovesForward, RowStep

-----------------------------------------------------------------------------
(* The processor implements SpendOnce *)

\* The refinement mapping: the fate of a nullifier, its outcome, and what
\* callers have learnt.
Ledger == [n \in Nullifiers |-> FateOf(nullifiers[n].status)]
Outcome == [n \in Nullifiers |->
              [charge |-> nullifiers[n].charge, state |-> nullifiers[n].state]]
Answered == {<<x.nullifier, [charge |-> x.charge, state |-> x.state]>> : x \in replies}

\* What each status maps to.
LEMMA Fates ==
  /\ FateOf("Absent") = "unused" /\ FateOf("Reserved") = "reserved"
  /\ FateOf("Finalized") = "spent" /\ FateOf("ClearanceReserved") = "closed"
BY DEF FateOf

\* A step that changes the status of one row changes the ledger there only.
LEMMA LedgerStep ==
  ASSUME NEW n \in Nullifiers, NEW f,
         \A m \in Nullifiers : m # n => nullifiers'[m] = nullifiers[m],
         FateOf(nullifiers'[n].status) = f
  PROVE  Ledger' = [Ledger EXCEPT ![n] = f]
BY DEF Ledger

\* The initial states map to initial states.
LEMMA PromiseInit == Init => Promise!Init
BY DEF Init, NullifiersInit, NoRow, FateOf, Promise!Init, Promise!NoOutcome

\* A step that changes neither the table nor the histories is a stutter.
LEMMA PromiseStutter ==
  ASSUME UNCHANGED <<nullifiers, replies, cleared>>
  PROVE  UNCHANGED Promise!vars
BY DEF Promise!vars

\* A reply read off a finalized row is the abstract Answer, or a stutter when
\* it is lost.
LEMMA PromiseAnswer ==
  ASSUME IInv, NEW n \in Nullifiers, NEW c \in ClientIds,
         nullifiers[n].status = "Finalized",
         Deliver(ResponseFromRecord(n, c)), UNCHANGED <<nullifiers, cleared>>
  PROVE  [Promise!Next]_Promise!vars
<1>1. CASE replies' = replies
  BY <1>1, PromiseStutter
<1>2. CASE replies' = replies \cup {ResponseFromRecord(n, c)}
  <2>1. Ledger[n] = "spent" /\ UNCHANGED <<Ledger, Outcome, cleared>>
    BY DEF Ledger, Outcome, FateOf
  <2>2. Answered' = Answered \cup {<<n, Outcome[n]>>}
    BY <1>2 DEF Answered, Outcome, ResponseFromRecord
  <2>3. Promise!Answer(n)
    BY <2>1, <2>2 DEF Promise!Answer, Ledger, Outcome, Answered
  <2> QED BY <2>3 DEF Promise!Next
<1> QED BY <1>1, <1>2 DEF Deliver

\* The INSERT of a reservation is the abstract Reserve.
LEMMA PromiseReserve ==
  ASSUME IInv, NEW w \in Workers, validate_and_reserve_insert(w)
  PROVE  [Promise!Next]_Promise!vars
<1> DEFINE r == Req(w)
           n == r.nullifier
           kind == handler[w].kind
<1>1. r \in ApiRequests /\ n \in Nullifiers /\ kind \in ReservationKind
  BY RequestFields, HandlerKind DEF IInv, HandlersWellFormed, Req, validate_and_reserve_insert
<1>2. CASE UNCHANGED nullifiers
  BY <1>2, PromiseStutter DEF validate_and_reserve_insert
<1>3. CASE CanInsert(n) /\ reserve_with_kind(r, kind)
  <2>1. /\ \A m \in Nullifiers : m # n => nullifiers'[m] = nullifiers[m]
        /\ nullifiers'[n] = ReservedRow(r, kind)
        /\ nullifiers[n].status = "Absent" /\ UNCHANGED <<replies, cleared>>
    BY <1>1, <1>3, ReserveEffect
    DEF IInv, TypeOK, CanInsert, HasRow, validate_and_reserve_insert
  <2>2. nullifiers'[n].status = "Reserved" /\ nullifiers'[n].charge = 0 /\ nullifiers'[n].state = 0
    BY <2>1 DEF ReservedRow
  <2>3. nullifiers[n].charge = 0 /\ nullifiers[n].state = 0
    BY <1>1, <2>1 DEF IInv, StatesAreFresh
  <2>4. Ledger[n] = "unused" /\ Ledger' = [Ledger EXCEPT ![n] = "reserved"]
    BY <1>1, <2>1, <2>2, Fates, LedgerStep DEF Ledger
  <2>5. Outcome' = Outcome /\ Answered' = Answered
    BY <1>1, <2>1, <2>2, <2>3 DEF Outcome, Answered
  <2>6. Promise!Reserve(n)
    BY <2>1, <2>4, <2>5 DEF Promise!Reserve, Ledger, Outcome, Answered
  <2> QED BY <1>1, <2>6 DEF Promise!Next
<1> QED BY <1>1, <1>2, <1>3 DEF validate_and_reserve_insert

\* An unused outcome for a reserved nullifier is the abstract Spend.
LEMMA SpendStep ==
  ASSUME NEW n \in Nullifiers, NEW c \in Charges, NEW s \in 1..MaxStates,
         Ledger[n] = "reserved", \A m \in Nullifiers : Outcome[m].state # s,
         Ledger' = [Ledger EXCEPT ![n] = "spent"],
         Outcome' = [Outcome EXCEPT ![n] = [charge |-> c, state |-> s]],
         Answered' \in {Answered, Answered \cup {<<n, [charge |-> c, state |-> s]>>}},
         UNCHANGED cleared
  PROVE  Promise!Next
<1>1. Promise!Spend(n, [charge |-> c, state |-> s])
  BY DEF Promise!Spend, Ledger, Outcome, Answered
<1>2. [charge |-> c, state |-> s] \in [charge : Charges, state : 1..MaxStates]
  OBVIOUS
<1> QED BY <1>1, <1>2, Zenon DEF Promise!Next

\* The UPDATE is the abstract Spend, with an outcome no other row has.
LEMMA PromiseSpend ==
  ASSUME IInv, NEW w \in Workers, finalize_request(w)
  PROVE  [Promise!Next]_Promise!vars
<1> DEFINE r == Req(w)
           n == r.nullifier
           p == handler[w].response
           reply == [nullifier |-> n, client |-> r.client, charge |-> p.charge,
                     state |-> nextState + 1]
           o == [charge |-> p.charge, state |-> nextState + 1]
<1>1. r \in ApiRequests /\ n \in Nullifiers /\ p \in ProviderResponse
  BY RequestFields DEF IInv, HandlersWellFormed, Req, finalize_request
<1>2. p.charge \in Charges /\ p.charge \in Nat
  BY <1>1, CapsAssumption DEF ProviderResponse
<1>3. CASE FinalizeRefused(r, p.charge, p.policy) /\ UNCHANGED replies
  BY <1>3, PromiseStutter DEF finalize_request, FinalizeRefused
<1>4. CASE FinalizeStored(r, p.charge, p.policy) /\ Deliver(reply)
  <2>1. /\ nullifiers[n].status = "Reserved" /\ nextState < MaxStates
        /\ finalize(r, p.charge, nextState + 1)
        /\ replies' \in {replies, replies \cup {reply}} /\ UNCHANGED cleared
    BY <1>4 DEF FinalizeStored, CanFinalize, finalize_request, Deliver
  <2>2. nextState + 1 \in Nat /\ nextState + 1 \in 1..MaxStates
    BY <2>1, BoundsAssumption DEF IInv, TypeOK
  <2>3. /\ \A m \in Nullifiers : m # n => nullifiers'[m] = nullifiers[m]
        /\ nullifiers'[n].status = "Finalized"
        /\ nullifiers'[n].charge = p.charge /\ nullifiers'[n].state = nextState + 1
    BY <1>1, <1>2, <2>1, <2>2, FinalizeEffect DEF IInv, TypeOK
  <2>4. Ledger[n] = "reserved" /\ Ledger' = [Ledger EXCEPT ![n] = "spent"]
    BY <1>1, <2>1, <2>3, Fates, LedgerStep DEF Ledger
  <2>5. Outcome' = [Outcome EXCEPT ![n] = o]
    BY <1>1, <2>3 DEF Outcome
  <2>6. \A m \in Nullifiers : Outcome[m].state # nextState + 1
    <3>1. nextState \in Nat
      BY DEF IInv, TypeOK
    <3>2. ASSUME NEW m \in Nullifiers PROVE nullifiers[m].state # nextState + 1
      <4>1. nullifiers[m].state \in Nat
        BY DEF IInv, TypeOK, NullifiersType, TranscriptRecord
      <4>2. nullifiers[m].state <= nextState
        BY DEF IInv, StatesAreFresh
      <4> QED BY <3>1, <4>1, <4>2
    <3>3. \A m \in Nullifiers : Outcome[m].state = nullifiers[m].state
      BY DEF Outcome
    <3> QED BY <3>2, <3>3
  <2>7. Answered' \in {Answered, Answered \cup {<<n, o>>}}
    BY <2>1 DEF Answered
  <2> QED BY <1>1, <1>2, <2>1, <2>2, <2>4, <2>5, <2>6, <2>7, SpendStep
<1> QED BY <1>3, <1>4 DEF finalize_request

\* Signing a clearance again is the abstract Release.
LEMMA PromiseRelease ==
  ASSUME IInv, NEW w \in Workers, process_clearance_lookup(w)
  PROVE  [Promise!Next]_Promise!vars
<1> DEFINE n == handler[w].clearing
<1>1. n \in Nullifiers /\ UNCHANGED <<nullifiers, replies>>
  BY DEF IInv, HandlersWellFormed, process_clearance_lookup
<1>2. CASE UNCHANGED cleared
  BY <1>1, <1>2, PromiseStutter
<1>3. CASE nullifiers[n].status = "ClearanceReserved" /\ cleared' = cleared \cup {n}
  <2>1. Ledger[n] = "closed" /\ UNCHANGED <<Ledger, Outcome, Answered>>
    BY <1>1, <1>3, Fates DEF Ledger, Outcome, Answered
  <2>2. Promise!Release(n)
    BY <1>3, <2>1 DEF Promise!Release, Ledger, Outcome, Answered
  <2> QED BY <1>1, <2>2 DEF Promise!Next
<1> QED BY <1>2, <1>3 DEF process_clearance_lookup, DeliverClearance

\* The INSERT of a clearance is the abstract Close.
LEMMA PromiseClose ==
  ASSUME IInv, NEW w \in Workers, process_clearance_insert(w)
  PROVE  [Promise!Next]_Promise!vars
<1> DEFINE n == handler[w].clearing
<1>1. n \in Nullifiers /\ UNCHANGED replies
  BY DEF IInv, HandlersWellFormed, process_clearance_insert
<1>2. CASE UNCHANGED <<nullifiers, cleared>>
  BY <1>1, <1>2, PromiseStutter
<1>3. CASE CanInsert(n) /\ reserve_clearance(n) /\ DeliverClearance(n)
  <2>1. /\ \A m \in Nullifiers : m # n => nullifiers'[m] = nullifiers[m]
        /\ nullifiers'[n].status = "ClearanceReserved"
        /\ nullifiers'[n].state = 0 /\ nullifiers'[n].charge = 0
        /\ nullifiers[n].status = "Absent"
        /\ cleared' \in {cleared, cleared \cup {n}}
    BY <1>1, <1>3, ClearanceEffect DEF IInv, TypeOK, CanInsert, HasRow, DeliverClearance
  <2>2. nullifiers[n].charge = 0 /\ nullifiers[n].state = 0
    BY <1>1, <2>1 DEF IInv, StatesAreFresh
  <2>3. Ledger[n] = "unused" /\ Ledger' = [Ledger EXCEPT ![n] = "closed"]
    BY <1>1, <2>1, Fates, LedgerStep DEF Ledger
  <2>4. Outcome' = Outcome /\ Answered' = Answered
    BY <1>1, <2>1, <2>2 DEF Outcome, Answered
  <2>5. Promise!Close(n)
    BY <2>1, <2>3, <2>4 DEF Promise!Close, Ledger, Outcome, Answered
  <2> QED BY <1>1, <2>5 DEF Promise!Next
<1> QED BY <1>2, <1>3 DEF process_clearance_insert

\* Every step of the server is a step of SpendOnce, or a stutter.
LEMMA PromiseNext == IInv /\ [Next]_vars => [Promise!Next]_Promise!vars
<1> SUFFICES ASSUME IInv, [Next]_vars PROVE [Promise!Next]_Promise!vars
  OBVIOUS
<1>1. CASE UNCHANGED <<nullifiers, replies, cleared>>
  BY <1>1, PromiseStutter
<1>2. ASSUME NEW w \in Workers, ResumeFinalized(w), UNCHANGED <<nullifiers, cleared>>
      PROVE  [Promise!Next]_Promise!vars
  <2>1. Req(w) \in ApiRequests
    BY <1>2 DEF IInv, HandlersWellFormed, Req, ResumeFinalized
  <2> QED BY <1>1, <1>2, <2>1, RequestFields, PromiseAnswer DEF ResumeFinalized
<1>3. ASSUME NEW n \in Nullifiers, Recover(n) PROVE [Promise!Next]_Promise!vars
  <2>1. nullifiers[n].client \in ClientIds
    BY <1>3, RequestFields DEF IInv, RowsHaveOwners, Recover
  <2> QED BY <1>3, <2>1, PromiseAnswer DEF Recover
<1>4. ASSUME NEW w \in Workers, HandlerStep(w) PROVE [Promise!Next]_Promise!vars
  BY <1>1, <1>2, <1>4, PromiseReserve, PromiseSpend, PromiseRelease, PromiseClose
  DEF HandlerStep, validate_and_reserve_lookup, ResumeReserved, RefuseReplay, LookupMiss,
      validate_and_reserve_checks, SendUpstream
<1> QED
  BY <1>1, <1>3, <1>4
  DEF Next, Serve, vars, PostRequest, ProviderAnswers, ProviderFails, PostClearance,
      recover_by_nullifier, recover_by_client_id, update_root, Tick, CrashRestart

\* The request processor, with its races, retries, lost responses and crashes,
\* implements the abstract promise that a nullifier is used up once.
THEOREM ImplementsSpendOnce == Spec => KeepsPromise
<1>1. Init => Promise!Init
  BY PromiseInit
<1>2. IInv /\ [Next]_vars => [Promise!Next]_Promise!vars
  BY PromiseNext
<1> QED BY <1>1, <1>2, Invariance, PTL DEF Spec, KeepsPromise, Promise!Spec

=============================================================================
