--------------------------- MODULE NullifierStore ---------------------------
(***************************************************************************)
(* The `nullifiers` table of zkapi-serverd                                 *)
(* (crates/zkapi-serverd/src/nullifier_store.rs).  Every method of         *)
(* NullifierStore takes the one connection mutex for a single SQL          *)
(* statement, so each is one atomic step on the table, and every statement *)
(* is durable: the table survives a crash of the process.                  *)
(*                                                                         *)
(* A row is keyed by its nullifier.  A nullifier without a row is given    *)
(* the row NoRow, so that the table is a total function.                   *)
(***************************************************************************)
EXTENDS Naturals

CONSTANTS
  Nullifiers,    \* request and withdrawal nullifiers share one key space
  ClientIds,     \* client_request_id values
  Payloads,      \* payload hashes
  Roots,         \* active roots of the note tree
  ApiRequests,   \* the wire requests clients may send
  None           \* an SQL NULL

(***************************************************************************)
(* A v2 wire request.  `root', `time' and `bound' are the public inputs    *)
(* active_root, request_time and solvency_bound; `wellFormed' says that    *)
(* the payload hashes to payload_hash and that version, chain and contract *)
(* are this deployment's; `authentic' that the signing key, the            *)
(* authorization tag and the Groth16 proof all verify.                     *)
(***************************************************************************)
ApiRequest ==
  [nullifier : Nullifiers, client : ClientIds, payload : Payloads,
   root : Roots, time : Nat, bound : Nat,
   wellFormed : BOOLEAN, authentic : BOOLEAN]

ASSUME RequestsAssumption == ApiRequests \subseteq ApiRequest
ASSUME NoneAssumption == None \notin ApiRequests /\ None \notin Nullifiers

\* The digest of the complete request under its domain tag: equal exactly
\* when the decoded requests are equal.
api_request_binding(r) == [domain |-> "zkapi:v2:api-request-binding", request |-> r]

NullifierStatus == {"Absent", "Reserved", "Finalized", "ClearanceReserved"}
ReservationKind == {"proxy", "openrouter_lease"}

\* `state' identifies the signed next state (commitment, anchor, blinding
\* and signature, all drawn fresh for one finalization); 0 is NULL.
\* `archive' is request_inputs_json with proof_blob, kept for a challenge.
TranscriptRecord ==
  [status : NullifierStatus, kind : ReservationKind,
   client : ClientIds \cup {None}, payload : Payloads \cup {None},
   binding : {api_request_binding(r) : r \in ApiRequests} \cup {None},
   charge : Nat, state : Nat, archive : ApiRequests \cup {None}]

NoRow ==
  [status |-> "Absent", kind |-> "proxy", client |-> None, payload |-> None,
   binding |-> None, charge |-> 0, state |-> 0, archive |-> None]

VARIABLE nullifiers    \* the table

NullifiersType == nullifiers \in [Nullifiers -> TranscriptRecord]
NullifiersInit == nullifiers = [n \in Nullifiers |-> NoRow]

\* lookup_by_nullifier finds a row
HasRow(n) == nullifiers[n].status # "Absent"

(***************************************************************************)
(* reserve_v2 and reserve_openrouter_lease: INSERT.  The primary key makes *)
(* the statement fail when a row exists, which the caller sees as Replay.  *)
(***************************************************************************)
ReservedRow(r, kind) ==
  [status |-> "Reserved", kind |-> kind, client |-> r.client,
   payload |-> r.payload, binding |-> api_request_binding(r),
   charge |-> 0, state |-> 0, archive |-> None]

\* Mutant: INSERT OR REPLACE.
CanInsert_Replaces(n) == TRUE

CanInsert(n) == ~HasRow(n)

reserve_with_kind(r, kind) ==
  nullifiers' = [nullifiers EXCEPT ![r.nullifier] = ReservedRow(r, kind)]

(***************************************************************************)
(* reserve_clearance: the same INSERT without a request; a conflict is     *)
(* NullifierUsed.                                                          *)
(***************************************************************************)
reserve_clearance(n) ==
  nullifiers' = [nullifiers EXCEPT ![n] = [NoRow EXCEPT !.status = "ClearanceReserved"]]

(***************************************************************************)
(* finalize: UPDATE ... WHERE nullifier = n AND status = 'Reserved'.  No   *)
(* matching row is an Internal error.  The inputs and the proof of the     *)
(* finalizing request are archived with the outcome.                       *)
(***************************************************************************)
\* Mutant: the WHERE clause names the nullifier only.
CanFinalize_AnyStatus(n) == HasRow(n)

CanFinalize(n) == nullifiers[n].status = "Reserved"

\* Mutant: the UPDATE finds its rows by client_request_id.
finalize_ByClient(r, charge, state) ==
  nullifiers' = [m \in Nullifiers |->
    IF nullifiers[m].client = r.client
      THEN [nullifiers[m] EXCEPT !.status = "Finalized", !.charge = charge, !.state = state,
                                 !.archive = r]
      ELSE nullifiers[m]]

finalize(r, charge, state) ==
  nullifiers' = [nullifiers EXCEPT ![r.nullifier].status = "Finalized",
                                   ![r.nullifier].charge = charge,
                                   ![r.nullifier].state = state,
                                   ![r.nullifier].archive = r]

\* Mutants: the retry test before request bindings, and without the endpoint.
SameRequest_Unbound(r, kind) ==
  LET row == nullifiers[r.nullifier] IN
    row.client = r.client /\ row.payload = r.payload /\ row.kind = kind

SameRequest_AnyEndpoint(r, kind) ==
  nullifiers[r.nullifier].binding = api_request_binding(r)

\* validate_and_reserve's test that a row belongs to this very request, sent
\* to the same endpoint.
SameRequest(r, kind) ==
  LET row == nullifiers[r.nullifier] IN
    /\ row.client = r.client
    /\ row.payload = r.payload
    /\ row.kind = kind
    /\ row.binding = api_request_binding(r)

-----------------------------------------------------------------------------
(* The challenge watcher (watcher.rs), which only reads the table *)

finalized_transcript(n) == nullifiers[n].status = "Finalized"

\* The archived request with which an escape from a spent state is challenged,
\* or None: the vault gets no challenge.
build_challenge_action(n) ==
  LET archived == nullifiers[n].archive IN
    IF finalized_transcript(n) /\ archived # None /\ archived.nullifier = n
      THEN archived ELSE None

=============================================================================
