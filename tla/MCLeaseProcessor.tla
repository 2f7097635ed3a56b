-------------------------- MODULE MCLeaseProcessor --------------------------
(* Small instances of LeaseProcessor. *)
EXTENDS LeaseProcessor, TLC

CONSTANTS n1, n2, c1, c2, lease, chat, root1

\* The handlers are interchangeable (used for safety only).
WorkerSymmetry == Permutations(Workers)

Rq(n, c, b) ==
  [nullifier |-> n, client |-> c, payload |-> lease, root |-> root1, time |-> 0,
   bound |-> b, wellFormed |-> TRUE, authentic |-> TRUE]

LeaseA == Rq(n1, c1, 1)
LeaseB == Rq(n2, c2, 1)
LeaseClash == Rq(n2, c1, 1)

OneLease == {LeaseA}

\* LeaseClash is another state of the note, sent under LeaseA's client_request_id;
\* LeaseZero proves nothing, which is enough where there is no charge cap.
LeaseZero == Rq(n2, c2, 0)
FourLeases == {LeaseA, LeaseB, LeaseClash, LeaseZero}

=============================================================================
