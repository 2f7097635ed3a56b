------------------------- MODULE MCRequestProcessor -------------------------
(* Small instances of RequestProcessor. *)
EXTENDS RequestProcessor, TLC

CONSTANTS n1, n2, c1, c2, p1, p2, root1, root2

\* The handlers are interchangeable (used for safety only).
WorkerSymmetry == Permutations(Workers)

Rq(n, c, p, rt, t, b) ==
  [nullifier |-> n, client |-> c, payload |-> p, root |-> rt, time |-> t,
   bound |-> b, wellFormed |-> TRUE, authentic |-> TRUE]

(***************************************************************************)
(* a and b spend the same state for different payloads; c is a's client    *)
(* proving again on the new root after a StaleRoot; d spends another state *)
(* under a's client id.                                                    *)
(***************************************************************************)
ReqA == Rq(n1, c1, p1, root1, 0, 2)
ReqB == Rq(n1, c2, p2, root1, 0, 2)
ReqC == Rq(n1, c1, p1, root2, 1, 2)
ReqD == Rq(n2, c1, p2, root1, 1, 2)
ReqForged == [ReqA EXCEPT !.bound = 3, !.authentic = FALSE]

\* Enough for an inverted PolicyCap, less than RequestCap lets a request cost.
LiveRequests == {[ReqA EXCEPT !.bound = 1], [ReqB EXCEPT !.bound = 1]}

\* Under policy only a bound of PolicyCap is enough.
PolicyRequests ==
  {[ReqA EXCEPT !.bound = 3], [ReqB EXCEPT !.bound = 3], ReqForged, ReqC, [ReqD EXCEPT !.bound = 3]}

=============================================================================
