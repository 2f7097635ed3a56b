--------------------------- MODULE MCClientDaemon ---------------------------
(* Small instances of ClientDaemon. *)
EXTENDS ClientDaemon, TLC

CONSTANTS t1, t2, s1, s2

TaskSymmetry == Permutations({t1, t2}) \cup Permutations({s1, s2})

=============================================================================
