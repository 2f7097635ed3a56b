--------------------------- MODULE MCIndexerMirror --------------------------
(* Small instances of IndexerMirror. *)
EXTENDS IndexerMirror

TwoNotes == 0..1

=============================================================================
