---------------------------- MODULE MCCommandLine ----------------------------
(* Small instances of CommandLine. *)
EXTENDS CommandLine, TLC

CliSymmetry == Permutations(Commands) \cup Permutations(Destinations) \cup Permutations(Secrets)

=============================================================================
