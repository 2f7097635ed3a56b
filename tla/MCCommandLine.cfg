\* A client that is funded, rotated and restarted, a withdrawal command, and an application
\* on the same daemon; one transaction may outlive its process.
SPECIFICATION CliSpec
CONSTANTS
  Commands = {c1}
  Destinations = {d1}
  Secrets = {s1, s2}
  Credits = {2}
  Cap = 1
  MaxNotes = 2
  MaxOrphans = 1
  Nobody = Nobody
  Treasury = Treasury
INVARIANTS
  EscrowedSecretIsKept
  CliInv
  ReportedPayout
  SentForSettledNote
  RetiredStateIsCurrent
SYMMETRY CliSymmetry
CHECK_DEADLOCK FALSE
