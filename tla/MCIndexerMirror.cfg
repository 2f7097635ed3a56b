\* Restarts during a catch-up of two batches, RPC errors, undecodable answers
\* half-way through a batch, and a checkpoint that cannot be written.
SPECIFICATION LiveIndexerSpec
CONSTANTS
  Notes <- TwoNotes
  MaxBlockRange = 2
  Checkpointing = TRUE
  MaxHeight = 3
  MaxEvents = 3
  MaxCrashes = 1
  MaxTorn = 2
  MaxDiskFaults = 1
INVARIANTS
  ServedRootExisted
  CheckpointMatchesVault
  IndexerInv
PROPERTIES
  MirrorCatchesUp
CHECK_DEADLOCK FALSE
