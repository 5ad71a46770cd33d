\* Every fault; documents of up to two blocks: chunks retried, overlapping, out of order.
CONSTANTS
  Blocks <- MCOneBlock
  MaxBlocks = 2
  MaxRevision = 2
  Valid <- MCValid
  Executable <- MCExecutable
  Faults = {"power", "nvs", "journal", "compile", "erase", "read", "write"}
  Patient = TRUE
  Sequences = {1, 2}
  TransferIds = {1}
  Parts = {0, 1}
SPECIFICATION TransferSpec
INVARIANTS
  RunningIsKept
  SessionMatchesStore
  VerifiedStaysStaged
  GateIsHeld
  UncommittedChangesNothing
PROPERTIES
  SessionsEnd
