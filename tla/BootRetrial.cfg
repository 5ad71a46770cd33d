\* A second transfer is committed while the first one is on trial.
CONSTANTS
  Blocks <- MCBlocks
  MaxBlocks = 1
  MaxRevision = 4
  Valid <- MCValid
  Executable <- MCExecutable
  Faults = {}
  Patient = FALSE
SPECIFICATION BootSpec
INVARIANTS
  FailedNeverRuns
