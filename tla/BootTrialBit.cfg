\* COMMIT prepares its journal while boot_health_task confirms the trial.
CONSTANTS
  Blocks <- MCBlocks
  MaxBlocks = 1
  MaxRevision = 4
  Valid <- MCValid
  Executable <- MCExecutable
  Faults = {}
  Patient = FALSE
SPECIFICATION BootSpec
INVARIANTS
  TrialBitIsTruthful
