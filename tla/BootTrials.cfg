\* A phone that starts a transfer only over a confirmed configuration.
CONSTANTS
  Blocks <- MCBlocks
  MaxBlocks = 1
  MaxRevision = 4
  Valid <- MCValid
  Executable <- MCExecutable
  Faults = {"power", "nvs", "journal", "compile", "erase"}
  Patient = TRUE
SPECIFICATION BootSpec
INVARIANTS
  UntestedIsJournalled
  FailureIsJournalled
  FailedNeverRuns
  TrialBitIsTruthful
PROPERTIES
  TrialsEnd
