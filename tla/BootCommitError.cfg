\* COMMIT meets an I/O error after its marker reached the flash.
CONSTANTS
  Blocks <- MCBlocks
  MaxBlocks = 1
  MaxRevision = 4
  Valid <- MCValid
  Executable <- MCExecutable
  Faults = {"power", "read"}
  Patient = TRUE
SPECIFICATION BootSpec
INVARIANTS
  UntestedRunsOnTrial
