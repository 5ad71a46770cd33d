\* Every fault of the flash and of the heap while the gauge is up; the boot scan
\* itself meets none.
CONSTANTS
  Blocks <- MCBlocks
  MaxBlocks = 2
  MaxRevision = 4
  Valid <- MCValid
  Executable <- MCExecutable
  Faults = {"read", "write", "erase", "compile"}
SPECIFICATION StoreSpec
INVARIANTS
  StoreTypeOK
  ActiveIsIntact
  StoredIsExecutable
  RestartFindsActiveOrNext
PROPERTIES
  ActiveSlotUntouched
  ImplementsGenerations
