\* A raised idle with every fault, a journal that cannot be opened among them.
CONSTANTS
  Kinds = {"idle"}
  MaxOperation = 1
  MaxLink = 2
  Users = {}
  QueueLength = 1
  MaxBoots = 1
  Faults = {"power", "nvs", "journal", "link", "restore"}
SPECIFICATION VehicleSpec
INVARIANTS
  EngagedIsRecorded
PROPERTIES
  StartsOnce
  TimedControlsEnd
CHECK_DEADLOCK FALSE
