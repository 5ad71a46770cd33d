\* The two brake controls, over two operations, a restart and failing writes.
CONSTANTS
  Kinds = {"abs", "burnout"}
  MaxOperation = 2
  MaxLink = 1
  Users = {}
  QueueLength = 1
  MaxBoots = 1
  Faults = {"power", "nvs"}
SPECIFICATION VehicleSpec
INVARIANTS
  EngagedIsPublished
  BurnoutIsExclusive
  ReturnsOnce
CHECK_DEADLOCK FALSE
