\* The services that share the gate with the brake controls.
CONSTANTS
  Kinds = {"abs", "burnout"}
  MaxOperation = 1
  MaxLink = 1
  Users = {"config", "ota", "clear"}
  QueueLength = 1
  MaxBoots = 1
  Faults = {"power", "nvs", "link"}
SPECIFICATION VehicleSpec
INVARIANTS
  MaintenanceExcludesControl
CHECK_DEADLOCK FALSE
