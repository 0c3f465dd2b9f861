\* One zone, one sensor, every order of link, panel and loop steps.
SPECIFICATION Spec
CONSTANTS
  Modes <- AreaModes
  Zones <- OneZone
  Sensors <- OneSensor
  SETUP_BUDGET = 2
  RECOVERY_FRAMES = 1
  MaxReloads = 1
  MaxDrops = 1
INVARIANTS OnlineIsTrue StateIsCurrent ReadinessIsCurrent  BypassNeverHidden
