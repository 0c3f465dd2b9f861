\* A window of two steps, a day of four, three restarts, two presses.
SPECIFICATION Spec
CONSTANTS
  SelfTest = 2
  Window = 2
  FirstSetup = 4
  MaxPresses = 2
  MaxStarts = 3
INVARIANTS TypeOK WindowIsBounded AlwaysBoots
PROPERTY WindowCloses
CHECK_DEADLOCK FALSE
