\* Nothing fails: one commit while the broker answers.
SPECIFICATION Spec
CONSTANTS
  door = door
  motion = motion
  smoke = smoke
  i1 = i1
  i2 = i2
  i3 = i3
  NoAck = NoAck
  NoEvent = NoEvent
  Entities = {door, motion, smoke}
  Configs <- SomeConfigs
  Ids = {i1, i2, i3}
  LIMIT = 2
  OutboxLimit = 2
  MaxCommits = 1
  MaxErrors = 0
  MaxDrops = 0
  MaxRestarts = 0
INVARIANT NoStandoff
CHECK_DEADLOCK FALSE
