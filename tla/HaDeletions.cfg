\* Commits against lost connections, expired messages, errors and restarts.
SPECIFICATION FairSpec
CONSTANTS
  door = door
  motion = motion
  smoke = smoke
  i1 = i1
  i2 = i2
  i3 = i3
  NoAck = NoAck
  NoEvent = NoEvent
  Entities = {door, motion, smoke}
  Configs <- SomeConfigs
  Ids = {i1, i2, i3}
  LIMIT = 2
  OutboxLimit = 2
  MaxCommits = 2
  MaxErrors = 1
  MaxDrops = 1
  MaxRestarts = 1
INVARIANTS TypeOK NothingForgotten ShowsConfig
PROPERTIES EventuallyGone
CHECK_DEADLOCK FALSE
