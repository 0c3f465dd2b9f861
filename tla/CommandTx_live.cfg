\* Every accepted command is eventually answered or replaced.
SPECIFICATION FairSpec
CONSTANTS
  TxId = {c1, c2}
  NoTx = NoTx
  Areas <- OneArea
  Commands <- ArmCommands
  EagerSend = TRUE
  HiplexPlus = TRUE
  COMMAND_MAX_ATTEMPTS = 2
  COMMAND_ACK_TIMEOUT = 1
  PENDING_MAX_AGE = 1
  SERIAL_DEADLINE = 2
  EAGER_IDLE_GUARD = 1
  LATE_FEHLER_WINDOW = 0
  RECOVERY_FRAMES = 2
  MaxBusy = 1
INVARIANTS NeverSentLate
PROPERTIES EventuallyAnswered
