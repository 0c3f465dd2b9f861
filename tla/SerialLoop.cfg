\* Commands, captures and scans sharing the line.
SPECIFICATION LoopSpec
CONSTANTS
  TxId = {c1, c2, c3}
  NoTx = NoTx
  Query = Query
  Readiness <- NothingReady
  Areas <- OneArea
  Commands <- Disarm
  EagerSend = TRUE
  HiplexPlus = FALSE
  COMMAND_MAX_ATTEMPTS = 2
  COMMAND_ACK_TIMEOUT = 0
  PENDING_MAX_AGE = 1
  SERIAL_DEADLINE = 2
  EAGER_IDLE_GUARD = 0
  LATE_FEHLER_WINDOW = 0
  RECOVERY_FRAMES = 2
  MaxBusy = 1
SYMMETRY Identities
INVARIANTS CaptureAdmitsNothing
PROPERTIES OkIsOwnAnswer
