\* Every interleaving of commands, panel telegrams and timers, safety only.
SPECIFICATION Spec
CONSTANTS
  TxId = {c1, c2, c3, c4}
  NoTx = NoTx
  Areas <- OneArea
  Commands <- MixedCommands
  EagerSend = TRUE
  HiplexPlus = FALSE
  COMMAND_MAX_ATTEMPTS = 3
  COMMAND_ACK_TIMEOUT = 1
  PENDING_MAX_AGE = 2
  SERIAL_DEADLINE = 3
  EAGER_IDLE_GUARD = 1
  LATE_FEHLER_WINDOW = 1
  RECOVERY_FRAMES = 2
  MaxBusy = 1
SYMMETRY Identities
INVARIANTS TypeOK BoundedRepetition InFlightStillArmable VerdictIsFinal SilenceIsNoticed
PROPERTIES TransmittedNeverForgotten
