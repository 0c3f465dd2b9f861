\* Three inputs and an output of any panel kind, a table of three,
\* two requests of a user.
SPECIFICATION FairSpec
CONSTANTS
  Inputs <- ThreeInputs
  Outputs <- OneOutput
  MbAddrs <- OneOutput
  MaxSensors = 3
  Retry = 1
  Limit = 2
  MaxRequests = 2
INVARIANTS TypeOK NoneSkipped ProbesAlone NamesWereAsked
PROPERTY ScanEnds
