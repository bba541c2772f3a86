CONSTANTS
  Timeout = 2
  WaitDelay = 1
  KillLag = 2
  MaxOutput = 2
  PipeSize = 2
  Prints = 3
CHECK_DEADLOCK FALSE
SPECIFICATION Spec
INVARIANTS
  TypeOK
  SuccessIsComplete
  NothingOutlivesTheCall
  StaysDrained
PROPERTIES
  CallReturns
  ImplementsBoundedCall
