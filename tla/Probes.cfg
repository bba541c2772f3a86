CONSTANTS
  SystemdTimeout = 1
  XrpldTimeout = 2
  Grace = 1
  MaxOutput = 2
  Prints <- MCPrints
  MaxPrints = 3
  Number <- MCNumber
CHECK_DEADLOCK FALSE
SPECIFICATION Spec
INVARIANTS
  TypeOK
  VerdictIsWitnessed
  NoAnswerIsAWarning
  RunIsBounded
PROPERTIES
  ProbesEnd
