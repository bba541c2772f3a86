CONSTANTS
  Interfaces <- MCInterfaces
  Lines <- MCLines
  MaxLines = 3
  NoMetric = NoMetric
  Links <- MCLinks
  Changes = 2
CHECK_DEADLOCK FALSE
SPECIFICATION Spec
INVARIANTS
  TypeOK
  LowestMetric
  LinkIsWitnessed
