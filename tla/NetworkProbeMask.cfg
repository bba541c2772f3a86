CONSTANTS
  Interfaces <- MCInterfaces
  Lines <- TunnelLines
  MaxLines = 3
  NoMetric = NoMetric
  Links <- OneLink
  Changes = 0
CHECK_DEADLOCK FALSE
SPECIFICATION Spec
INVARIANT
  OnlyDefaultRoute
