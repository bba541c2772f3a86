CONSTANTS
  Words <- MCWords
  Lower <- MCLower
  Paths <- MCPaths
  Interfaces <- MCInterfaces
  Args <- MCArgs
  Worlds <- MCWorlds
  Later <- MCLater
  Changes = 1
  Unset = "unset"
CHECK_DEADLOCK FALSE
SPECIFICATION Spec
INVARIANTS
  TypeOK
  Cascade
  ExitTellsTheReport
  OneMemoryReading
  OneStorageTarget
  ProductionIsStricter
  ErrorsFailOnlyNamedInterface
