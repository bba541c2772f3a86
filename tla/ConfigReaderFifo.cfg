CONSTANTS
  Files <- FifoFiles
  Kind <- FifoKind
  Missing = Missing
  Contents <- MCContents
  Piece <- MCPiece
  Appended <- MCAppended
  Bad = "x"
  Max = 2
  Room = 3
CHECK_DEADLOCK FALSE
SPECIFICATION Spec
PROPERTIES
  NonRegularIsRefused
