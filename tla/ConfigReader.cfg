CONSTANTS
  Files <- MCFiles
  Kind <- MCKind
  Missing = Missing
  Contents <- MCContents
  Piece <- MCPiece
  Appended <- MCAppended
  Bad = "x"
  Max = 2
  Room = 4
CHECK_DEADLOCK FALSE
SPECIFICATION Spec
INVARIANTS
  TypeOK
  BoundedRead
  AcceptedIsWhole
  AcceptedIsRegular
  ReadsOneFile
