--------------------------- MODULE MCConfigReader ---------------------------
(* Small instances of ConfigReader: two regular files and a directory, with *)
(* sizes below, at and above the limit; and the same with a fifo.           *)
EXTENDS ConfigReader

MCFiles == {"cfg", "other", "dir"}
MCKind == [f \in MCFiles |-> IF f = "dir" THEN "directory" ELSE "regular"]

FifoFiles == {"cfg", "fifo"}
FifoKind == [f \in FifoFiles |-> IF f = "fifo" THEN "fifo" ELSE "regular"]

MCContents == {<< >>, <<"b">>, <<"b", "x">>, <<"b", "a", "a">>}
MCPiece == {"a", "b", "x"}
MCAppended == {"a"}

=============================================================================
