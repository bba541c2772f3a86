--------------------------- MODULE MCCappedWriter ---------------------------
(* A small instance of CappedWriter for TLC: two writers, one reader, slices *)
(* that are empty, fit, fill the buffer exactly and exceed it.               *)
EXTENDS CappedWriter

CONSTANTS a, b

MCByte == {a, b}

MCChunk == {<< >>, <<a>>, <<a, b>>, <<b, a, b>>}

=============================================================================
