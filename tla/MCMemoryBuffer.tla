--------------------------- MODULE MCMemoryBuffer ---------------------------
(* A small MemoryBuffer: two characters, slices of 0 to 3 characters, and   *)
(* an inline array of 2 cells, so that every append may have to grow.       *)
EXTENDS MemoryBuffer

CONSTANTS a, b

MCChar == {a, b}
MCSlices == {<<>>, <<a, b>>, <<b, a, a>>}
=============================================================================
