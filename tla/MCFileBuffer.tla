---------------------------- MODULE MCFileBuffer ----------------------------
(* A small FileBuffer of the debug build: two characters, slices of 1 to 3  *)
(* characters and an inline array of 2 cells, so that requests fit as they  *)
(* are, after a Flush, or only after a Flush and a growth of the block.     *)
EXTENDS FileBuffer

CONSTANTS a, b

MCChar == {a, b}
MCSlices == {<<a>>, <<b>>, <<a, b>>, <<b, a, a>>}
=============================================================================
