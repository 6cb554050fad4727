---------------------------- MODULE MCChunkBuffer ----------------------------
(* A ChunkBuffer of the debug build, whose inline array has one chunk,      *)
(* reading strings out of an input of two characters.                     *)
EXTENDS ChunkBuffer

CONSTANTS a, b

MCEscapes == {a, b}
MCInput == <<a, b>>
=============================================================================
