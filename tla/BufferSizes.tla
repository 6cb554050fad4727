----------------------------- MODULE BufferSizes -----------------------------
(***************************************************************************)
(* How much storage MemoryBuffer::EnsureCapacity of src/buffer.h asks for. *)
(* Shared by the buffers and by the encoder that fills them.               *)
(***************************************************************************)
EXTENDS Integers

CONSTANT Debug  \* TRUE for a build without NDEBUG

ASSUME BuildAssumption == Debug \in BOOLEAN

(* 2, 4, 8, ...: only even numbers divide them. *)
PowerOfTwo(p) == \A d \in 2..p : p % d = 0 => d % 2 = 0

(***************************************************************************)
(* The new size for a block of `old' cells that must hold `needed'.  The   *)
(* debug build takes exactly what is needed; the release build doubles at  *)
(* least once and stops at the first doubling that is large enough.        *)
(***************************************************************************)
NewSizes(old, needed) ==
    IF Debug
    THEN {needed}
    ELSE {n \in 1..(2 * (old + needed)) :
             /\ n >= needed
             /\ \E p \in 2..n : n = old * p /\ PowerOfTwo(p)
                               /\ (p = 2 \/ n < 2 * needed)}
=============================================================================
