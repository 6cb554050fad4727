------------------------------ MODULE TextSink ------------------------------
(***************************************************************************)
(* What every text buffer of src/buffer.h promises to the code that fills  *)
(* it: the characters it is given come out again, all of them, once and in *)
(* order, however often the buffer has to move, enlarge or hand over its   *)
(* storage, until it reports that it could not go on.  Storage, growth and *)
(* flushing are invisible here; MemoryBuffer, FileBuffer and ChunkBuffer   *)
(* are shown to implement this specification.                              *)
(***************************************************************************)
EXTENDS Sequences

CONSTANT Slices  \* the pieces of text a client may append in one call

VARIABLES
    text,   \* the characters appended since the last Clear
    taken,  \* the last string handed to the caller
    alive   \* FALSE once an operation has returned false with an exception

vars == <<text, taken, alive>>

Init ==
    /\ text = <<>>
    /\ taken = <<>>
    /\ alive = TRUE

Accept(s) ==
    /\ alive
    /\ text' = text \o s
    /\ UNCHANGED <<taken, alive>>

Take ==
    /\ alive
    /\ taken' = text
    /\ UNCHANGED <<text, alive>>

Clear ==
    /\ alive
    /\ text' = <<>>
    /\ UNCHANGED <<taken, alive>>

(* A failure ends the use of the buffer; what it still held is lost. *)
Fail ==
    /\ alive
    /\ alive' = FALSE
    /\ text' = <<>>
    /\ UNCHANGED taken

Next ==
    \/ \E s \in Slices : Accept(s)
    \/ Take
    \/ Clear
    \/ Fail

Spec == Init /\ [][Next]_vars
=============================================================================
