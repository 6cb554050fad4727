----------------------------- MODULE ChunkBuffer -----------------------------
(***************************************************************************)
(* ChunkBuffer of src/buffer.h: the buffer of the str decoder.  It copies  *)
(* no text while a string is read; it notes where in the input each piece  *)
(* lies, keeps escaped characters in the note itself, and copies once, in  *)
(* NewString.  The notes live in an array that starts inline and doubles.  *)
(***************************************************************************)
EXTENDS Naturals, Sequences, SequencesExt

CONSTANTS
    Input,         \* the decoded string, a sequence of characters
    Escapes,       \* the characters escape sequences may stand for
    Junk,          \* the content of a chunk that was never written
    InitialChunks, \* YAPIC_JSON_CHUNK_BUFFER_SIZE, the size of `initial'
    MaxText        \* bound of the model: clients stop at this many characters

(* A slice chunk points at Input[data] and covers `length' characters; a    *)
(* character chunk (Chunk_CHAR_KIND) has its character in `length'.         *)
ChunkTypes ==
    [kind : {"slice"}, data : 1..Len(Input), length : 1..Len(Input)]
        \cup [kind : {"char"}, data : {0}, length : Escapes]

ASSUME ChunkAssumption ==
    /\ Input \in Seq(Escapes)
    /\ Junk \notin ChunkTypes
    /\ InitialChunks \in Nat \ {0}
    /\ MaxText \in Nat

VARIABLES
    chunks,       \* the array from chunksBegin to chunksEnd
    chunk,        \* the chunk being filled; those before it are in use
    totalLength,  \* the number of characters noted
    alive,        \* FALSE after a Resize that failed
    offered,      \* history: what the reader has appended since the last Reset
    taken         \* history: the last string NewString returned

vars == <<chunks, chunk, totalLength, alive, offered, taken>>

SliceChunk(first, size) == [kind |-> "slice", data |-> first, length |-> size]
CharChunk(ch) == [kind |-> "char", data |-> 0, length |-> ch]

Init ==
    /\ chunks = [i \in 1..InitialChunks |-> Junk]
    /\ chunk = 1
    /\ totalLength = 0
    /\ alive = TRUE
    /\ offered = <<>>
    /\ taken = <<>>

(* Resize: twice the chunks; the `consumed' ones, all before chunk, are kept. *)
Resized(cs) ==
    [i \in 1..(2 * Len(cs)) |-> IF i <= Len(cs) THEN cs[i] ELSE Junk]

(* Variant: the array is resized one chunk too late. *)
NoteLate(c, text) ==
    LET filled == [i \in 1..Len(chunks) |-> IF i = chunk THEN c ELSE chunks[i]]
    IN  /\ alive
        /\ Len(offered) + Len(text) <= MaxText
        /\ chunk' = chunk + 1
        /\ totalLength' = totalLength + Len(text)
        /\ offered' = offered \o text
        /\ \/ chunk' <= Len(chunks) + 1 /\ chunks' = filled
           \/ chunk' > Len(chunks) + 1 /\ chunks' = Resized(filled)
        /\ UNCHANGED <<alive, taken>>

(* Fill the current chunk and go to the next one, resizing when the array   *)
(* is used up.                                                              *)
Note(c, text) ==
    LET filled == [chunks EXCEPT ![chunk] = c]
    IN  /\ alive
        /\ Len(offered) + Len(text) <= MaxText
        /\ chunk' = chunk + 1
        /\ totalLength' = totalLength + Len(text)
        /\ offered' = offered \o text
        /\ \/ chunk' <= Len(chunks) /\ chunks' = filled
           \/ chunk' > Len(chunks) /\ chunks' = Resized(filled)
        /\ UNCHANGED <<alive, taken>>

AppendSlice(first, size) ==
    Note(SliceChunk(first, size), SubSeq(Input, first, first + size - 1))

AppendChar(ch) == Note(CharChunk(ch), <<ch>>)

(* Resize got no memory: chunksBegin is NULL and the reader gives up. *)
ResizeFails ==
    /\ alive
    /\ chunk + 1 > Len(chunks)
    /\ alive' = FALSE
    /\ UNCHANGED <<chunks, chunk, totalLength, offered, taken>>

(* Write: one pass over the chunks before `chunk'. *)
Written(c) ==
    IF c.kind = "char" THEN <<c.length>>
    ELSE SubSeq(Input, c.data, c.data + c.length - 1)

Content == FlattenSeq([i \in 1..(chunk - 1) |-> Written(chunks[i])])

(* Variant: a chunk left over from an earlier string is written too. *)
NewStringBeyond ==
    /\ alive
    /\ chunks[chunk] # Junk
    /\ taken' = Content \o Written(chunks[chunk])
    /\ UNCHANGED <<chunks, chunk, totalLength, alive, offered>>

(* NewString writes the chunks into a new str of totalLength characters. *)
NewString ==
    /\ alive
    /\ taken' = Content
    /\ UNCHANGED <<chunks, chunk, totalLength, alive, offered>>

(* Variants: Reset keeps the length, or goes one chunk too far back. *)
ResetKeepsLength ==
    /\ alive
    /\ chunk' = 1
    /\ offered' = <<>>
    /\ UNCHANGED <<chunks, totalLength, alive, taken>>

ResetBehind ==
    /\ alive
    /\ chunk' = 0
    /\ totalLength' = 0
    /\ offered' = <<>>
    /\ UNCHANGED <<chunks, alive, taken>>

(* Reset before the next string: the array, grown or not, is used again. *)
Reset ==
    /\ alive
    /\ chunk' = 1
    /\ totalLength' = 0
    /\ offered' = <<>>
    /\ UNCHANGED <<chunks, alive, taken>>

Next ==
    \/ \E first \in 1..Len(Input) : \E size \in 1..(Len(Input) - first + 1) :
          AppendSlice(first, size)
    \/ \E ch \in Escapes : AppendChar(ch)
    \/ ResizeFails
    \/ NewString
    \/ Reset

Spec == Init /\ [][Next]_vars

-----------------------------------------------------------------------------
TypeInv ==
    /\ chunks \in Seq(ChunkTypes \cup {Junk})
    /\ chunk \in Nat \ {0}
    /\ totalLength \in Nat
    /\ alive \in BOOLEAN
    /\ offered \in Seq(Escapes)
    /\ taken \in Seq(Escapes)

(* Between two calls the current chunk exists, so the next AppendSlice or   *)
(* AppendChar writes inside the array, and every chunk before it has been   *)
(* written since the array was obtained (GotoNextChunk, Resize).            *)
ChunkInArray ==
    /\ chunk <= Len(chunks)
    /\ \A i \in 1..(chunk - 1) : chunks[i] # Junk

(* The str NewString allocates has room for exactly what Write copies, and  *)
(* that is the text the reader appended since the last Reset, resized       *)
(* arrays and chunks left over from earlier strings notwithstanding.        *)
NothingMissing ==
    alive => /\ Len(Content) = totalLength
             /\ Content = offered

Slices ==
    {SubSeq(Input, first, last) : first, last \in 1..Len(Input)}
        \cup {<<ch>> : ch \in Escapes}

Sink == INSTANCE TextSink WITH
    text <- IF alive THEN Content ELSE <<>>

(* A ChunkBuffer keeps the promise of TextSink. *)
ImplementsSink == Sink!Spec
=============================================================================
