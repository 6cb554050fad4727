---------------------------- MODULE MemoryBuffer ----------------------------
(***************************************************************************)
(* MemoryBuffer<T, SIZE> of src/buffer.h: the growing character buffer of  *)
(* dumps, dumpb and the bytes decoder.  The storage is modelled cell by    *)
(* cell; a cell nobody has written holds Junk.  Positions are counted from *)
(* `start', so cursor is the number of characters in use and the length of *)
(* cells is end - start.                                                   *)
(***************************************************************************)
EXTENDS BufferSizes, Sequences

CONSTANTS
    Char,         \* the characters
    Junk,         \* the content of a cell that was never written
    Slices,       \* the slices of text clients append
    InitialSize,  \* SIZE, the number of cells of the inline array `initial'
    Slack,        \* how many cells more than it fills the encoder may request
    MaxText       \* bound of the model: clients stop at this many characters

ASSUME BufferAssumption ==
    /\ Junk \notin Char
    /\ Slices \subseteq Seq(Char)
    /\ InitialSize \in Nat \ {0}
    /\ Slack \in Nat
    /\ MaxText \in Nat

VARIABLES
    buf,      \* the cells, the cursor, and whether the cells are on the heap
    alive,    \* FALSE after an EnsureCapacity that returned false
    offered,  \* history: what the clients have appended since the last Reset
    taken     \* history: the last string NewString returned

vars == <<buf, alive, offered, taken>>

Block ==
    [cells : Seq(Char \cup {Junk}), cursor : Nat, is_heap : BOOLEAN]

EmptyBlock ==
    [cells |-> [i \in 1..InitialSize |-> Junk], cursor |-> 0, is_heap |-> FALSE]

Size(b) == Len(b.cells)
Room(b) == Size(b) - b.cursor
Text(b) == SubSeq(b.cells, 1, b.cursor)

(* Store the characters of s from the cursor on and advance it. *)
Put(b, s) ==
    [cells   |-> [i \in 1..Size(b) |->
                     IF i \in (b.cursor + 1)..(b.cursor + Len(s))
                     THEN s[i - b.cursor] ELSE b.cells[i]],
     cursor  |-> b.cursor + Len(s),
     is_heap |-> b.is_heap]

(* Variant: CopyBytes moves one character too few. *)
GrownOneShort(b, required) ==
    {[cells   |-> [i \in 1..n |->
                      IF i < b.cursor \/ (b.is_heap /\ i <= Size(b))
                      THEN b.cells[i] ELSE Junk],
      cursor  |-> b.cursor,
      is_heap |-> TRUE] : n \in NewSizes(Size(b), b.cursor + required)}

(***************************************************************************)
(* EnsureCapacity when the allocation succeeds.  malloc + CopyBytes moves  *)
(* the characters in use out of the inline array; realloc moves the whole  *)
(* old block.  The cells beyond are not initialised.                       *)
(***************************************************************************)
Grown(b, required) ==
    {[cells   |-> [i \in 1..n |->
                      IF i <= b.cursor \/ (b.is_heap /\ i <= Size(b))
                      THEN b.cells[i] ELSE Junk],
      cursor  |-> b.cursor,
      is_heap |-> TRUE] : n \in NewSizes(Size(b), b.cursor + required)}

Init ==
    /\ buf = EmptyBlock
    /\ alive = TRUE
    /\ offered = <<>>
    /\ taken = <<>>

(* Variant: the test of AppendChar lets a full block pass. *)
CharFitsFull == 0 <= Room(buf)

(***************************************************************************)
(* The three tests that decide whether the storage must grow, as their     *)
(* callers write them: AppendChar and MemoryBuffer_EnsureCapacity(_, 1),   *)
(* AppendSlice, and Encoder_EnsureCapacity, whose callers request more     *)
(* than they fill.  The first two leave one cell unused, the third does    *)
(* not.                                                                    *)
(***************************************************************************)
CharFits == 1 < Room(buf)
SliceFits(s) == Len(s) < Room(buf)
RequestFits(required) == ~(required > Room(buf))

Bounded(s) == Len(offered) + Len(s) <= MaxText

Store(s, fits, required) ==
    /\ alive
    /\ Bounded(s)
    /\ \/ fits /\ buf' = Put(buf, s)
       \/ ~fits /\ \E b \in Grown(buf, required) : buf' = Put(b, s)
    /\ offered' = offered \o s
    /\ UNCHANGED <<alive, taken>>

(* malloc or realloc returned NULL: start is lost and so is the content. *)
OutOfMemory(s, fits) ==
    /\ alive
    /\ Bounded(s)
    /\ ~fits
    /\ alive' = FALSE
    /\ UNCHANGED <<buf, offered, taken>>

AppendChar(c) == Store(<<c>>, CharFits, 1)
AppendSlice(s) == Store(s, SliceFits(s), Len(s))
EncodeInto(s, required) == Store(s, RequestFits(required), required)

(* Variant: NewString takes the whole block. *)
NewStringWhole ==
    /\ alive
    /\ taken' = buf.cells
    /\ UNCHANGED <<buf, alive, offered>>

(* NewString: a str with the characters between start and cursor. *)
NewString ==
    /\ alive
    /\ taken' = Text(buf)
    /\ UNCHANGED <<buf, alive, offered>>

(* Variant: Reset goes back to the inline array. *)
ResetToInline ==
    /\ alive
    /\ buf' = EmptyBlock
    /\ offered' = <<>>
    /\ UNCHANGED <<alive, taken>>

(* Reset keeps the block it has, grown or not. *)
Reset ==
    /\ alive
    /\ buf' = [buf EXCEPT !.cursor = 0]
    /\ offered' = <<>>
    /\ UNCHANGED <<alive, taken>>

AppendFails ==
    \/ \E c \in Char : OutOfMemory(<<c>>, CharFits)
    \/ \E s \in Slices : OutOfMemory(s, SliceFits(s))
    \/ \E s \in Slices, slack \in 0..Slack :
          OutOfMemory(s, RequestFits(Len(s) + slack))

Next ==
    \/ \E c \in Char : AppendChar(c)
    \/ \E s \in Slices : AppendSlice(s)
    \/ \E s \in Slices, slack \in 0..Slack : EncodeInto(s, Len(s) + slack)
    \/ AppendFails
    \/ NewString
    \/ Reset

Spec == Init /\ [][Next]_vars

-----------------------------------------------------------------------------
(* The cursor stays in the block, whatever was appended and however the    *)
(* block was enlarged (the pointers of MemoryBuffer, buffer.h:47-49).      *)
TypeInv ==
    /\ buf \in Block
    /\ buf.cursor <= Size(buf)
    /\ alive \in BOOLEAN
    /\ offered \in Seq(Char)
    /\ taken \in Seq(Char)

(* Growing, moving to the heap and reusing the block after a Reset lose,   *)
(* repeat or reorder no character: the cells up to the cursor are what the *)
(* clients appended since the last Reset (EnsureCapacity, AppendSlice).    *)
Intact == alive => Text(buf) = offered

(* The block never shrinks and never returns to the inline array while it  *)
(* is in use: an index computed before a call stays within bounds.         *)
NeverShrinks ==
    [][Size(buf') >= Size(buf) /\ (buf.is_heap => buf'.is_heap)]_vars

Sink == INSTANCE TextSink WITH
    Slices <- Slices \cup {<<c>> : c \in Char},
    text   <- IF alive THEN Text(buf) ELSE <<>>

(* A MemoryBuffer keeps the promise of TextSink. *)
ImplementsSink == Sink!Spec
=============================================================================
