---------------------------- MODULE BufferProofs ----------------------------
(***************************************************************************)
(* For every character set, initial size and build: a MemoryBuffer keeps   *)
(* its cursor within its block and returns what was appended; and dump,    *)
(* through a FileBuffer, writes each character once and in order, whatever *)
(* fails, with memory that is bounded by the largest request.              *)
(***************************************************************************)
EXTENDS FileBuffer, SequenceLemmas

(* Storing s where there is room for it appends s to the text of the block. *)
LEMMA PutAppends ==
    ASSUME NEW b \in Block, NEW s \in Seq(Char), b.cursor + Len(s) <= Size(b)
    PROVE  /\ Put(b, s) \in Block
           /\ Put(b, s).cursor = b.cursor + Len(s)
           /\ Size(Put(b, s)) = Size(b)
           /\ Text(Put(b, s)) = Text(b) \o s
  <1> DEFINE C == Char \cup {Junk}
             cells == [i \in 1..Size(b) |->
                          IF i \in (b.cursor + 1)..(b.cursor + Len(s))
                          THEN s[i - b.cursor] ELSE b.cells[i]]
  <1>1. /\ b.cells \in Seq(C) /\ b.cursor \in Nat /\ b.is_heap \in BOOLEAN
        /\ Size(b) \in Nat /\ Len(s) \in Nat
    BY LenProperties DEF Block, Size
  <1>2. cells \in [1..Size(b) -> C]
    <2> SUFFICES ASSUME NEW i \in 1..Size(b) PROVE cells[i] \in C
      OBVIOUS
    <2>1. CASE i \in (b.cursor + 1)..(b.cursor + Len(s))
      <3>1. i - b.cursor \in 1..Len(s)
        BY <1>1, <2>1
      <3> QED
        BY <2>1, <3>1, ElementOfSeq
    <2>2. CASE i \notin (b.cursor + 1)..(b.cursor + Len(s))
      BY <1>1, <2>2, ElementOfSeq DEF Size
    <2> QED
      BY <2>1, <2>2
  <1>3. cells \in Seq(C) /\ Len(cells) = Size(b)
    BY <1>1, <1>2, FunctionIsSeq
  <1>4. Put(b, s) = [cells |-> cells, cursor |-> b.cursor + Len(s), is_heap |-> b.is_heap]
    BY DEF Put
  <1>5. /\ Put(b, s) \in Block
        /\ Put(b, s).cursor = b.cursor + Len(s)
        /\ Size(Put(b, s)) = Size(b)
    BY <1>1, <1>3, <1>4 DEF Block, Size
  <1>6. Text(Put(b, s)) = Text(b) \o s
    <2> DEFINE new == SubSeq(cells, 1, b.cursor + Len(s))
               old == SubSeq(b.cells, 1, b.cursor)
    <2>1. /\ new \in Seq(C) /\ Len(new) = b.cursor + Len(s)
          /\ \A i \in 1..(b.cursor + Len(s)) : new[i] = cells[i]
      <3> HIDE DEF cells
      <3> QED
        BY <1>1, <1>3, Prefix
    <2>2. /\ old \in Seq(C) /\ Len(old) = b.cursor
          /\ \A i \in 1..b.cursor : old[i] = b.cells[i]
      BY <1>1, Prefix DEF Size
    <2>3. s \in Seq(C)
      BY SeqMonotonic
    <2>4. /\ old \o s \in Seq(C) /\ Len(old \o s) = b.cursor + Len(s)
          /\ \A i \in 1..(b.cursor + Len(s)) :
                (old \o s)[i] = IF i <= b.cursor THEN old[i] ELSE s[i - b.cursor]
      <3> HIDE DEF old, C
      <3>1. /\ old \o s \in Seq(C) /\ Len(old \o s) = Len(old) + Len(s)
            /\ \A i \in 1..(Len(old) + Len(s)) :
                  (old \o s)[i] = IF i <= Len(old) THEN old[i] ELSE s[i - Len(old)]
        BY <2>2, <2>3, ConcatProperties
      <3> QED
        BY <2>2, <3>1
    <2>5. ASSUME NEW i \in 1..(b.cursor + Len(s)) PROVE new[i] = (old \o s)[i]
      <3>1. i \in 1..Size(b) /\ new[i] = cells[i]
        BY <1>1, <2>1
      <3>2. CASE i <= b.cursor
        BY <1>1, <2>2, <2>4, <3>1, <3>2
      <3>3. CASE ~(i <= b.cursor)
        <4>1. i \in (b.cursor + 1)..(b.cursor + Len(s))
          BY <1>1, <3>3
        <4> QED
          BY <2>4, <3>1, <3>3, <4>1
      <3> QED
        BY <3>2, <3>3
    <2>6. new = old \o s
      <3> HIDE DEF new, old
      <3> QED
        BY <2>1, <2>4, <2>5, SeqEqual
    <2>7. Text(Put(b, s)) = new /\ Text(b) = old
      <3>1. Put(b, s).cells = cells /\ Put(b, s).cursor = b.cursor + Len(s)
        BY <1>4
      <3> HIDE DEF cells
      <3> QED
        BY <3>1, Zenon DEF Text
    <2> QED
      BY <2>6, <2>7
  <1> QED
    BY <1>5, <1>6

(* Growing the block keeps its text and provides the room asked for. *)
LEMMA GrowthKeepsText ==
    ASSUME NEW b \in Block, b.cursor <= Size(b), NEW required \in Nat,
           NEW g \in Grown(b, required)
    PROVE  /\ g \in Block
           /\ g.cursor = b.cursor
           /\ b.cursor + required <= Size(g)
           /\ Text(g) = Text(b)
  <1> DEFINE C == Char \cup {Junk}
  <1>1. /\ b.cells \in Seq(C) /\ b.cursor \in Nat /\ Size(b) \in Nat
    BY LenProperties DEF Block, Size
  <1>2. PICK n \in NewSizes(Size(b), b.cursor + required) :
           g = [cells   |-> [i \in 1..n |->
                                IF i <= b.cursor \/ (b.is_heap /\ i <= Size(b))
                                THEN b.cells[i] ELSE Junk],
                cursor  |-> b.cursor,
                is_heap |-> TRUE]
    BY DEF Grown
  <1>3. n \in Nat /\ b.cursor + required <= n
    BY <1>1, <1>2 DEF NewSizes
  <1>4. g.cells \in [1..n -> C]
    <2> SUFFICES ASSUME NEW i \in 1..n PROVE g.cells[i] \in C
      BY <1>2
    <2>1. CASE i <= b.cursor \/ (b.is_heap /\ i <= Size(b))
      <3>1. i \in 1..Len(b.cells)
        BY <1>1, <1>3, <2>1 DEF Size
      <3> QED
        BY <1>1, <1>2, <2>1, <3>1, ElementOfSeq
    <2>2. CASE ~(i <= b.cursor \/ (b.is_heap /\ i <= Size(b)))
      BY <1>2, <2>2
    <2> QED
      BY <2>1, <2>2
  <1>5. g.cells \in Seq(C) /\ Len(g.cells) = n
    BY <1>3, <1>4, FunctionIsSeq
  <1>6. g \in Block /\ g.cursor = b.cursor /\ Size(g) = n
    BY <1>1, <1>2, <1>5 DEF Block, Size
  <1>7. Text(g) = Text(b)
    <2>1. /\ Text(g) \in Seq(C) /\ Len(Text(g)) = b.cursor
          /\ \A i \in 1..b.cursor : Text(g)[i] = g.cells[i]
      BY <1>1, <1>3, <1>5, <1>6, Prefix DEF Text
    <2>2. /\ Text(b) \in Seq(C) /\ Len(Text(b)) = b.cursor
          /\ \A i \in 1..b.cursor : Text(b)[i] = b.cells[i]
      BY <1>1, Prefix DEF Text, Size
    <2>3. \A i \in 1..b.cursor : g.cells[i] = b.cells[i]
      BY <1>1, <1>2, <1>3
    <2>4. \A i \in 1..Len(Text(g)) : Text(g)[i] = Text(b)[i]
      BY <2>1, <2>2, <2>3
    <2>5. Len(Text(g)) = Len(Text(b))
      BY <2>1, <2>2
    <2> HIDE DEF C
    <2> QED
      BY ONLY <2>1, <2>2, <2>4, <2>5, SeqEqual
  <1> QED
    BY <1>3, <1>6, <1>7

-----------------------------------------------------------------------------
(* Both parts of the invariant are needed together: where the cursor is, is *)
(* what Put relies on, and what is in the cells is what NewString returns.  *)
Inv == TypeInv /\ Intact

LEMMA InitInv == Init => Inv
  <1> SUFFICES ASSUME Init PROVE Inv
    OBVIOUS
  <1> DEFINE C == Char \cup {Junk}
  <1>1. [i \in 1..InitialSize |-> Junk] \in [1..InitialSize -> C]
    OBVIOUS
  <1>2. /\ [i \in 1..InitialSize |-> Junk] \in Seq(C)
        /\ Len([i \in 1..InitialSize |-> Junk]) = InitialSize
    BY <1>1, FunctionIsSeq, BufferAssumption
  <1>3. /\ EmptyBlock \in Block /\ EmptyBlock.cursor = 0
        /\ Size(EmptyBlock) = InitialSize
    BY <1>2 DEF EmptyBlock, Block, Size
  <1>4. TypeInv
    BY <1>3, BufferAssumption, EmptySeq DEF Init, TypeInv
  <1>5. Text(EmptyBlock) = <<>>
    BY <1>3, SubSeqEmpty DEF Text
  <1>6. Intact
    BY <1>5 DEF Init, Intact
  <1> QED
    BY <1>4, <1>6 DEF Inv

(* Storing a slice, whichever test decides about growing the block: enough  *)
(* that the test is not true when there is no room.                         *)
LEMMA StoreInv ==
    ASSUME Inv, NEW s \in Seq(Char), NEW fits, NEW required \in Nat,
           fits => Len(s) <= Room(buf), Len(s) <= required,
           Store(s, fits, required)
    PROVE  Inv'
  <1>1. /\ buf \in Block /\ buf.cursor <= Size(buf) /\ buf.cursor \in Nat
        /\ Size(buf) \in Nat /\ Len(s) \in Nat
        /\ Text(buf) = offered /\ offered \in Seq(Char) /\ alive
    BY LenProperties DEF Inv, TypeInv, Intact, Store, Block, Size
  <1>2. /\ buf' \in Block /\ buf'.cursor <= Size(buf')
        /\ Text(buf') = offered \o s
    <2>1. CASE fits /\ buf' = Put(buf, s)
      <3>1. buf.cursor + Len(s) <= Size(buf)
        BY <1>1, <2>1 DEF Room
      <3> QED
        BY <1>1, <2>1, <3>1, PutAppends
    <2>2. CASE \E b \in Grown(buf, required) : buf' = Put(b, s)
      <3>1. PICK b \in Grown(buf, required) : buf' = Put(b, s)
        BY <2>2
      <3>2. /\ b \in Block /\ b.cursor = buf.cursor
            /\ buf.cursor + required <= Size(b) /\ Text(b) = Text(buf)
        BY <1>1, <3>1, GrowthKeepsText
      <3>3. Size(b) \in Nat
        BY <3>2, LenProperties DEF Block, Size
      <3>4. b.cursor + Len(s) <= Size(b)
        BY <1>1, <3>2, <3>3
      <3> QED
        BY <1>1, <3>1, <3>2, <3>4, PutAppends
    <2> QED
      BY <2>1, <2>2 DEF Store
  <1>3. offered' = offered \o s /\ alive' = alive /\ taken' = taken
    BY DEF Store
  <1>4. offered' \in Seq(Char)
    BY <1>1, <1>3, ConcatProperties
  <1> QED
    BY <1>2, <1>3, <1>4 DEF Inv, TypeInv, Intact

LEMMA NextInv == Inv /\ [Next]_vars => Inv'
  <1> SUFFICES ASSUME Inv, [Next]_vars PROVE Inv'
    OBVIOUS
  <1>1. Size(buf) \in Nat /\ buf.cursor \in Nat
    BY LenProperties DEF Inv, TypeInv, Block, Size
  <1>2. ASSUME NEW c \in Char, AppendChar(c) PROVE Inv'
    <2> DEFINE s == <<c>>
    <2>1. s \in Seq(Char) /\ Len(s) = 1
      OBVIOUS
    <2>2. CharFits => Len(s) <= Room(buf)
      BY <1>1, <2>1 DEF CharFits, Room
    <2>3. Store(s, CharFits, 1)
      BY <1>2 DEF AppendChar
    <2>4. Len(s) <= 1 /\ 1 \in Nat
      BY <2>1
    <2> HIDE DEF s
    <2> QED
      BY <2>1, <2>2, <2>3, <2>4, StoreInv
  <1>3. ASSUME NEW s \in Slices, AppendSlice(s) PROVE Inv'
    <2>1. s \in Seq(Char) /\ Len(s) \in Nat
      BY BufferAssumption, LenProperties
    <2>2. SliceFits(s) => Len(s) <= Room(buf)
      BY <1>1, <2>1 DEF SliceFits, Room
    <2>3. Store(s, SliceFits(s), Len(s))
      BY <1>3 DEF AppendSlice
    <2> QED
      BY <1>3, <2>1, <2>2, <2>3, StoreInv
  <1>4. ASSUME NEW s \in Slices, NEW slack \in 0..Slack, EncodeInto(s, Len(s) + slack)
        PROVE  Inv'
    <2>1. s \in Seq(Char) /\ Len(s) \in Nat /\ slack \in Nat
      BY BufferAssumption, LenProperties
    <2>2. RequestFits(Len(s) + slack) => Len(s) <= Room(buf)
      BY <1>1, <2>1 DEF RequestFits, Room
    <2>3. Store(s, RequestFits(Len(s) + slack), Len(s) + slack)
      BY <1>4 DEF EncodeInto
    <2> QED
      BY <1>4, <2>1, <2>2, <2>3, StoreInv
  <1>5. CASE AppendFails
    <2>1. alive' = FALSE /\ UNCHANGED <<buf, offered, taken>>
      BY <1>5 DEF AppendFails, OutOfMemory
    <2> QED
      BY <2>1 DEF Inv, TypeInv, Intact
  <1>6. CASE NewString
    <2>1. Text(buf) \in Seq(Char)
      BY <1>6 DEF NewString, Inv, TypeInv, Intact
    <2> QED
      BY <1>6, <2>1 DEF NewString, Inv, TypeInv, Intact
  <1>7. CASE Reset
    <2>1. buf' = [buf EXCEPT !.cursor = 0] /\ offered' = <<>>
          /\ UNCHANGED <<alive, taken>>
      BY <1>7 DEF Reset
    <2>2. buf' \in Block /\ buf'.cursor = 0 /\ Size(buf') = Size(buf)
      BY <2>1 DEF Inv, TypeInv, Block, Size
    <2>3. Text(buf') = <<>>
      BY <2>2, SubSeqEmpty DEF Text
    <2> QED
      BY <1>1, <2>1, <2>2, <2>3 DEF Inv, TypeInv, Intact
  <1>8. CASE UNCHANGED vars
    BY <1>8 DEF vars, Inv, TypeInv, Intact
  <1> QED
    BY <1>2, <1>3, <1>4, <1>5, <1>6, <1>7, <1>8 DEF Next

(* The cursor of a MemoryBuffer never leaves its block. *)
THEOREM CursorInBlock == Spec => []TypeInv
  BY InitInv, NextInv, PTL DEF Spec, Inv

(* A MemoryBuffer holds what was appended to it, however often it grew. *)
THEOREM TextIntact == Spec => []Intact
  BY InitInv, NextInv, PTL DEF Spec, Inv

-----------------------------------------------------------------------------
(* The steps of a MemoryBuffer are steps of the TextSink it promises to be. *)

LEMMA InitMaps == Init => Sink!Init
  <1> SUFFICES ASSUME Init PROVE Sink!Init
    OBVIOUS
  <1>1. Intact
    BY InitInv DEF Inv
  <1> QED
    BY <1>1 DEF Init, Intact, Sink!Init

LEMMA StoreMaps ==
    ASSUME Inv, Inv', NEW s \in Slices \cup {<<c>> : c \in Char},
           NEW fits, NEW required, Store(s, fits, required)
    PROVE  Sink!Next
  <1>1. /\ alive /\ UNCHANGED <<alive, taken>>
        /\ Text(buf) = offered /\ Text(buf') = offered' /\ offered' = offered \o s
    BY DEF Store, Inv, Intact
  <1>2. Sink!Accept(s)
    BY <1>1 DEF Sink!Accept
  <1> QED
    BY <1>2 DEF Sink!Next

LEMMA NextMaps == Inv /\ Inv' /\ [Next]_vars => [Sink!Next]_Sink!vars
  <1> SUFFICES ASSUME Inv, Inv', [Next]_vars PROVE [Sink!Next]_Sink!vars
    OBVIOUS
  <1>1. ASSUME NEW c \in Char, AppendChar(c) PROVE Sink!Next
    BY <1>1, StoreMaps DEF AppendChar
  <1>2. ASSUME NEW s \in Slices, AppendSlice(s) PROVE Sink!Next
    BY <1>2, StoreMaps DEF AppendSlice
  <1>3. ASSUME NEW s \in Slices, NEW slack \in 0..Slack, EncodeInto(s, Len(s) + slack)
        PROVE  Sink!Next
    BY <1>3, StoreMaps DEF EncodeInto
  <1>4. CASE AppendFails
    <2>1. alive /\ alive' = FALSE /\ taken' = taken
      BY <1>4 DEF AppendFails, OutOfMemory
    <2> QED
      BY <2>1 DEF Sink!Fail, Sink!Next
  <1>5. CASE NewString
    BY <1>5 DEF NewString, Sink!Take, Sink!Next
  <1>6. CASE Reset
    <2>1. /\ alive /\ UNCHANGED <<alive, taken>>
          /\ offered' = <<>> /\ Text(buf') = offered'
      BY <1>6 DEF Reset, Inv, Intact
    <2> QED
      BY <2>1 DEF Sink!Clear, Sink!Next
  <1>7. CASE UNCHANGED vars
    BY <1>7 DEF vars, Sink!vars
  <1> QED
    BY <1>1, <1>2, <1>3, <1>4, <1>5, <1>6, <1>7 DEF Next

(* A MemoryBuffer implements TextSink: storage and growth are invisible.    *)
THEOREM MemoryIsSink == Spec => ImplementsSink
  BY InitInv, NextInv, InitMaps, NextMaps, PTL DEF Spec, ImplementsSink, Sink!Spec

-----------------------------------------------------------------------------
(* A test that fails asks for at least the block there is.                  *)

LEMMA StoreGrows ==
    ASSUME Inv, NEW s \in Seq(Char), NEW fits, NEW required \in Nat,
           ~fits => buf.cursor + required >= Size(buf),
           Store(s, fits, required)
    PROVE  Size(buf') >= Size(buf) /\ (buf.is_heap => buf'.is_heap)
  <1>1. buf \in Block /\ buf.cursor <= Size(buf) /\ buf.cursor \in Nat /\ Size(buf) \in Nat
    BY LenProperties DEF Inv, TypeInv, Block, Size
  <1>2. ASSUME NEW b \in Block, buf' = Put(b, s)
        PROVE  Size(buf') = Size(b) /\ buf'.is_heap = b.is_heap
    <2> DEFINE C == Char \cup {Junk}
               n == Size(b)
               cells == [i \in 1..n |-> IF i \in (b.cursor + 1)..(b.cursor + Len(s))
                                        THEN s[i - b.cursor] ELSE b.cells[i]]
               T == {cells[i] : i \in 1..n}
    <2>1. n \in Nat
      BY LenProperties DEF Block, Size
    <2>2. cells \in [1..n -> T]
      OBVIOUS
    <2>3. Len(cells) = n
      <3> HIDE DEF n, cells, T
      <3> QED
        BY <2>1, <2>2, FunctionIsSeq
    <2>4. buf'.cells = cells /\ buf'.is_heap = b.is_heap
      BY <1>2 DEF Put
    <2> HIDE DEF cells
    <2> QED
      BY <2>3, <2>4 DEF Size
  <1>3. CASE buf' = Put(buf, s)
    BY <1>1, <1>2, <1>3
  <1>4. CASE ~fits /\ \E b \in Grown(buf, required) : buf' = Put(b, s)
    <2>1. PICK b \in Grown(buf, required) : buf' = Put(b, s)
      BY <1>4
    <2>2. b \in Block /\ buf.cursor + required <= Size(b)
      BY <1>1, <2>1, GrowthKeepsText
    <2>3. b.is_heap = TRUE
      BY <2>1 DEF Grown
    <2>4. Size(b) \in Nat /\ Size(buf') = Size(b) /\ buf'.is_heap = b.is_heap
      BY <1>2, <2>1, <2>2, LenProperties DEF Block, Size
    <2> QED
      BY <1>1, <1>4, <2>2, <2>3, <2>4
  <1> QED
    BY <1>3, <1>4 DEF Store

LEMMA NextGrows ==
    Inv /\ [Next]_vars => [Size(buf') >= Size(buf) /\ (buf.is_heap => buf'.is_heap)]_vars
  <1> SUFFICES ASSUME Inv, Next
               PROVE  Size(buf') >= Size(buf) /\ (buf.is_heap => buf'.is_heap)
    OBVIOUS
  <1>1. Size(buf) \in Nat /\ buf.cursor \in Nat
    BY LenProperties DEF Inv, TypeInv, Block, Size
  <1>2. ASSUME NEW c \in Char, AppendChar(c)
        PROVE  Size(buf') >= Size(buf) /\ (buf.is_heap => buf'.is_heap)
    <2>1. <<c>> \in Seq(Char) /\ (~CharFits => buf.cursor + 1 >= Size(buf))
      BY <1>1 DEF CharFits, Room
    <2> QED
      BY <1>2, <2>1, StoreGrows DEF AppendChar
  <1>3. ASSUME NEW s \in Slices, AppendSlice(s)
        PROVE  Size(buf') >= Size(buf) /\ (buf.is_heap => buf'.is_heap)
    <2>1. s \in Seq(Char) /\ Len(s) \in Nat
      BY BufferAssumption, LenProperties
    <2>2. ~SliceFits(s) => buf.cursor + Len(s) >= Size(buf)
      BY <1>1, <2>1 DEF SliceFits, Room
    <2> QED
      BY <1>3, <2>1, <2>2, StoreGrows DEF AppendSlice
  <1>4. ASSUME NEW s \in Slices, NEW slack \in 0..Slack, EncodeInto(s, Len(s) + slack)
        PROVE  Size(buf') >= Size(buf) /\ (buf.is_heap => buf'.is_heap)
    <2>1. s \in Seq(Char) /\ Len(s) \in Nat /\ Len(s) + slack \in Nat
      BY BufferAssumption, LenProperties
    <2>2. ~RequestFits(Len(s) + slack) => buf.cursor + (Len(s) + slack) >= Size(buf)
      BY <1>1, <2>1 DEF RequestFits, Room
    <2> QED
      BY <1>4, <2>1, <2>2, StoreGrows DEF EncodeInto
  <1>5. CASE AppendFails \/ NewString
    <2>1. buf' = buf
      BY <1>5 DEF AppendFails, OutOfMemory, NewString
    <2> QED
      BY <1>1, <2>1
  <1>6. CASE Reset
    <2>1. Size(buf') = Size(buf) /\ buf'.is_heap = buf.is_heap
      BY <1>6 DEF Reset, Inv, TypeInv, Block, Size
    <2> QED
      BY <1>1, <2>1
  <1> QED
    BY <1>2, <1>3, <1>4, <1>5, <1>6 DEF Next

(* The block never shrinks and never returns to the inline array.           *)
THEOREM BlockNeverShrinks == Spec => NeverShrinks
  BY InitInv, NextInv, NextGrows, PTL DEF Spec, NeverShrinks

-----------------------------------------------------------------------------
(* The inductive invariant.  What is written followed by what is in the     *)
(* block is the output even after a failure: then the pending characters    *)
(* are still there, or they have been written and the block is empty.       *)
InOrder == delivered \o Pending = offered

FileInv == FileTypeInv /\ InOrder /\ BoundedBlock

-----------------------------------------------------------------------------
(* The cells up to the cursor are characters where they are what is left of *)
(* the output.                                                              *)
LEMMA PendingIsText ==
    ASSUME FileInv
    PROVE  /\ Pending \in Seq(Char)
           /\ delivered \o Pending \in Seq(Char)
  <1> DEFINE C == Char \cup {Junk}
  <1>1. /\ buf.cells \in Seq(C) /\ buf.cursor \in Nat /\ buf.cursor <= Len(buf.cells)
        /\ delivered \in Seq(Char) /\ offered \in Seq(Char)
        /\ Len(delivered) \in Nat
    BY LenProperties DEF FileInv, FileTypeInv, TypeInv, Block, Size
  <1>2. Pending \in Seq(C) /\ Len(Pending) = buf.cursor
    BY <1>1, Prefix DEF Pending, Text
  <1>3. delivered \in Seq(C)
    BY <1>1, SeqMonotonic
  <1>4. /\ Len(offered) = Len(delivered) + Len(Pending)
        /\ \A i \in 1..Len(Pending) : offered[i + Len(delivered)] = Pending[i]
    <2> HIDE DEF C
    <2>1. /\ Len(delivered \o Pending) = Len(delivered) + Len(Pending)
          /\ \A i \in 1..(Len(delivered) + Len(Pending)) :
                (delivered \o Pending)[i] =
                   IF i <= Len(delivered) THEN delivered[i] ELSE Pending[i - Len(delivered)]
      BY <1>2, <1>3, ConcatProperties
    <2> QED
      BY <1>1, <1>2, <2>1 DEF FileInv, InOrder
  <1>5. \A i \in 1..Len(Pending) : Pending[i] \in Char
    BY <1>1, <1>2, <1>4, ElementOfSeq
  <1>6. Pending \in [1..Len(Pending) -> Char] /\ Len(Pending) \in Nat
    BY <1>1, <1>2, <1>5, LenProperties
  <1>7. Pending \in Seq(Char)
    BY <1>6, SeqDef
  <1> QED
    BY <1>1, <1>7, ConcatProperties

LEMMA EmptiedBlock ==
    ASSUME NEW b \in Block
    PROVE  /\ Flushed(b) \in Block /\ Flushed(b).cursor = 0
           /\ Size(Flushed(b)) = Size(b) /\ Size(b) \in Nat
           /\ Text(Flushed(b)) = <<>>
  <1>1. /\ Flushed(b) \in Block /\ Flushed(b).cursor = 0
        /\ Size(Flushed(b)) = Size(b) /\ Size(b) \in Nat
    BY LenProperties DEF Flushed, Block, Size
  <1> QED
    BY <1>1, SubSeqEmpty DEF Text

(* Whatever the block was, a request it cannot hold empty makes it smaller  *)
(* than twice the request, or, in the debug build, as large as the request. *)
LEMMA GrowthIsBounded ==
    ASSUME NEW b \in Block, NEW required \in Nat, Size(b) < required,
           NEW g \in Grown(Flushed(b), required)
    PROVE  Size(g) <= (IF Debug THEN 1 ELSE 2) * required
  <1>1. /\ Flushed(b).cursor = 0 /\ Size(Flushed(b)) = Size(b) /\ Size(b) \in Nat
    BY EmptiedBlock
  <1>2. PICK n \in NewSizes(Size(Flushed(b)), Flushed(b).cursor + required) :
           g = [cells   |-> [i \in 1..n |->
                               IF i <= Flushed(b).cursor
                                  \/ (Flushed(b).is_heap /\ i <= Size(Flushed(b)))
                               THEN Flushed(b).cells[i] ELSE Junk],
                cursor  |-> Flushed(b).cursor,
                is_heap |-> TRUE]
    BY DEF Grown
  <1>3. n \in Nat /\ n <= (IF Debug THEN 1 ELSE 2) * required
    <2>1. CASE Debug
      BY <1>1, <1>2, <2>1 DEF NewSizes
    <2>2. CASE ~Debug
      <3>1. n \in Nat /\ \E p \in 2..n : n = Size(b) * p /\ (p = 2 \/ n < 2 * required)
        BY <1>1, <1>2, <2>2 DEF NewSizes
      <3>2. n = Size(b) * 2 \/ n < 2 * required
        BY <3>1
      <3> QED
        BY <1>1, <2>2, <3>1, <3>2
    <2> QED
      BY <2>1, <2>2
  <1>4. Size(g) = n
    <2> DEFINE C == {g.cells[i] : i \in 1..n}
    <2>1. g.cells \in [1..n -> C]
      BY <1>2
    <2> HIDE DEF C
    <2> QED
      BY <1>3, <2>1, FunctionIsSeq DEF Size
  <1> QED
    BY <1>3, <1>4

-----------------------------------------------------------------------------
LEMMA FileInitInv == FileInit => FileInv
  <1> SUFFICES ASSUME FileInit PROVE FileInv
    OBVIOUS
  <1>1. TypeInv /\ Text(buf) = <<>> /\ offered = <<>> /\ delivered = <<>>
    BY InitInv DEF FileInit, Inv, Intact, Init
  <1>2. FileTypeInv /\ InOrder
    BY <1>1, EmptySeq DEF FileTypeInv, InOrder, Pending
  <1>3. Size(buf) = InitialSize
    <2> DEFINE C == Char \cup {Junk}
    <2>1. [i \in 1..InitialSize |-> Junk] \in [1..InitialSize -> C]
      OBVIOUS
    <2>2. Len([i \in 1..InitialSize |-> Junk]) = InitialSize
      BY <2>1, FunctionIsSeq, BufferAssumption
    <2> QED
      BY <2>2 DEF FileInit, Init, EmptyBlock, Size
  <1>4. BoundedBlock
    BY <1>3, BufferAssumption DEF BoundedBlock
  <1> QED
    BY <1>2, <1>4 DEF FileInv

(* The block is emptied, and nothing else happens but a failure perhaps. *)
LEMMA FlushInv ==
    ASSUME FileInv, delivered' = delivered \o Pending, buf' = Flushed(buf),
           alive' \in BOOLEAN, offered' = offered, taken' \in Seq(Char)
    PROVE  FileInv'
  <1>1. Pending \in Seq(Char) /\ delivered' \in Seq(Char)
    BY PendingIsText
  <1>2. /\ buf' \in Block /\ buf'.cursor = 0 /\ Size(buf') = Size(buf)
        /\ Size(buf) \in Nat /\ Text(buf') = <<>>
    BY EmptiedBlock DEF FileInv, FileTypeInv, TypeInv
  <1>3. FileTypeInv'
    BY <1>1, <1>2 DEF FileInv, FileTypeInv, TypeInv
  <1>4. InOrder'
    BY <1>1, <1>2, ConcatEmptySeq DEF FileInv, InOrder, Pending
  <1>5. BoundedBlock'
    BY <1>2 DEF FileInv, BoundedBlock
  <1> QED
    BY <1>3, <1>4, <1>5 DEF FileInv

LEMMA EncodeInv ==
    ASSUME FileInv, NEW s \in Slices, NEW slack \in 0..Slack,
           EncodeToFile(s, Len(s) + slack)
    PROVE  FileInv'
  <1> DEFINE required == Len(s) + slack
  <1>1. s \in Seq(Char) /\ Len(s) \in Nat /\ slack \in Nat /\ slack <= Slack /\ Slack \in Nat
    BY BufferAssumption, LenProperties
  <1>2. /\ buf \in Block /\ buf.cursor \in Nat /\ buf.cursor <= Size(buf) /\ Size(buf) \in Nat
        /\ offered \in Seq(Char) /\ delivered \in Seq(Char) /\ taken \in Seq(Char)
        /\ alive \in BOOLEAN
    BY LenProperties DEF FileInv, FileTypeInv, TypeInv, Block, Size
  <1>3. Pending \in Seq(Char) /\ delivered \o Pending \in Seq(Char)
    BY PendingIsText
  <1>4. /\ offered' = offered \o s /\ UNCHANGED <<alive, taken>>
        /\ offered = delivered \o Pending
        /\ offered' \in Seq(Char)
    BY <1>1, <1>2, ConcatProperties DEF EncodeToFile, FileInv, InOrder
  <1>5. CASE RequestFits(required) /\ buf' = Put(buf, s) /\ delivered' = delivered
    <2>1. buf.cursor + Len(s) <= Size(buf)
      BY <1>1, <1>2, <1>5 DEF RequestFits, Room
    <2>2. /\ buf' \in Block /\ buf'.cursor = buf.cursor + Len(s)
          /\ Size(buf') = Size(buf) /\ Text(buf') = Pending \o s
      BY <1>1, <1>2, <1>5, <2>1, PutAppends DEF Pending
    <2>3. FileTypeInv'
      BY <1>2, <1>4, <1>5, <2>1, <2>2 DEF FileTypeInv, TypeInv
    <2>4. InOrder'
      <3>1. (delivered \o Pending) \o s = delivered \o (Pending \o s)
        <4>1. delivered \in Seq(Char) /\ Pending \in Seq(Char) /\ s \in Seq(Char)
          BY <1>1, <1>2, <1>3
        <4>2. \A d, p, t \in Seq(Char) : (d \o p) \o t = d \o (p \o t)
          BY ONLY ConcatAssociative
        <4> HIDE DEF Pending
        <4> QED
          BY ONLY <4>1, <4>2
      <3> QED
        BY <1>4, <1>5, <2>2, <3>1 DEF InOrder, Pending
    <2>5. BoundedBlock'
      BY <2>2 DEF FileInv, BoundedBlock
    <2> QED
      BY <2>3, <2>4, <2>5 DEF FileInv
  <1>6. ASSUME delivered' = delivered \o Pending,
               NEW b \in FileRoomFor(required), buf' = Put(b, s)
        PROVE  FileInv'
    <2>1. /\ b \in Block /\ b.cursor = 0 /\ required <= Size(b) /\ Text(b) = <<>>
          /\ Size(b) \in Nat
          /\ \/ Size(b) = Size(buf)
             \/ Size(b) <= (IF Debug THEN 1 ELSE 2) * required
      <3>1. /\ Flushed(buf) \in Block /\ Flushed(buf).cursor = 0
            /\ Size(Flushed(buf)) = Size(buf) /\ Text(Flushed(buf)) = <<>>
        BY <1>2, EmptiedBlock
      <3>2. CASE Size(buf) < required
        <4>1. b \in Grown(Flushed(buf), required) /\ required \in Nat
          BY <1>1, <1>6, <3>2 DEF FileRoomFor
        <4>2. Size(b) <= (IF Debug THEN 1 ELSE 2) * required
          BY <1>2, <3>2, <4>1, GrowthIsBounded
        <4>3. /\ b \in Block /\ b.cursor = 0 /\ 0 + required <= Size(b) /\ Text(b) = <<>>
          BY <1>2, <3>1, <4>1, GrowthKeepsText
        <4>4. Size(b) \in Nat
          BY <4>3, LenProperties DEF Block, Size
        <4> QED
          BY <4>1, <4>2, <4>3, <4>4
      <3>3. CASE ~(Size(buf) < required)
        BY <1>1, <1>2, <1>6, <3>1, <3>3 DEF FileRoomFor
      <3> QED
        BY <3>2, <3>3
    <2>2. b.cursor + Len(s) <= Size(b)
      BY <1>1, <2>1
    <2>3. /\ buf' \in Block /\ buf'.cursor = Len(s)
          /\ Size(buf') = Size(b) /\ Text(buf') = <<>> \o s
      <3>1. /\ Put(b, s) \in Block /\ Put(b, s).cursor = b.cursor + Len(s)
            /\ Size(Put(b, s)) = Size(b) /\ Text(Put(b, s)) = Text(b) \o s
        BY <1>1, <2>1, <2>2, PutAppends
      <3> QED
        BY <1>1, <1>6, <2>1, <3>1
    <2>4. Text(buf') = s
      BY <1>1, <2>3, ConcatEmptySeq
    <2>5. FileTypeInv'
      BY <1>1, <1>2, <1>3, <1>4, <1>6, <2>1, <2>2, <2>3 DEF FileTypeInv, TypeInv
    <2>6. InOrder'
      BY <1>4, <1>6, <2>4 DEF InOrder, Pending
    <2>7. BoundedBlock'
      <3>1. CASE Size(b) = Size(buf)
        BY <2>3, <3>1 DEF FileInv, BoundedBlock
      <3>2. CASE Size(b) <= (IF Debug THEN 1 ELSE 2) * required
        <4>1. Size(buf') <= (IF Debug THEN 1 ELSE 2) * (Len(s) + Slack)
          BY <1>1, <2>1, <2>3, <3>2
        <4> QED
          BY <4>1 DEF BoundedBlock
      <3> QED
        BY <2>1, <3>1, <3>2
    <2> QED
      BY <2>5, <2>6, <2>7 DEF FileInv
  <1> QED
    BY <1>5, <1>6 DEF EncodeToFile

LEMMA FileNextInv == FileInv /\ [FileNext]_fileVars => FileInv'
  <1> SUFFICES ASSUME FileInv, [FileNext]_fileVars PROVE FileInv'
    OBVIOUS
  <1>1. ASSUME NEW s \in Slices, NEW slack \in 0..Slack, EncodeToFile(s, Len(s) + slack)
        PROVE  FileInv'
    BY <1>1, EncodeInv
  <1>2. ASSUME NEW s \in Slices, NEW slack \in 0..Slack, FileOutOfMemory(Len(s) + slack)
        PROVE  FileInv'
    <2>1. taken \in Seq(Char) /\ alive' = FALSE /\ taken' = taken
      BY <1>2 DEF FileInv, FileTypeInv, TypeInv, FileOutOfMemory
    <2> QED
      BY <1>2, <2>1, FlushInv DEF FileOutOfMemory
  <1>3. CASE Flush
    <2>1. taken' \in Seq(Char) /\ alive' \in BOOLEAN
      BY <1>3, PendingIsText DEF Flush, FileInv, FileTypeInv, TypeInv
    <2> QED
      BY <1>3, <2>1, FlushInv DEF Flush
  <1>4. CASE WriteFails
    BY <1>4 DEF WriteFails, FileInv, FileTypeInv, TypeInv, InOrder, Pending, BoundedBlock
  <1>5. CASE UNCHANGED fileVars
    BY <1>5 DEF fileVars, vars, FileInv, FileTypeInv, TypeInv, InOrder, Pending, BoundedBlock
  <1> QED
    BY <1>1, <1>2, <1>3, <1>4, <1>5 DEF FileNext

LEMMA FileInvariance == FileSpec => []FileInv
  BY FileInitInv, FileNextInv, PTL DEF FileSpec

-----------------------------------------------------------------------------
(* The cursor of a FileBuffer never leaves its block, and only characters   *)
(* of the output are written.                                               *)
THEOREM FileTypeCorrect == FileSpec => []FileTypeInv
  BY FileInvariance, PTL DEF FileInv

(* While nothing has failed, the file followed by the block is the output. *)
THEOREM FileKeepsAll == FileSpec => []NothingLost
  <1>1. FileInv => NothingLost
    BY DEF FileInv, InOrder, NothingLost
  <1> QED
    BY <1>1, FileInvariance, PTL

(* Whatever fails and whenever, the file holds a prefix of the output. *)
THEOREM FileHoldsPrefix == FileSpec => []WrittenIsPrefix
  <1>1. FileInv => WrittenIsPrefix
    <2> SUFFICES ASSUME FileInv PROVE WrittenIsPrefix
      OBVIOUS
    <2>1. /\ delivered \in Seq(Char) /\ Pending \in Seq(Char)
          /\ offered = delivered \o Pending
      BY PendingIsText DEF FileInv, FileTypeInv, InOrder
    <2>2. /\ offered \in Seq(Char)
          /\ Len(offered) = Len(delivered) + Len(Pending)
          /\ Len(delivered) \in Nat /\ Len(Pending) \in Nat
          /\ \A i \in 1..Len(delivered) : offered[i] = delivered[i]
      BY <2>1, ConcatProperties, LenProperties
    <2>3. Len(delivered) <= Len(offered)
      BY <2>2
    <2>4. /\ SubSeq(offered, 1, Len(delivered)) \in Seq(Char)
          /\ Len(SubSeq(offered, 1, Len(delivered))) = Len(delivered)
          /\ \A i \in 1..Len(delivered) : SubSeq(offered, 1, Len(delivered))[i] = offered[i]
      BY <2>2, <2>3, Prefix
    <2>5. delivered = SubSeq(offered, 1, Len(delivered))
      BY <2>1, <2>2, <2>4, SeqEqual
    <2> QED
      BY <2>3, <2>5 DEF WrittenIsPrefix
  <1> QED
    BY <1>1, FileInvariance, PTL

(* However long the output, the block stays within the first one and twice  *)
(* the largest request.                                                     *)
THEOREM FileBlockBounded == FileSpec => []BoundedBlock
  BY FileInvariance, PTL DEF FileInv

-----------------------------------------------------------------------------
(* The steps of a FileBuffer are steps of the TextSink it promises to be.   *)

LEMMA FileInitMaps == FileInit => FileSink!Init
  <1> SUFFICES ASSUME FileInit PROVE FileSink!Init
    OBVIOUS
  <1>1. delivered \o Pending = <<>>
    BY FileInitInv DEF FileInv, InOrder, FileInit, Init
  <1> QED
    BY <1>1 DEF FileInit, Init, FileSink!Init

LEMMA FileNextMaps ==
    FileInv /\ FileInv' /\ [FileNext]_fileVars => [FileSink!Next]_FileSink!vars
  <1> SUFFICES ASSUME FileInv, FileInv', [FileNext]_fileVars
               PROVE  [FileSink!Next]_FileSink!vars
    OBVIOUS
  <1>1. delivered \o Pending = offered /\ delivered' \o Pending' = offered'
    BY DEF FileInv, InOrder
  <1>2. ASSUME NEW s \in Slices, NEW slack \in 0..Slack, EncodeToFile(s, Len(s) + slack)
        PROVE  FileSink!Next
    <2>1. alive /\ UNCHANGED <<alive, taken>> /\ offered' = offered \o s
      BY <1>2 DEF EncodeToFile
    <2>2. FileSink!Accept(s)
      BY <1>1, <2>1 DEF FileSink!Accept
    <2> QED
      BY <2>2 DEF FileSink!Next
  <1>3. ASSUME NEW s \in Slices, NEW slack \in 0..Slack, FileOutOfMemory(Len(s) + slack)
        PROVE  FileSink!Next
    BY <1>3 DEF FileOutOfMemory, FileSink!Fail, FileSink!Next
  <1>4. CASE Flush
    <2>1. alive /\ UNCHANGED <<alive, offered>> /\ taken' = offered
      BY <1>1, <1>4 DEF Flush
    <2>2. FileSink!Take
      BY <1>1, <2>1 DEF FileSink!Take
    <2> QED
      BY <2>2 DEF FileSink!Next
  <1>5. CASE WriteFails
    BY <1>5 DEF WriteFails, FileSink!Fail, FileSink!Next
  <1>6. CASE UNCHANGED fileVars
    BY <1>6 DEF fileVars, vars, FileSink!vars, Pending
  <1> QED
    BY <1>2, <1>3, <1>4, <1>5, <1>6 DEF FileNext

(* A FileBuffer implements TextSink: a Flush is invisible to the encoder.   *)
THEOREM FileIsSink == FileSpec => ImplementsFileSink
  BY FileInitInv, FileNextInv, FileInitMaps, FileNextMaps, PTL
     DEF FileSpec, ImplementsFileSink, FileSink!Spec
=============================================================================
