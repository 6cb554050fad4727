------------------------- MODULE ChunkBufferProofs -------------------------
(***************************************************************************)
(* For every input, set of escaped characters and size of the array: a     *)
(* ChunkBuffer writes into its array only, and the string it makes is what *)
(* the reader has noted.                                                   *)
(***************************************************************************)
EXTENDS ChunkBuffer, SequenceLemmas

-----------------------------------------------------------------------------
(* What the first n chunks stand for. *)
Pieces(cs, n) == [i \in 1..n |-> Written(cs[i])]

(* One chunk more appends what it stands for. *)
LEMMA PiecesAppend ==
    ASSUME NEW a, NEW b, NEW m \in Nat \ {0}, \A i \in 1..(m - 1) : a[i] = b[i],
           Written(b[m]) \in Seq(Escapes)
    PROVE  FlattenSeq(Pieces(b, m)) = FlattenSeq(Pieces(a, m - 1)) \o Written(b[m])
  <1> DEFINE g == Pieces(a, m - 1)
             h == Pieces(b, m)
  <1>1. Lists(g, m - 1) /\ Lists(h, m)
    BY DEF Lists, Pieces
  <1>2. \A i \in 1..(m - 1) : g[i] = h[i]
    BY DEF Pieces
  <1>3. h[m] = Written(b[m]) /\ h[m] \in Seq(Escapes)
    BY DEF Pieces
  <1> HIDE DEF g, h
  <1>4. FlattenSeq(h) = FlattenSeq(g) \o h[m]
    <2>1. m \in Nat /\ m # 0 /\ h[m] \in Seq(Escapes)
      BY <1>3
    <2> QED
      BY ONLY <1>1, <1>2, <2>1, FlattenMore
  <1> QED
    BY <1>3, <1>4 DEF g, h

-----------------------------------------------------------------------------
(* The inductive invariant.  It holds after a failure too: a Resize that    *)
(* gets no memory changes nothing the invariant speaks of.                  *)
Kept == Len(offered) = totalLength /\ Content = offered

ChunkInv == TypeInv /\ ChunkInArray /\ Kept

LEMMA NothingNoted == chunk = 1 => Content = <<>>
  <1> SUFFICES ASSUME chunk = 1 PROVE Content = <<>>
    OBVIOUS
  <1> DEFINE g == [i \in 1..(chunk - 1) |-> Written(chunks[i])]
             T == {g[i] : i \in 1..0}
  <1>1. g \in [1..0 -> T]
    OBVIOUS
  <1>2. g \in Seq(T) /\ Len(g) = 0
    BY <1>1, FunctionIsSeq
  <1>3. FlattenSeq(g) = <<>>
    <2> HIDE DEF g
    <2> QED
      BY <1>2, EmptySeq DEF FlattenSeq
  <1> QED
    BY <1>3 DEF Content

LEMMA InitInv == Init => ChunkInv
  <1> SUFFICES ASSUME Init PROVE ChunkInv
    OBVIOUS
  <1> DEFINE C == ChunkTypes \cup {Junk}
  <1>1. [i \in 1..InitialChunks |-> Junk] \in [1..InitialChunks -> C]
    OBVIOUS
  <1>2. chunks \in Seq(C) /\ Len(chunks) = InitialChunks
    BY <1>1, FunctionIsSeq, ChunkAssumption DEF Init
  <1>3. TypeInv
    BY <1>2, EmptySeq DEF Init, TypeInv
  <1>4. ChunkInArray
    BY <1>2, ChunkAssumption DEF Init, ChunkInArray
  <1>5. Content = <<>>
    BY NothingNoted DEF Init
  <1>6. Kept
    BY <1>5, EmptySeq DEF Init, Kept
  <1> QED
    BY <1>3, <1>4, <1>6 DEF ChunkInv

(* Filling the current chunk, which is there, and going on to the next. *)
LEMMA NoteInv ==
    ASSUME ChunkInv, NEW c \in ChunkTypes, NEW text \in Seq(Escapes), Note(c, text),
           Written(c) = text
    PROVE  ChunkInv'
  <1> DEFINE C == ChunkTypes \cup {Junk}
             filled == [chunks EXCEPT ![chunk] = c]
  <1>1. /\ chunks \in Seq(C) /\ chunk \in Nat \ {0} /\ chunk <= Len(chunks)
        /\ totalLength \in Nat /\ offered \in Seq(Escapes) /\ taken \in Seq(Escapes)
        /\ Len(chunks) \in Nat /\ alive \in BOOLEAN
    BY LenProperties DEF ChunkInv, TypeInv, ChunkInArray
  <1>2. /\ chunk' = chunk + 1 /\ totalLength' = totalLength + Len(text)
        /\ offered' = offered \o text /\ UNCHANGED <<alive, taken>>
        /\ \/ chunk' <= Len(chunks) /\ chunks' = filled
           \/ chunk' > Len(chunks) /\ chunks' = Resized(filled)
    BY DEF Note
  <1>3. filled \in Seq(C) /\ Len(filled) = Len(chunks)
        /\ filled[chunk] = c
        /\ \A i \in 1..(chunk - 1) : filled[i] = chunks[i]
    <2>1. chunks \in [1..Len(chunks) -> C]
      BY <1>1, LenProperties
    <2>2. filled \in [1..Len(chunks) -> C]
      BY <2>1
    <2>3. /\ filled[chunk] = c
          /\ \A i \in 1..(chunk - 1) : filled[i] = chunks[i]
      BY <1>1, <2>1
    <2> HIDE DEF filled
    <2> QED
      BY <1>1, <2>2, <2>3, FunctionIsSeq
  <1>4. /\ chunks' \in Seq(C) /\ chunk' <= Len(chunks')
        /\ chunks'[chunk] = c
        /\ \A i \in 1..(chunk - 1) : chunks'[i] = chunks[i]
    <2> HIDE DEF filled
    <2>1. CASE chunk' <= Len(chunks) /\ chunks' = filled
      BY <1>3, <2>1
    <2>2. CASE chunk' > Len(chunks) /\ chunks' = Resized(filled)
      <3> DEFINE n == 2 * Len(chunks)
      <3>1. chunks' = [i \in 1..n |-> IF i <= Len(chunks) THEN filled[i] ELSE Junk]
        BY <1>3, <2>2 DEF Resized
      <3>2. \A i \in 1..Len(chunks) : filled[i] \in C
        BY <1>3, ElementOfSeq
      <3>3. chunks' \in [1..n -> C] /\ n \in Nat
        BY <1>1, <3>1, <3>2
      <3>4. chunks' \in Seq(C) /\ Len(chunks') = n
        <4> HIDE DEF n, C
        <4> QED
          BY <3>3, FunctionIsSeq
      <3>5. \A i \in 1..chunk : chunks'[i] = filled[i]
        BY <1>1, <3>1
      <3>6. chunk' <= n
        BY <1>1, <1>2
      <3> QED
        BY <1>1, <1>3, <3>4, <3>5, <3>6
    <2> QED
      BY <1>2, <2>1, <2>2
  <1>5. Len(text) \in Nat /\ Len(offered) \in Nat
        /\ offered \o text \in Seq(Escapes)
        /\ Len(offered \o text) = Len(offered) + Len(text)
    BY <1>1, ConcatProperties, LenProperties
  <1>6. TypeInv'
    BY <1>1, <1>2, <1>4, <1>5 DEF TypeInv
  <1>7. ChunkInArray'
    <2>1. c # Junk
      BY ChunkAssumption
    <2>2. \A i \in 1..chunk : chunks'[i] # Junk
      BY <1>1, <1>4, <2>1 DEF ChunkInv, ChunkInArray
    <2> QED
      BY <1>1, <1>2, <1>4, <2>2 DEF ChunkInArray
  <1>8. Content' = offered'
    <2>1. \A i \in 1..(chunk - 1) : chunks[i] = chunks'[i]
      BY <1>4
    <2>2. Written(chunks'[chunk]) = text
      BY <1>4
    <2>3. FlattenSeq(Pieces(chunks', chunk)) = FlattenSeq(Pieces(chunks, chunk - 1)) \o text
      BY <1>1, <2>1, <2>2, PiecesAppend
    <2>4. Content = FlattenSeq(Pieces(chunks, chunk - 1))
      BY DEF Content, Pieces
    <2>5. Content' = FlattenSeq(Pieces(chunks', chunk))
      <3>1. chunk' - 1 = chunk
        BY <1>1, <1>2
      <3> QED
        BY <3>1 DEF Content, Pieces, Written
    <2> QED
      BY <1>2, <2>3, <2>4, <2>5 DEF ChunkInv, Kept
  <1>9. Kept'
    BY <1>1, <1>2, <1>5, <1>8 DEF ChunkInv, Kept
  <1> QED
    BY <1>6, <1>7, <1>9 DEF ChunkInv

LEMMA NextInv == ChunkInv /\ [Next]_vars => ChunkInv'
  <1> SUFFICES ASSUME ChunkInv, [Next]_vars PROVE ChunkInv'
    OBVIOUS
  <1>1. Input \in Seq(Escapes) /\ Len(Input) \in Nat
    BY ChunkAssumption, LenProperties
  <1>2. ASSUME NEW first \in 1..Len(Input), NEW size \in 1..(Len(Input) - first + 1),
               AppendSlice(first, size)
        PROVE  ChunkInv'
    <2> DEFINE c == SliceChunk(first, size)
               text == SubSeq(Input, first, first + size - 1)
    <2>1. c \in ChunkTypes
      BY <1>1 DEF ChunkTypes, SliceChunk
    <2>2. \A i \in first..(first + size - 1) : Input[i] \in Escapes
      BY <1>1, ElementOfSeq
    <2>3. text \in Seq(Escapes)
      BY <1>1, <2>2, SubSeqProperties
    <2>4. Written(c) = text
      BY DEF Written, SliceChunk
    <2>5. Note(c, text)
      BY <1>2 DEF AppendSlice
    <2> HIDE DEF c, text
    <2> QED
      BY <2>1, <2>3, <2>4, <2>5, NoteInv
  <1>3. ASSUME NEW ch \in Escapes, AppendChar(ch)
        PROVE  ChunkInv'
    <2> DEFINE c == CharChunk(ch)
               text == <<ch>>
    <2>1. c \in ChunkTypes /\ text \in Seq(Escapes)
      BY DEF ChunkTypes, CharChunk
    <2>2. Written(c) = text
      BY DEF Written, CharChunk
    <2>3. Note(c, text)
      BY <1>3 DEF AppendChar
    <2> HIDE DEF c, text
    <2> QED
      BY <2>1, <2>2, <2>3, NoteInv
  <1>4. CASE ResizeFails
    BY <1>4 DEF ResizeFails, ChunkInv, TypeInv, ChunkInArray, Kept, Content, Written
  <1>5. CASE NewString
    <2>1. Content \in Seq(Escapes)
      BY DEF ChunkInv, TypeInv, Kept
    <2> QED
      BY <1>5, <2>1 DEF NewString, ChunkInv, TypeInv, ChunkInArray, Kept, Content, Written
  <1>6. CASE Reset
    <2>1. Content' = <<>>
      <3>1. chunk' = 1
        BY <1>6 DEF Reset
      <3>2. (chunk = 1 => Content = <<>>)'
        BY NothingNoted, PTL
      <3> QED
        BY <3>1, <3>2
    <2>2. /\ chunk' = 1 /\ totalLength' = 0 /\ offered' = <<>>
          /\ UNCHANGED <<chunks, alive, taken>>
      BY <1>6 DEF Reset
    <2>3. Len(chunks) \in Nat /\ 1 <= Len(chunks)
      BY LenProperties DEF ChunkInv, TypeInv, ChunkInArray
    <2>4. TypeInv' /\ ChunkInArray'
      BY <2>2, <2>3, EmptySeq DEF ChunkInv, TypeInv, ChunkInArray
    <2>5. Kept'
      BY <2>1, <2>2, EmptySeq DEF Kept
    <2> QED
      BY <2>4, <2>5 DEF ChunkInv
  <1>7. CASE UNCHANGED vars
    BY <1>7 DEF vars, ChunkInv, TypeInv, ChunkInArray, Kept, Content, Written
  <1> QED
    BY <1>2, <1>3, <1>4, <1>5, <1>6, <1>7 DEF Next

LEMMA Invariance == Spec => []ChunkInv
  BY InitInv, NextInv, PTL DEF Spec

-----------------------------------------------------------------------------
(* What a ChunkBuffer notes and what it makes of it is text.                *)
THEOREM ChunkTypeCorrect == Spec => []TypeInv
  BY Invariance, PTL DEF ChunkInv

(* AppendSlice and AppendChar write inside the array, however often it has  *)
(* been resized, and nothing is written of a chunk that was not filled.     *)
THEOREM ChunkStaysInArray == Spec => []ChunkInArray
  BY Invariance, PTL DEF ChunkInv

(* NewString allocates the length that Write fills, and Write makes the     *)
(* text the reader appended.                                                *)
THEOREM ChunksMakeText == Spec => []NothingMissing
  <1>1. ChunkInv => NothingMissing
    BY DEF ChunkInv, Kept, NothingMissing
  <1> QED
    BY <1>1, Invariance, PTL

-----------------------------------------------------------------------------
(* The steps of a ChunkBuffer are steps of the TextSink it promises to be.  *)

LEMMA InitMaps == Init => Sink!Init
  <1> SUFFICES ASSUME Init PROVE Sink!Init
    OBVIOUS
  <1>1. Content = <<>>
    BY NothingNoted DEF Init
  <1> QED
    BY <1>1 DEF Init, Sink!Init

LEMMA NoteMaps ==
    ASSUME ChunkInv, ChunkInv', NEW s \in Slices, NEW c, Note(c, s)
    PROVE  Sink!Next
  <1>1. /\ alive /\ UNCHANGED <<alive, taken>>
        /\ Content = offered /\ Content' = offered' /\ offered' = offered \o s
    BY DEF Note, ChunkInv, Kept
  <1>2. Sink!Accept(s)
    BY <1>1 DEF Sink!Accept
  <1> QED
    BY <1>2 DEF Sink!Next

LEMMA NextMaps == ChunkInv /\ ChunkInv' /\ [Next]_vars => [Sink!Next]_Sink!vars
  <1> SUFFICES ASSUME ChunkInv, ChunkInv', [Next]_vars PROVE [Sink!Next]_Sink!vars
    OBVIOUS
  <1>1. ASSUME NEW first \in 1..Len(Input), NEW size \in 1..(Len(Input) - first + 1),
               AppendSlice(first, size)
        PROVE  Sink!Next
    <2>1. Len(Input) \in Nat
      BY ChunkAssumption, LenProperties
    <2>2. first + size - 1 \in 1..Len(Input)
      BY <2>1
    <2>3. SubSeq(Input, first, first + size - 1) \in Slices
      BY <2>2 DEF Slices
    <2> QED
      BY <1>1, <2>3, NoteMaps DEF AppendSlice
  <1>2. ASSUME NEW ch \in Escapes, AppendChar(ch) PROVE Sink!Next
    <2>1. <<ch>> \in Slices
      BY DEF Slices
    <2> QED
      BY <1>2, <2>1, NoteMaps DEF AppendChar
  <1>3. CASE ResizeFails
    BY <1>3 DEF ResizeFails, Sink!Fail, Sink!Next
  <1>4. CASE NewString
    <2>1. Content' = Content
      BY <1>4 DEF NewString, Content, Written
    <2> QED
      BY <1>4, <2>1 DEF NewString, Sink!Take, Sink!Next
  <1>5. CASE Reset
    <2>1. Content' = <<>> /\ alive /\ UNCHANGED <<alive, taken>>
      BY <1>5 DEF Reset, ChunkInv, Kept
    <2> QED
      BY <2>1 DEF Sink!Clear, Sink!Next
  <1>6. CASE UNCHANGED vars
    <2>1. Content' = Content
      BY <1>6 DEF vars, Content, Written
    <2> QED
      BY <1>6, <2>1 DEF vars, Sink!vars
  <1> QED
    BY <1>1, <1>2, <1>3, <1>4, <1>5, <1>6 DEF Next

(* A ChunkBuffer implements TextSink: where the pieces of a string lie, and *)
(* how often their list was enlarged, is invisible.                         *)
THEOREM ChunkIsSink == Spec => ImplementsSink
  BY InitInv, NextInv, InitMaps, NextMaps, PTL DEF Spec, ImplementsSink, Sink!Spec
=============================================================================
