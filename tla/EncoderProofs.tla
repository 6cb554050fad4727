---------------------------- MODULE EncoderProofs ----------------------------
(***************************************************************************)
(* What holds of the encoder for every object graph, every limit of        *)
(* nesting and every size of the buffer: types, the room and the level it  *)
(* keeps, and, from TextInv on, that a call hands its caller the JSON text *)
(* of the object or the exception that ends it (EncodeCall).               *)
(***************************************************************************)
EXTENDS EncoderCorrect, SequenceLemmas, SequenceTheorems, FiniteSetTheorems,
        TLAPS

Containers == MappingKinds \cup ListKinds

-----------------------------------------------------------------------------
(* The objects. *)

LEMMA ObjectFacts ==
    ASSUME NEW n \in Node
    PROVE  /\ Obj[n].kind \in Kinds /\ Obj[n].keyKind \in KeyKinds
           /\ Obj[n].width \in Nat /\ Obj[n].need \in Nat
           /\ Obj[n].width <= Obj[n].need
           /\ Obj[n].keys \in Seq(Node) /\ Obj[n].items \in Seq(Node)
           /\ Len(Obj[n].items) \in Nat
           /\ Obj[n].kind \in MappingKinds => Len(Obj[n].keys) = Len(Obj[n].items)
           /\ Obj[n].to \in Node
  <1>1. Obj[n] \in ObjType
    BY ObjectAssumption
  <1>2. Obj[n].width <= Obj[n].need
        /\ (Obj[n].kind \in MappingKinds => Len(Obj[n].keys) = Len(Obj[n].items))
    BY ObjectAssumption
  <1> QED
    BY <1>1, <1>2, LenProperties DEF ObjType

LEMMA CharactersFacts ==
    ASSUME NEW n \in Node
    PROVE  Characters(n) \in Seq(Cell) /\ Len(Characters(n)) = Obj[n].width
  <1>1. Obj[n].width \in Nat
    BY ObjectFacts
  <1>2. n \in Cell
    BY DEF Cell
  <1> QED
    BY <1>1, <1>2 DEF Characters

(* The branch for a container is taken only by an object of that kind. *)
LEMMA BranchIsKind ==
    ASSUME NEW n \in Node, Branch(n) \in Containers
    PROVE  Obj[n].kind = Branch(n)
  BY ObjectFacts
     DEF Branch, BranchOf, Containers, MappingKinds, ListKinds, KeyKinds, NoBranch

(* What Dispatched says of the state. *)
LEMMA DispatchFacts ==
    ASSUME NEW kinds, Dispatched(kinds)
    PROVE  pc = "call" /\ Branch(node) \in kinds
  BY DEF Dispatched

LEMMA CallingFacts ==
    ASSUME NEW kind, Calling(kind)
    PROVE  pc = "call" /\ Branch(node) = kind
  BY DEF Calling, Dispatched

-----------------------------------------------------------------------------
(* The buffer. *)

LEMMA PutFacts ==
    ASSUME NEW o \in Buffer, NEW s \in Seq(Cell)
    PROVE  /\ Put(o, s) \in Buffer
           /\ Put(o, s).size = o.size
           /\ Put(o, s).text = o.text \o s
           /\ Len(Put(o, s).text) = Len(o.text) + Len(s)
  BY ConcatProperties DEF Put, Buffer

LEMMA RetractFacts ==
    ASSUME NEW o \in Buffer, o.text # <<>>
    PROVE  /\ Retract(o) \in Buffer
           /\ Retract(o).size = o.size
           /\ Len(Retract(o).text) = Len(o.text) - 1
  <1>1. o.text \in Seq(Cell) /\ Len(o.text) \in Nat /\ Len(o.text) # 0
    BY EmptySeq, LenProperties DEF Buffer
  <1>2. SubSeq(o.text, 1, Len(o.text) - 1) \in Seq(Cell)
        /\ Len(SubSeq(o.text, 1, Len(o.text) - 1)) = Len(o.text) - 1
    BY <1>1, SubSeqProperties
  <1> QED
    BY <1>2 DEF Retract, Buffer

LEMMA RetractType ==
    ASSUME NEW o \in Buffer
    PROVE  Retract(o) \in Buffer
  <1>1. o.text \in Seq(Cell) /\ Len(o.text) \in Nat
    BY LenProperties DEF Buffer
  <1>2. \A k \in 1..(Len(o.text) - 1) : o.text[k] \in Cell
    BY <1>1, ElementOfSeq
  <1>3. SubSeq(o.text, 1, Len(o.text) - 1) \in Seq(Cell)
    BY <1>1, <1>2, SubSeqProperties
  <1> QED
    BY <1>3 DEF Retract, Buffer

LEMMA NewSizesFacts ==
    ASSUME NEW old \in Nat, NEW needed \in Nat, NEW n \in NewSizes(old, needed)
    PROVE  n \in Nat /\ n >= needed
  <1>1. CASE Debug
    BY <1>1 DEF NewSizes
  <1>2. CASE ~Debug
    BY <1>2 DEF NewSizes
  <1> QED
    BY <1>1, <1>2

LEMMA FlushedFacts ==
    ASSUME NEW o \in Buffer
    PROVE  Flushed(o) \in Buffer /\ Flushed(o).text = <<>> /\ Flushed(o).size = o.size
  BY ConcatProperties DEF Flushed, Buffer

(* Encoder_EnsureCapacity leaves room for what was requested. *)
LEMMA ReservedFacts ==
    ASSUME NEW o \in Buffer, NEW required \in Nat, NEW r \in Reserved(o, required)
    PROVE  r \in Buffer /\ r.size - Len(r.text) >= required /\ Len(r.text) \in Nat
  <1>1. o.size \in Nat /\ Len(o.text) \in Nat
    BY LenProperties DEF Buffer
  <1>2. CASE Fits(o, required)
    BY <1>1, <1>2 DEF Reserved, Fits
  <1>3. CASE ~Fits(o, required) /\ target = "memory"
    <2>1. PICK n \in NewSizes(o.size, Len(o.text) + required) : r = Resized(o, n)
      BY <1>3 DEF Reserved
    <2>2. n \in Nat /\ n >= Len(o.text) + required
      BY <1>1, <2>1, NewSizesFacts
    <2> QED
      BY <1>1, <2>1, <2>2 DEF Resized, Buffer
  <1>4. CASE ~Fits(o, required) /\ target # "memory" /\ MayFlush(o) /\ o.size < required
    <2>1. PICK n \in NewSizes(o.size, required) : r = Resized(Flushed(o), n)
      BY <1>4 DEF Reserved
    <2>2. n \in Nat /\ n >= required
      BY <1>1, <2>1, NewSizesFacts
    <2> QED
      BY <1>1, <2>1, <2>2, FlushedFacts DEF Resized, Buffer
  <1>5. CASE ~Fits(o, required) /\ target # "memory" /\ MayFlush(o) /\ ~(o.size < required)
    BY <1>1, <1>5, FlushedFacts DEF Reserved
  <1>6. CASE ~Fits(o, required) /\ target # "memory" /\ ~MayFlush(o)
    BY <1>6 DEF Reserved
  <1> QED
    BY <1>2, <1>3, <1>4, <1>5, <1>6

LEMMA NoRoomFacts ==
    ASSUME NEW o \in Buffer, NEW required, NoRoom(o, required)
    PROVE  /\ out' \in Buffer /\ out'.size = o.size
           /\ Len(out'.text) <= Len(o.text) /\ Len(out'.text) \in Nat
           /\ exc' \in Exceptions /\ exc' # NoExc
  <1>1. Len(o.text) \in Nat
    BY LenProperties DEF Buffer
  <1>2. exc' \in Exceptions /\ exc' # NoExc
    BY DEF NoRoom, Raise, Exceptions, NoExc
  <1>3. out' = o \/ out' = Flushed(o)
    BY DEF NoRoom
  <1> QED
    BY <1>1, <1>2, <1>3, FlushedFacts

-----------------------------------------------------------------------------
(* The stack: how many of its frames count, and the items they hold. *)

LevelCount(s) == Cardinality(Levels(s))

LEMMA LevelsFinite ==
    ASSUME NEW s \in Seq(Frame)
    PROVE  /\ Levels(s) \subseteq 1..Len(s)
           /\ IsFiniteSet(Levels(s)) /\ LevelCount(s) \in Nat
  <1>1. Len(s) \in Nat
    BY LenProperties
  <1>2. Levels(s) \subseteq 1..Len(s)
    BY DEF Levels
  <1>3. IsFiniteSet(1..Len(s))
    BY <1>1, FS_Interval
  <1> QED
    BY <1>2, <1>3, FS_Subset, FS_CardinalityType DEF LevelCount

LEMMA LevelsEmpty == LevelCount(<<>>) = 0
  <1>1. Levels(<<>>) = {}
    BY DEF Levels
  <1> QED
    BY <1>1, FS_EmptySet DEF LevelCount

LEMMA LevelsPush ==
    ASSUME NEW s \in Seq(Frame), NEW f \in Frame
    PROVE  LevelCount(Append(s, f)) =
               IF f.how = "Enum" THEN LevelCount(s) ELSE LevelCount(s) + 1
  <1>1. /\ Len(s) \in Nat /\ Len(Append(s, f)) = Len(s) + 1
        /\ \A k \in 1..Len(s) : Append(s, f)[k] = s[k]
        /\ Append(s, f)[Len(s) + 1] = f
    BY AppendProperties, LenProperties
  <1>2. CASE f.how = "Enum"
    <2>1. Levels(Append(s, f)) = Levels(s)
      BY <1>1, <1>2 DEF Levels
    <2> QED
      BY <1>2, <2>1 DEF LevelCount
  <1>3. CASE f.how # "Enum"
    <2>1. Levels(Append(s, f)) = Levels(s) \cup {Len(s) + 1}
      BY <1>1, <1>3 DEF Levels
    <2>2. Len(s) + 1 \notin Levels(s)
      BY <1>1 DEF Levels
    <2> QED
      BY <1>3, <2>1, <2>2, LevelsFinite, FS_AddElement DEF LevelCount
  <1> QED
    BY <1>2, <1>3

LEMMA OneOrMore == \A n \in Nat : n >= 1 => n = 1 \/ n > 1
  OBVIOUS

LEMMA TopFacts ==
    ASSUME stack \in Seq(Frame), stack # <<>>
    PROVE  /\ Top \in Frame /\ Below \in Seq(Frame)
           /\ Len(stack) \in Nat /\ Len(stack) >= 1 /\ Len(Below) = Len(stack) - 1
           /\ \A k \in 1..Len(Below) : Below[k] = stack[k]
           /\ LevelCount(stack) =
                  IF Top.how = "Enum" THEN LevelCount(Below) ELSE LevelCount(Below) + 1
           /\ LevelCount(Below) \in Nat
  <1>1. Len(stack) \in Nat /\ Len(stack) >= 1
    BY LenProperties, EmptySeq
  <1>2. Below \in Seq(Frame) /\ Len(Below) = Len(stack) - 1
        /\ \A k \in 1..Len(Below) : Below[k] = stack[k]
    <2>1. Len(stack) - 1 \in Nat /\ 1 + (Len(stack) - 1) - 1 = Len(stack) - 1
          /\ \A k \in 1..(Len(stack) - 1) : 1 + k - 1 = k
      BY <1>1
    <2>2. \A k \in 1..(Len(stack) - 1) : k \in 1..Len(stack)
      BY <1>1
    <2>3. Below \in Seq(Frame) /\ Len(Below) = Len(stack) - 1
      <3>1. \A k \in 1..(Len(stack) - 1) : stack[k] \in Frame
        BY <2>2, ElementOfSeq
      <3>2. 1 \in Int /\ Len(stack) - 1 \in Int
        BY <1>1
      <3>3. Below \in Seq(Frame)
        BY <3>1, <3>2, SubSeqProperties DEF Below
      <3>4. CASE Len(stack) = 1
        <4>1. Len(Below) = 0
          BY <3>1, <3>2, <3>4, SubSeqProperties DEF Below
        <4> QED
          BY <3>3, <3>4, <4>1
      <3>5. CASE Len(stack) > 1
        <4>1. Len(Below) = Len(stack) - 1 - 1 + 1
          BY <1>1, <3>1, <3>2, <3>5, SubSeqProperties DEF Below
        <4> QED
          BY <1>1, <3>3, <4>1
      <3>6. Len(stack) = 1 \/ Len(stack) > 1
        BY <1>1, OneOrMore, Zenon
      <3> QED
        BY <3>4, <3>5, <3>6
    <2>4. \A k \in 1..(Len(stack) - 1) : Below[k] = stack[k]
      BY <1>1, <2>1, <2>2, SubSeqProperties DEF Below
    <2> QED
      BY <2>3, <2>4
  <1>3. Top \in Frame
    BY <1>1, ElementOfSeq DEF Top
  <1>4. stack = Append(Below, Top)
    <2>1. /\ Append(Below, Top) \in Seq(Frame) /\ Len(Append(Below, Top)) = Len(stack)
          /\ \A k \in 1..Len(stack) : Append(Below, Top)[k] = stack[k]
      BY <1>1, <1>2, <1>3, AppendProperties DEF Top
    <2> QED
      BY <2>1, SeqEqual
  <1> QED
    BY <1>1, <1>2, <1>3, <1>4, LevelsPush, LevelsFinite

(* IndexInItems, frame by frame. *)
Fitting(f) ==
    f.how \in Containers =>
        Obj[f.node].kind = f.how /\ f.i <= Len(Obj[f.node].items)
Fetched(f) == f.how \in Containers => f.i >= 1
Settled(s) == \A k \in 1..Len(s) : Fitting(s[k]) /\ Fetched(s[k])

LEMMA StackSettled ==
    ASSUME stack \in Seq(Frame), IndexInItems
    PROVE  /\ pc # "loop" => Settled(stack)
           /\ stack # <<>> => Settled(Below) /\ Fitting(Top)
           /\ stack # <<>> /\ pc # "loop" => Fetched(Top)
  <1>1. pc # "loop" => Settled(stack)
    BY DEF IndexInItems, Settled, Fitting, Fetched, Containers
  <1>2. ASSUME stack # <<>> PROVE Settled(Below) /\ Fitting(Top)
    BY <1>2, TopFacts DEF IndexInItems, Settled, Fitting, Fetched, Containers, Top
  <1>3. ASSUME stack # <<>>, pc # "loop" PROVE Fetched(Top)
    BY <1>1, <1>3, TopFacts DEF Settled, Top
  <1> QED
    BY <1>1, <1>2, <1>3

LEMMA SettledStack ==
    ASSUME NEW s \in Seq(Frame), Settled(s), stack' = s
    PROVE  stack' \in Seq(Frame) /\ IndexInItems'
  BY DEF IndexInItems, Settled, Fitting, Fetched, Containers

LEMMA SettledPush ==
    ASSUME NEW s \in Seq(Frame), Settled(s),
           NEW f \in Frame, Fitting(f), pc' # "loop" => Fetched(f),
           stack' = Append(s, f)
    PROVE  /\ stack' \in Seq(Frame) /\ stack' # <<>> /\ Top' = f
           /\ IndexInItems'
  <1>1. /\ stack' \in Seq(Frame) /\ Len(s) \in Nat /\ Len(stack') = Len(s) + 1
        /\ \A k \in 1..Len(s) : stack'[k] = s[k]
        /\ stack'[Len(s) + 1] = f
    BY AppendProperties, LenProperties
  <1>2. IndexInItems'
    BY <1>1 DEF IndexInItems, Settled, Fitting, Fetched, Containers
  <1>3. stack' # <<>>
    BY <1>1, EmptySeq
  <1> QED
    BY <1>1, <1>2, <1>3 DEF Top

-----------------------------------------------------------------------------
(***************************************************************************)
(* The inductive invariant, without the space in the buffer.  TypeOK and   *)
(* IndexInItems make every step well defined; DepthCountsLevels says what  *)
(* recursionDepth is until a failure, and SomeoneReports what remains true *)
(* of it afterwards.                                                       *)
(***************************************************************************)
Core == TypeOK /\ DepthCountsLevels /\ SomeoneReports

LEMMA CoreInit == Init => Core
  <1> SUFFICES ASSUME Init PROVE Core
    OBVIOUS
  <1>1. out \in Buffer /\ refs \in [FrameKinds -> Int] /\ exc \in Exceptions
    BY EncoderAssumption DEF Init, Buffer, Exceptions, NoExc
  <1>2. stack \in Seq(Frame) /\ IndexInItems
    BY DEF Init, IndexInItems
  <1>3. TypeOK
    BY <1>1, <1>2 DEF Init, TypeOK
  <1>4. DepthCountsLevels
    BY LevelsEmpty, ObjectAssumption DEF Init, DepthCountsLevels, LevelCount
  <1> QED
    BY <1>3, <1>4 DEF Init, Core, SomeoneReports

LEMMA CoreFacts ==
    ASSUME Core
    PROVE  /\ out \in Buffer /\ node \in Node /\ depth \in Nat /\ exc \in Exceptions
           /\ stack \in Seq(Frame) /\ IndexInItems
           /\ refs \in [FrameKinds -> Int]
           /\ pc \in {"call", "loop", "return", "returned"} =>
                 depth = LevelCount(stack) /\ depth <= MaxDepth
           /\ LevelCount(stack) \in Nat
           /\ MaxDepth \in Nat /\ MaxDepth >= 1
  BY LevelsFinite, ObjectAssumption DEF Core, TypeOK, DepthCountsLevels, LevelCount

LEMMA KindFacts ==
    /\ {"ItemsView", "Dataclass", "Iterable", "ToJson", "Default", "Enum"}
            \subseteq FrameKinds
    /\ {1, 0, -1, -2} \subseteq Int
  BY DEF FrameKinds, MappingKinds, ListKinds, WrapperKinds

LEMMA HoldType ==
    ASSUME Core, NEW how \in FrameKinds, NEW k \in Int, Hold(how, k)
    PROVE  refs' \in [FrameKinds -> Int]
  BY DEF Core, TypeOK, Hold

LEMMA RaiseFacts ==
    ASSUME NEW type \in {"NoMemory", "Callback", "Encode", "Recursion"}, Raise(type)
    PROVE  exc' \in Exceptions /\ exc' # NoExc
  BY DEF Raise, Exceptions, NoExc

(* The state after a step, apart from the stack, the depth and the result. *)
Plain == /\ UNCHANGED <<target, root>>
         /\ out' \in Buffer
         /\ node' \in Node
         /\ refs' \in [FrameKinds -> Int]

(* A failure with an exception, in the function on top or in one it called. *)
LEMMA Fails ==
    ASSUME Core, Plain,
           \/ pc # "loop" /\ stack' = stack
           \/ stack # <<>> /\ stack' = Below,
           depth' \in Nat, pc' = "fail", exc' \in Exceptions, exc' # NoExc
    PROVE  Core'
  <1>1. stack' \in Seq(Frame) /\ IndexInItems'
    BY CoreFacts, TopFacts, StackSettled, SettledStack
  <1> QED
    BY <1>1 DEF Core, Plain, TypeOK, DepthCountsLevels, SomeoneReports

(* A failure because of the depth, which nobody has reported yet. *)
LEMMA DepthFails ==
    ASSUME Core, Plain, pc = "call", EnterFails
    PROVE  Core'
  <1>1. stack' = stack /\ stack' \in Seq(Frame) /\ IndexInItems'
    BY CoreFacts, StackSettled, SettledStack DEF EnterFails
  <1>2. depth = LevelCount(stack) /\ depth <= MaxDepth /\ depth + 1 > MaxDepth
        /\ depth' = depth + 1 /\ pc' = "fail" /\ exc' = exc
    BY CoreFacts DEF EnterFails, TooDeep, Fail
  <1>3. LevelCount(stack) = MaxDepth /\ depth' > MaxDepth /\ depth' \in Nat
    BY <1>2, CoreFacts
  <1>4. TypeOK'
    BY <1>1, <1>2, <1>3, CoreFacts DEF Core, Plain, TypeOK
  <1>5. SomeoneReports'
    BY <1>1, <1>2, <1>3 DEF SomeoneReports, LevelCount
  <1> QED
    BY <1>2, <1>4, <1>5 DEF Core, DepthCountsLevels

(* A container has been entered and begins its loop. *)
LEMMA Enters ==
    ASSUME Core, Plain, pc = "call", node' = node, exc' \in Exceptions,
           NEW how \in Containers, Branch(node) = how, Enter(how)
    PROVE  Core'
  <1> DEFINE f == NewFrame(how, FALSE)
  <1>1. f \in Frame /\ f.how # "Enum" /\ Fitting(f)
    BY CoreFacts, BranchIsKind, ObjectFacts
       DEF NewFrame, Frame, FrameKinds, Containers, MappingKinds, ListKinds, Fitting
  <1>2. stack' = Append(stack, f) /\ pc' = "loop" /\ depth' = depth + 1
        /\ ~(depth + 1 > MaxDepth)
    BY DEF Enter, Push, TooDeep
  <1> HIDE DEF f
  <1>3. stack' \in Seq(Frame) /\ IndexInItems'
    BY <1>1, <1>2, CoreFacts, StackSettled, SettledPush
  <1>4. LevelCount(stack)' = LevelCount(stack) + 1
    BY <1>1, <1>2, CoreFacts, LevelsPush DEF LevelCount, Levels
  <1>5. TypeOK'
    BY <1>2, <1>3, CoreFacts DEF Core, Plain, TypeOK
  <1>6. DepthCountsLevels'
    BY <1>2, <1>4, CoreFacts DEF DepthCountsLevels, LevelCount
  <1> QED
    BY <1>2, <1>5, <1>6 DEF Core, SomeoneReports

(* The function on top goes on with the same levels around it. *)
LEMMA GoesOn ==
    ASSUME Core, Plain, pc \in {"call", "loop", "return"},
           pc' \in {"call", "loop", "return", "returned"},
           stack' \in Seq(Frame), IndexInItems',
           LevelCount(stack') = LevelCount(stack),
           depth' = depth, exc' \in Exceptions
    PROVE  Core'
  <1>1. TypeOK'
    BY CoreFacts DEF Core, Plain, TypeOK
  <1>2. DepthCountsLevels'
    BY CoreFacts DEF DepthCountsLevels, LevelCount
  <1> QED
    BY <1>1, <1>2 DEF Core, SomeoneReports

(* A level has been left. *)
LEMMA LevelLeft ==
    ASSUME Core, Plain, pc \in {"loop", "return"}, stack # <<>>,
           stack' = Below, pc' = "return", exc' = exc,
           depth' = IF Top.how = "Enum" THEN depth ELSE depth - 1
    PROVE  Core'
  <1>1. stack' \in Seq(Frame) /\ IndexInItems'
    BY CoreFacts, TopFacts, StackSettled, SettledStack
  <1>2. depth' = LevelCount(Below) /\ depth' \in Nat /\ depth' <= depth
    BY CoreFacts, TopFacts
  <1>3. TypeOK'
    BY <1>1, <1>2, CoreFacts DEF Core, Plain, TypeOK
  <1>4. DepthCountsLevels'
    BY <1>2, CoreFacts DEF DepthCountsLevels, LevelCount
  <1> QED
    BY <1>3, <1>4 DEF Core, SomeoneReports

-----------------------------------------------------------------------------
(* The steps, in the groups of Next. *)

LEMMA ExtraNat == Extra \in Nat
  BY EncoderAssumption

LEMMA LeafFacts ==
    ASSUME Core, CallingLeaf
    PROVE  /\ LeafStarts \subseteq Buffer
           /\ LeafRequest(node) \in Nat
           /\ Characters(node) \o ClosingQuote \in Seq(Cell)
           /\ Len(Characters(node) \o ClosingQuote) <= Obj[node].need + 1
           /\ Len(Characters(node) \o ClosingQuote) \in Nat
  <1>1. out \in Buffer /\ node \in Node
    BY CoreFacts
  <1>2. <<Quote>> \in Seq(Cell)
    BY DEF Cell, Punctuation
  <1>3. LeafStarts \subseteq Buffer
    BY <1>1, <1>2, PutFacts, ReservedFacts, ExtraNat DEF LeafStarts
  <1>4. LeafRequest(node) \in Nat
    BY <1>1, ObjectFacts, ExtraNat DEF LeafRequest
  <1>5. ClosingQuote \in Seq(Cell) /\ Len(ClosingQuote) <= 1 /\ Len(ClosingQuote) \in Nat
    BY <1>2 DEF ClosingQuote
  <1>6. Characters(node) \in Seq(Cell) /\ Len(Characters(node)) = Obj[node].width
        /\ Obj[node].width \in Nat /\ Obj[node].need \in Nat
        /\ Obj[node].width <= Obj[node].need
    BY <1>1, CharactersFacts, ObjectFacts
  <1>7. Characters(node) \o ClosingQuote \in Seq(Cell)
        /\ Len(Characters(node) \o ClosingQuote)
             = Len(Characters(node)) + Len(ClosingQuote)
    BY <1>5, <1>6, ConcatProperties
  <1> QED
    BY <1>3, <1>4, <1>5, <1>6, <1>7

LEMMA LeavesCore == ASSUME Core, Leaves PROVE Core'
  <1>1. /\ out \in Buffer /\ node \in Node /\ stack \in Seq(Frame)
        /\ depth \in Nat /\ refs \in [FrameKinds -> Int] /\ exc \in Exceptions
    BY CoreFacts
  <1>6. CASE LookupClears
    <2>1. Plain /\ stack' = stack /\ pc = "call" /\ pc' = "call" /\ depth' = depth
          /\ exc' = NoExc
      BY <1>1, <1>6 DEF LookupClears, Plain, Frozen
    <2>2. stack' \in Seq(Frame) /\ IndexInItems'
      BY <1>1, <2>1, CoreFacts, StackSettled, SettledStack
    <2>3. exc' \in Exceptions
      BY <2>1 DEF Exceptions, NoExc
    <2> QED
      BY <2>1, <2>2, <2>3, GoesOn
  <1>2. CASE EncodeLeaf
    <2>1. out' \in Buffer
      BY <1>2, LeafFacts, ReservedFacts, PutFacts DEF EncodeLeaf
    <2>2. Plain /\ stack' = stack /\ pc = "call" /\ pc' = "return"
          /\ depth' = depth /\ exc' = exc
      BY <1>1, <1>2, <2>1 DEF EncodeLeaf, CallingLeaf, Dispatched, Plain, Frozen
    <2>3. stack' \in Seq(Frame) /\ IndexInItems'
      BY <1>1, <2>2, CoreFacts, StackSettled, SettledStack
    <2> QED
      BY <1>1, <2>2, <2>3, GoesOn
  <1>3. CASE LeafNoRoom
    <2>1. out' \in Buffer /\ exc' \in Exceptions /\ exc' # NoExc
      BY <1>1, <1>3, LeafFacts, NoRoomFacts DEF LeafNoRoom
    <2> QED
      BY <1>1, <1>3, <2>1, Fails DEF LeafNoRoom, CallingLeaf, Dispatched, Plain, Frozen, Fail
  <1>4. CASE LeafRaises
    <2>1. out' \in Buffer
      BY <1>1, <1>4, LeafFacts, ReservedFacts DEF LeafRaises
    <2>2. exc' \in Exceptions /\ exc' # NoExc
      BY <1>4, RaiseFacts DEF LeafRaises
    <2> QED
      BY <1>1, <1>4, <2>1, <2>2, Fails DEF LeafRaises, CallingLeaf, Dispatched, Plain, Frozen, Fail
  <1>5. CASE Refuse
    <2>1. exc' \in Exceptions /\ exc' # NoExc
      BY <1>5, RaiseFacts DEF Refuse
    <2> QED
      BY <1>1, <1>5, <2>1, Fails DEF Refuse, Calling, Dispatched, Plain, Frozen, Fail
  <1> QED
    BY <1>2, <1>3, <1>4, <1>5, <1>6 DEF Leaves

(* What an opening bracket does to the buffer. *)
LEMMA OpenFacts ==
    ASSUME Core, NEW s \in Seq(Cell), NEW o \in Reserved(out, Extra), out' = Put(o, s)
    PROVE  out' \in Buffer
  BY CoreFacts, ExtraNat, ReservedFacts, PutFacts

LEMMA Brackets == /\ <<"{">> \in Seq(Cell) /\ <<"[">> \in Seq(Cell)
                  /\ <<"{", "}">> \in Seq(Cell) /\ <<Quote>> \in Seq(Cell)
                  /\ <<Quote, ":">> \in Seq(Cell) /\ <<",">> \in Seq(Cell)
                  /\ <<"}">> \in Seq(Cell) /\ <<"]">> \in Seq(Cell)
  BY DEF Cell, Punctuation

LEMMA EntriesCore == ASSUME Core, Entries PROVE Core'
  <1>1. /\ out \in Buffer /\ node \in Node /\ stack \in Seq(Frame)
        /\ depth \in Nat /\ refs \in [FrameKinds -> Int] /\ exc \in Exceptions
    BY CoreFacts
  <1>2. CASE EncodeEmptyDict
    <2>1. out' \in Buffer
      BY <1>2, OpenFacts, Brackets DEF EncodeEmptyDict
    <2>2. Plain /\ stack' = stack /\ pc = "call" /\ pc' = "return"
          /\ depth' = depth /\ exc' = exc
      BY <1>1, <1>2, <2>1 DEF EncodeEmptyDict, Calling, Dispatched, Plain, Frozen
    <2>3. stack' \in Seq(Frame) /\ IndexInItems'
      BY <1>1, <2>2, CoreFacts, StackSettled, SettledStack
    <2> QED
      BY <1>1, <2>2, <2>3, GoesOn
  <1>3. CASE EnterDict
    <2>1. out' \in Buffer
      BY <1>3, OpenFacts, Brackets DEF EnterDict
    <2>2. Plain /\ pc = "call" /\ Branch(node) = "Dict" /\ node' = node
      BY <1>1, <1>3, <2>1 DEF EnterDict, Calling, Dispatched, Plain, Frozen
    <2> QED
      BY <1>1, <1>3, <2>2, Enters, DepthFails DEF EnterDict, Containers, MappingKinds
  <1>4. CASE EnterItemsView
    <2>1. out' \in Buffer
      BY <1>4, OpenFacts, Brackets DEF EnterItemsView
    <2>2. refs' \in [FrameKinds -> Int]
      <3>1. Hold("ItemsView", 1)
        BY <1>4 DEF EnterItemsView
      <3> QED
        BY <3>1, KindFacts, HoldType
    <2>3. Plain /\ pc = "call" /\ Branch(node) = "ItemsView" /\ node' = node
      BY <1>1, <1>4, <2>1, <2>2 DEF EnterItemsView, Calling, Dispatched, Plain, Frozen
    <2> QED
      BY <1>1, <1>4, <2>3, Enters, DepthFails DEF EnterItemsView, Containers, MappingKinds
  <1>5. CASE EnterDataclass
    <2>1. out' \in Buffer
      BY <1>5, OpenFacts, Brackets DEF EnterDataclass
    <2>2. refs' \in [FrameKinds -> Int]
      <3>1. Hold("Dataclass", 1)
        BY <1>5 DEF EnterDataclass
      <3> QED
        BY <3>1, KindFacts, HoldType
    <2>3. Plain /\ pc = "call" /\ Branch(node) = "Dataclass" /\ node' = node
      BY <1>1, <1>5, <2>1, <2>2 DEF EnterDataclass, Calling, Dispatched, Plain, Frozen
    <2> QED
      BY <1>1, <1>5, <2>3, Enters, DepthFails DEF EnterDataclass, Containers, MappingKinds
  <1>6. CASE EnterList
    <2>1. out' \in Buffer
      BY <1>1, <1>6, OpenFacts, Brackets DEF EnterList
    <2>2. Plain /\ pc = "call" /\ Branch(node) = "List" /\ node' = node
      BY <1>1, <1>6, <2>1 DEF EnterList, Calling, Dispatched, Plain, Frozen
    <2> QED
      BY <1>1, <1>6, <2>2, Enters, DepthFails DEF EnterList, Containers, ListKinds
  <1>7. CASE EnterIterable
    <2>1. out' \in Buffer
      BY <1>7, OpenFacts, Brackets DEF EnterIterable
    <2>2. refs' \in [FrameKinds -> Int]
      <3>1. CASE Hold("Iterable", 1)
        BY <3>1, KindFacts, HoldType
      <3>2. CASE UNCHANGED refs
        BY <3>2 DEF Core, TypeOK
      <3> QED
        BY <1>7, <3>1, <3>2 DEF EnterIterable
    <2>3. Plain /\ pc = "call" /\ Branch(node) = "Iterable" /\ node' = node
      BY <1>1, <1>7, <2>1, <2>2 DEF EnterIterable, Calling, Dispatched, Plain, Frozen
    <2> QED
      BY <1>1, <1>7, <2>3, Enters, DepthFails DEF EnterIterable, Containers, ListKinds
  <1>8. CASE EnterNoRoom
    <2>1. out' \in Buffer /\ exc' \in Exceptions /\ exc' # NoExc
      BY <1>1, <1>8, NoRoomFacts DEF EnterNoRoom
    <2>2. refs' \in [FrameKinds -> Int]
      BY <1>1, <1>8, HoldType DEF EnterNoRoom, FrameKinds, MappingKinds
    <2>3. depth' \in Nat
      BY <1>1, <1>8 DEF EnterNoRoom
    <2> QED
      BY <1>1, <1>8, <2>1, <2>2, <2>3, Fails DEF EnterNoRoom, Dispatched, Plain, Frozen, Fail
  <1>9. CASE EnterRaises
    <2>1. out' \in Buffer
      BY <1>1, <1>9, OpenFacts, Brackets DEF EnterRaises
    <2>2. exc' \in Exceptions /\ exc' # NoExc
      BY <1>9, RaiseFacts DEF EnterRaises
    <2>3. depth' = depth \/ depth' = depth + 1
      BY <1>9 DEF EnterRaises
    <2>4. depth' \in Nat
      BY <1>1, <2>3
    <2> QED
      BY <1>1, <1>9, <2>1, <2>2, <2>4, Fails DEF EnterRaises, Calling, Dispatched, Plain, Frozen, Fail
  <1>10. CASE TakenForView
    <2>1. PICK o \in Reserved(out, Extra) : out' = Put(o, <<"{">>)
      BY <1>10 DEF TakenForView
    <2>2. out' \in Buffer
      BY <2>1, OpenFacts, Brackets
    <2>3. exc' \in Exceptions /\ exc' # NoExc
      BY <1>10, RaiseFacts DEF TakenForView
    <2>4. refs' \in [FrameKinds -> Int]
      <3>1. Hold("ItemsView", 1) \/ Hold("ItemsView", 0) \/ Hold("ItemsView", -1) \/ refs' = refs
        BY <1>10 DEF TakenForView
      <3> QED
        BY <1>1, <3>1, KindFacts, HoldType
    <2>5. Plain /\ pc = "call" /\ node' = node
      BY <1>1, <1>10, <2>2, <2>4 DEF TakenForView, Plain, Frozen
    <2>6. CASE Branch(node) = "ItemsView" /\ Enter("ItemsView")
      BY <2>3, <2>5, <2>6, Enters DEF Containers, MappingKinds
    <2>7. CASE Fail /\ UNCHANGED stack /\ depth' \in {depth, depth + 1}
      <3>1. depth' \in Nat
        BY <1>1, <2>7
      <3> QED
        BY <1>1, <2>3, <2>5, <2>7, <3>1, Fails DEF Fail
    <2> QED
      BY <1>10, <2>6, <2>7 DEF TakenForView
  <1>11. CASE TakenForViewNoRoom
    <2>1. out' \in Buffer /\ exc' \in Exceptions /\ exc' # NoExc
      BY <1>1, <1>11, NoRoomFacts DEF TakenForViewNoRoom
    <2> QED
      BY <1>1, <1>11, <2>1, Fails DEF TakenForViewNoRoom, Plain, Frozen, Fail
  <1> QED
    BY <1>2, <1>3, <1>4, <1>5, <1>6, <1>7, <1>8, <1>9, <1>10, <1>11 DEF Entries

LEMMA WrappersCore == ASSUME Core, Wrappers PROVE Core'
  <1>1. /\ out \in Buffer /\ node \in Node /\ stack \in Seq(Frame)
        /\ depth \in Nat /\ refs \in [FrameKinds -> Int] /\ exc \in Exceptions
    BY CoreFacts
  <1>2. ASSUME NEW how \in WrapperKinds, Unwrap(how), pc = "call", Frozen, out' = out,
               depth' = IF how = "Enum" THEN depth ELSE depth + 1,
               how # "Enum" => ~TooDeep
        PROVE  Core'
    <2> DEFINE f == NewFrame(how, AsKey)
    <2>1. f \in Frame /\ f.how = how /\ Fitting(f) /\ Fetched(f)
      BY <1>1, <1>2, TopFacts
         DEF NewFrame, AsKey, Frame, FrameKinds, Containers, MappingKinds, ListKinds,
             WrapperKinds, Fitting, Fetched
    <2>2. stack' = Append(stack, f) /\ pc' = "call" /\ exc' = exc /\ Hold(how, 1)
          /\ node' = Obj[node].to
      BY <1>2 DEF Unwrap, Push
    <2> HIDE DEF f
    <2>3. stack' \in Seq(Frame) /\ IndexInItems'
      BY <1>1, <1>2, <2>1, <2>2, CoreFacts, StackSettled, SettledPush
    <2>4. refs' \in [FrameKinds -> Int]
      BY <2>2, HoldType, KindFacts DEF FrameKinds
    <2>5. node' \in Node
      BY <1>1, <2>2, ObjectFacts
    <2>6. LevelCount(stack') = IF how = "Enum" THEN LevelCount(stack) ELSE LevelCount(stack) + 1
      BY <1>1, <2>1, <2>2, LevelsPush
    <2>7. depth' = LevelCount(stack') /\ depth' <= MaxDepth /\ depth' \in Nat
      BY <1>2, <2>6, CoreFacts DEF TooDeep
    <2>8. TypeOK'
      BY <1>1, <1>2, <2>2, <2>3, <2>4, <2>5, <2>7, CoreFacts DEF Core, TypeOK, Frozen
    <2>9. DepthCountsLevels'
      BY <1>2, <2>2, <2>7, CoreFacts DEF DepthCountsLevels, LevelCount
    <2> QED
      BY <2>2, <2>8, <2>9 DEF Core, SomeoneReports
  <1>3. ASSUME NEW how \in WrapperKinds, CallWrapper(how) PROVE Core'
    <2>1. pc = "call" /\ Frozen /\ out' = out /\ how # "Enum"
      BY <1>3 DEF CallWrapper, Calling, Dispatched
    <2>2. CASE EnterFails /\ UNCHANGED <<node, refs>>
      BY <1>1, <2>1, <2>2, DepthFails DEF Plain, Frozen
    <2>3. CASE exc = NoExc /\ ~TooDeep /\ depth' = depth + 1 /\ Unwrap(how)
      BY <1>2, <2>1, <2>3
    <2> QED
      BY <1>3, <2>2, <2>3 DEF CallWrapper
  <1>4. CASE CallEnumValue
    <2>1. "Enum" \in WrapperKinds
      BY DEF WrapperKinds
    <2> QED
      BY <1>2, <1>4, <2>1 DEF CallEnumValue, Calling, Dispatched
  <1>5. CASE UnwrapRaises
    <2>1. exc' \in Exceptions /\ exc' # NoExc
      BY <1>5, RaiseFacts DEF UnwrapRaises
    <2>2. depth' = depth \/ depth' = depth + 1
      BY <1>5 DEF UnwrapRaises
    <2>3. depth' \in Nat
      BY <1>1, <2>2
    <2> QED
      BY <1>1, <1>5, <2>1, <2>3, Fails DEF UnwrapRaises, Calling, Dispatched, Plain, Frozen, Fail
  <1> QED
    BY <1>3, <1>4, <1>5 DEF Wrappers

(* The container on top goes on at item i. *)
LEMMA SetTopFacts ==
    ASSUME Core, stack # <<>>, Top.how \in Containers,
           NEW i \in Nat, i >= 1, i <= Len(Obj[Top.node].items),
           NEW asKey \in BOOLEAN, SetTop(i, asKey)
    PROVE  /\ stack' \in Seq(Frame) /\ stack' # <<>> /\ IndexInItems'
           /\ Top'.i = i
           /\ LevelCount(stack') = LevelCount(stack)
  <1> DEFINE f == [node |-> Top.node, how |-> Top.how, i |-> i, keyCall |-> asKey]
  <1>1. Top \in Frame /\ Below \in Seq(Frame) /\ Settled(Below) /\ Fitting(Top)
    BY CoreFacts, TopFacts, StackSettled
  <1>2. f \in Frame /\ f.how = Top.how /\ f.i = i /\ Fitting(f) /\ Fetched(f)
    BY <1>1 DEF Frame, Fitting, Fetched
  <1>3. stack' = Append(Below, f)
    BY DEF SetTop
  <1> HIDE DEF f
  <1>4. stack' \in Seq(Frame) /\ stack' # <<>> /\ Top' = f /\ IndexInItems'
    BY <1>1, <1>2, <1>3, SettledPush
  <1>5. LevelCount(stack') = LevelCount(stack)
    BY <1>1, <1>2, <1>3, CoreFacts, TopFacts, LevelsPush
  <1> QED
    BY <1>2, <1>4, <1>5

LEMMA TopObject ==
    ASSUME Core, stack # <<>>, Top.how \in Containers
    PROVE  /\ Top.node \in Node /\ Top.i \in Nat /\ Top.how \in FrameKinds
           /\ Obj[Top.node].kind = Top.how /\ Top.i <= Len(Obj[Top.node].items)
           /\ pc # "loop" => Top.i >= 1
  <1>1. Top \in Frame /\ Fitting(Top) /\ (pc # "loop" => Fetched(Top))
    BY CoreFacts, TopFacts, StackSettled
  <1> QED
    BY <1>1 DEF Frame, Fitting, Fetched

LEMMA HoldItemType == ASSUME Core, HoldItem PROVE refs' \in [FrameKinds -> Int]
  <1>1. CASE Top.how \in {"ItemsView", "Iterable"}
    <2>1. Hold(Top.how, 1) /\ Top.how \in FrameKinds
      BY <1>1, KindFacts DEF HoldItem
    <2> QED
      BY <2>1, KindFacts, HoldType
  <1>2. CASE Top.how \notin {"ItemsView", "Iterable"}
    BY <1>2, CoreFacts DEF HoldItem
  <1> QED
    BY <1>1, <1>2

LEMMA LoopsCore == ASSUME Core, Loops PROVE Core'
  <1>1. /\ out \in Buffer /\ node \in Node /\ stack \in Seq(Frame)
        /\ depth \in Nat /\ refs \in [FrameKinds -> Int] /\ exc \in Exceptions
    BY CoreFacts
  <1>2. CASE NextEntry
    <2>1. pc = "loop" /\ stack # <<>> /\ Top.how \in MappingKinds
          /\ Top.how \in Containers
      BY <1>2 DEF NextEntry, Looping, Containers
    <2>2. /\ Top.node \in Node /\ Top.i \in Nat /\ Obj[Top.node].kind = Top.how
          /\ Len(Obj[Top.node].items) \in Nat
          /\ Len(Obj[Top.node].keys) = Len(Obj[Top.node].items)
          /\ Obj[Top.node].keys \in Seq(Node)
      BY <2>1, TopObject, ObjectFacts
    <2>3. Top.i + 1 \in Nat /\ Top.i + 1 >= 1 /\ Top.i + 1 <= Len(Obj[Top.node].items)
      BY <1>2, <2>2 DEF NextEntry, More, Items
    <2>4. stack' \in Seq(Frame) /\ IndexInItems' /\ LevelCount(stack') = LevelCount(stack)
      BY <1>2, <2>1, <2>3, SetTopFacts DEF NextEntry
    <2>5. node' \in Node
      <3>1. Top.i + 1 \in 1..Len(Obj[Top.node].keys)
        BY <2>2, <2>3
      <3> QED
        BY <1>2, <2>2, <3>1, ElementOfSeq DEF NextEntry, Call
    <2>6. out' \in Buffer
      BY <1>1, <1>2, PutFacts, Brackets DEF NextEntry
    <2>7. refs' \in [FrameKinds -> Int]
      BY <1>2, HoldItemType DEF NextEntry
    <2> QED
      BY <1>1, <1>2, <2>1, <2>4, <2>5, <2>6, <2>7, GoesOn DEF NextEntry, Call, Plain, Frozen
  <1>3. CASE NextItem
    <2>1. pc = "loop" /\ stack # <<>> /\ Top.how \in Containers
      BY <1>3 DEF NextItem, Looping, Containers
    <2>2. /\ Top.node \in Node /\ Top.i \in Nat
          /\ Len(Obj[Top.node].items) \in Nat /\ Obj[Top.node].items \in Seq(Node)
      BY <2>1, TopObject, ObjectFacts
    <2>3. Top.i + 1 \in Nat /\ Top.i + 1 >= 1 /\ Top.i + 1 <= Len(Obj[Top.node].items)
      BY <1>3, <2>2 DEF NextItem, More, Items
    <2>4. stack' \in Seq(Frame) /\ IndexInItems' /\ LevelCount(stack') = LevelCount(stack)
      BY <1>3, <2>1, <2>3, SetTopFacts DEF NextItem
    <2>5. node' \in Node
      BY <1>3, <2>2, <2>3, ElementOfSeq DEF NextItem, Call, Items
    <2>6. refs' \in [FrameKinds -> Int]
      BY <1>3, HoldItemType DEF NextItem
    <2> QED
      BY <1>1, <1>3, <2>1, <2>4, <2>5, <2>6, GoesOn DEF NextItem, Call, Plain, Frozen
  <1>4. CASE NextRaises
    <2>1. stack # <<>> /\ stack' = Below /\ Top.how \in {"ItemsView", "Iterable"}
      BY <1>4 DEF NextRaises, Looping, Pop
    <2>2. exc' \in Exceptions /\ exc' # NoExc
      <3>1. Raise("Callback") \/ (exc # NoExc /\ exc' = exc)
        BY <1>4 DEF NextRaises
      <3> QED
        BY <1>1, <3>1, RaiseFacts
    <2>3. refs' \in [FrameKinds -> Int]
      <3>1. Hold(Top.how, -1) \/ Hold(Top.how, -2)
        BY <1>4 DEF NextRaises
      <3> QED
        BY <2>1, <3>1, KindFacts, HoldType
    <2> QED
      BY <1>1, <1>4, <2>1, <2>2, <2>3, Fails DEF NextRaises, Plain, Frozen, Fail
  <1>5. CASE BadItem
    <2>1. stack # <<>> /\ stack' = Below /\ Hold("ItemsView", -1)
      BY <1>5 DEF BadItem, Looping, Pop
    <2>2. exc' \in Exceptions /\ exc' # NoExc
      BY <1>5, RaiseFacts DEF BadItem
    <2>3. refs' \in [FrameKinds -> Int]
      BY <2>1, KindFacts, HoldType
    <2> QED
      BY <1>1, <1>5, <2>1, <2>2, <2>3, Fails DEF BadItem, Plain, Frozen, Fail
  <1>6. CASE Close
    <2>1. pc = "loop" /\ stack # <<>> /\ Top.how \in Containers /\ stack' = Below
      BY <1>6 DEF Close, Looping, Containers, Pop
    <2>2. Top.how # "Enum"
      BY <2>1 DEF Containers, MappingKinds, ListKinds
    <2>3. out' \in Buffer
      <3>1. Retract(out) \in Buffer
        BY <1>1, RetractType
      <3>2. <<Closer>> \in Seq(Cell)
        BY Brackets DEF Closer
      <3> QED
        BY <1>1, <1>6, <3>1, <3>2, PutFacts DEF Close
    <2>4. refs' \in [FrameKinds -> Int]
      <3>1. CASE Top.how \in {"ItemsView", "Dataclass", "Iterable"}
        <4>1. Hold(Top.how, -1) /\ Top.how \in FrameKinds
          BY <1>6, <3>1, KindFacts DEF Close
        <4> QED
          BY <4>1, KindFacts, HoldType
      <3>2. CASE Top.how \notin {"ItemsView", "Dataclass", "Iterable"}
        BY <1>1, <1>6, <3>2 DEF Close
      <3> QED
        BY <3>1, <3>2
    <2> QED
      BY <1>1, <1>6, <2>1, <2>2, <2>3, <2>4, LevelLeft DEF Close, Plain, Frozen
  <1> QED
    BY <1>2, <1>3, <1>4, <1>5, <1>6 DEF Loops

LEMMA ReturnsCore == ASSUME Core, Returns PROVE Core'
  <1>1. /\ out \in Buffer /\ node \in Node /\ stack \in Seq(Frame)
        /\ depth \in Nat /\ refs \in [FrameKinds -> Int] /\ exc \in Exceptions
    BY CoreFacts
  <1>2. CASE KeyDone
    <2>1. pc = "return" /\ stack # <<>> /\ Top.how \in Containers
      BY <1>2 DEF KeyDone, Returned, Containers
    <2>2. /\ Top.node \in Node /\ Top.i \in Nat /\ Top.i >= 1
          /\ Top.i <= Len(Obj[Top.node].items)
          /\ Len(Obj[Top.node].items) \in Nat /\ Obj[Top.node].items \in Seq(Node)
      BY <2>1, TopObject, ObjectFacts
    <2>3. stack' \in Seq(Frame) /\ IndexInItems' /\ LevelCount(stack') = LevelCount(stack)
      BY <1>2, <2>1, <2>2, SetTopFacts DEF KeyDone
    <2>4. node' \in Node
      BY <1>2, <2>2, ElementOfSeq DEF KeyDone, Call, Items
    <2>5. out' \in Buffer
      BY <1>1, <1>2, PutFacts, Brackets DEF KeyDone
    <2>6. refs' \in [FrameKinds -> Int]
      <3>1. CASE Top.how = "Dataclass"
        <4>1. Hold("Dataclass", 1)
          BY <1>2, <3>1 DEF KeyDone
        <4> QED
          BY <4>1, KindFacts, HoldType
      <3>2. CASE Top.how # "Dataclass"
        BY <1>1, <1>2, <3>2 DEF KeyDone
      <3> QED
        BY <3>1, <3>2
    <2> QED
      BY <1>1, <1>2, <2>1, <2>3, <2>4, <2>5, <2>6, GoesOn DEF KeyDone, Call, Plain, Frozen
  <1>3. CASE FieldRaises
    <2>1. stack # <<>> /\ stack' = Below /\ Hold("Dataclass", -1)
      BY <1>3 DEF FieldRaises, Returned, Pop
    <2>2. exc' \in Exceptions /\ exc' # NoExc
      BY <1>3, RaiseFacts DEF FieldRaises
    <2>3. refs' \in [FrameKinds -> Int]
      BY <2>1, KindFacts, HoldType
    <2>4. out' \in Buffer
      BY <1>1, <1>3, PutFacts, Brackets DEF FieldRaises
    <2> QED
      BY <1>1, <1>3, <2>1, <2>2, <2>3, <2>4, Fails DEF FieldRaises, Plain, Frozen, Fail
  <1>4. CASE ItemDone
    <2>1. pc = "return" /\ stack # <<>> /\ Top.how \in Containers /\ stack' = stack
      BY <1>4 DEF ItemDone, Returned, Containers
    <2>2. stack' \in Seq(Frame) /\ IndexInItems'
      BY <1>1, <2>1, CoreFacts, StackSettled, SettledStack
    <2>3. out' \in Buffer
      BY <1>1, <1>4, PutFacts, Brackets DEF ItemDone, Separated
    <2>4. refs' \in [FrameKinds -> Int]
      <3>1. CASE Top.how \in {"ItemsView", "Iterable", "Dataclass"}
        <4>1. Hold(Top.how, -1) /\ Top.how \in FrameKinds
          BY <1>4, <3>1, KindFacts DEF ItemDone
        <4> QED
          BY <4>1, KindFacts, HoldType
      <3>2. CASE Top.how \notin {"ItemsView", "Iterable", "Dataclass"}
        BY <1>1, <1>4, <3>2 DEF ItemDone
      <3> QED
        BY <3>1, <3>2
    <2> QED
      BY <1>1, <1>4, <2>1, <2>2, <2>3, <2>4, GoesOn DEF ItemDone, Plain, Frozen
  <1>5. CASE WrapperDone
    <2>1. pc = "return" /\ stack # <<>> /\ Top.how \in WrapperKinds /\ stack' = Below
          /\ Hold(Top.how, -1)
      BY <1>5 DEF WrapperDone, Returned, Pop
    <2>2. refs' \in [FrameKinds -> Int]
      BY <2>1, KindFacts, HoldType DEF FrameKinds
    <2> QED
      BY <1>1, <1>5, <2>1, <2>2, LevelLeft DEF WrapperDone, Plain, Frozen
  <1>6. CASE CallFailed
    <2>1. pc = "fail" /\ stack # <<>> /\ stack' = Below /\ pc' = "fail" /\ depth' = depth
      BY <1>6 DEF CallFailed, Pop
    <2>2. refs' \in [FrameKinds -> Int]
      <3>1. Top.how \in FrameKinds
        BY <1>1, <2>1, TopFacts DEF Frame
      <3>2. 0 - Released(Top) \in Int
        BY DEF Released
      <3> QED
        BY <1>6, <3>1, <3>2, HoldType DEF CallFailed
    <2>3. Plain /\ stack' \in Seq(Frame) /\ IndexInItems'
      BY <1>1, <1>6, <2>1, <2>2, CoreFacts, TopFacts, StackSettled, SettledStack
         DEF CallFailed, Plain, Frozen
    <2>4. CASE RecursionOccured /\ Reports(Top)
      <3>1. exc' = [type |-> "Recursion", at |-> Top.node] /\ Top.node \in Node
        BY <1>1, <1>6, <2>1, <2>4, TopFacts DEF CallFailed, Frame
      <3>2. exc' \in Exceptions /\ exc' # NoExc
        BY <3>1 DEF Exceptions, NoExc
      <3> QED
        BY <1>1, <2>1, <2>3, <3>2, Fails
    <2>5. CASE ~(RecursionOccured /\ Reports(Top))
      <3>1. exc' = exc
        BY <1>6, <2>5 DEF CallFailed
      <3>2. CASE exc # NoExc
        BY <1>1, <2>1, <2>3, <3>1, <3>2, CoreFacts, Fails
      <3>3. CASE exc = NoExc
        <4>1. depth > MaxDepth /\ LevelCount(stack) = MaxDepth
          BY <2>1, <3>3 DEF Core, SomeoneReports, LevelCount
        <4>2. Top.how = "Enum"
          BY <2>5, <3>3, <4>1 DEF RecursionOccured, Reports
        <4>3. LevelCount(stack') = MaxDepth
          BY <1>1, <2>1, <4>1, <4>2, TopFacts
        <4>4. TypeOK'
          BY <1>1, <2>1, <2>3, <3>1, CoreFacts DEF Core, Plain, TypeOK
        <4>5. SomeoneReports'
          BY <2>1, <4>1, <4>3 DEF SomeoneReports, LevelCount
        <4> QED
          BY <2>1, <4>4, <4>5 DEF Core, DepthCountsLevels
      <3> QED
        BY <3>2, <3>3
    <2> QED
      BY <2>4, <2>5
  <1> QED
    BY <1>2, <1>3, <1>4, <1>5, <1>6 DEF Returns

LEMMA EndsCore == ASSUME Core, Ends PROVE Core'
  <1>1. /\ out \in Buffer /\ node \in Node /\ stack \in Seq(Frame)
        /\ depth \in Nat /\ refs \in [FrameKinds -> Int] /\ exc \in Exceptions
    BY CoreFacts
  <1>2. ASSUME stack' = stack, pc # "loop"
        PROVE  stack' \in Seq(Frame) /\ IndexInItems'
    BY <1>1, <1>2, CoreFacts, StackSettled, SettledStack
  <1>3. CASE Finish
    <2>1. out' \in Buffer
      BY <1>1, <1>3, FlushedFacts DEF Finish
    <2>2. Plain /\ pc = "return" /\ stack' = stack /\ pc' = "returned"
          /\ depth' = depth /\ exc' = exc
      BY <1>1, <1>3, <2>1 DEF Finish, Plain, Frozen
    <2> QED
      BY <1>1, <1>2, <2>2, GoesOn
  <1>4. CASE FinishFails
    <2>1. exc' \in Exceptions /\ exc' # NoExc
      BY <1>4, RaiseFacts DEF FinishFails
    <2>2. stack' \in Seq(Frame) /\ IndexInItems' /\ pc' = "raised"
      BY <1>2, <1>4 DEF FinishFails
    <2>3. TypeOK'
      BY <1>1, <1>4, <2>1, <2>2 DEF FinishFails, Frozen, Core, TypeOK
    <2> QED
      BY <2>1, <2>2, <2>3 DEF Core, DepthCountsLevels, SomeoneReports
  <1>5. CASE ReturnNull
    <2>1. stack = <<>> /\ pc = "fail" /\ exc' = exc /\ pc' = "raised"
      BY <1>5 DEF ReturnNull
    <2>2. exc # NoExc
      <3>1. LevelCount(stack) = 0 /\ MaxDepth >= 1
        BY <2>1, LevelsEmpty, CoreFacts
      <3>2. LevelCount(stack) # MaxDepth
        BY <3>1, CoreFacts
      <3> QED
        BY <2>1, <3>2 DEF Core, SomeoneReports, LevelCount
    <2>3. stack' \in Seq(Frame) /\ IndexInItems'
      BY <1>2, <1>5, <2>1 DEF ReturnNull
    <2>4. TypeOK'
      BY <1>1, <1>5, <2>1, <2>3, CoreFacts DEF ReturnNull, Frozen, Core, TypeOK
    <2> QED
      BY <2>1, <2>2, <2>4 DEF Core, DepthCountsLevels, SomeoneReports
  <1> QED
    BY <1>3, <1>4, <1>5 DEF Ends

LEMMA CoreNext == Core /\ [Next]_vars => Core'
  <1> SUFFICES ASSUME Core, [Next]_vars PROVE Core'
    OBVIOUS
  <1>1. CASE UNCHANGED vars
    BY <1>1 DEF vars, Core, TypeOK, IndexInItems, DepthCountsLevels, SomeoneReports
  <1>2. CASE Over
    BY <1>1, <1>2 DEF Over
  <1> QED
    BY <1>1, <1>2, LeavesCore, EntriesCore, WrappersCore, LoopsCore, ReturnsCore,
       EndsCore DEF Next

-----------------------------------------------------------------------------
(* The exception. *)

(* A step of these groups that sets an exception sets one of another type   *)
(* than "Recursion", and starts where none is set.                          *)
LEMMA OthersRaise ==
    ASSUME Leaves \/ Entries \/ Wrappers \/ Loops \/ Ends
    PROVE  /\ exc' = exc \/ exc'.type # "Recursion"
           /\ pc \in {"call", "loop", "return"} \/ exc' = exc
  <1>1. CASE Leaves
    BY <1>1 DEF Leaves, LookupClears, EncodeLeaf, LeafNoRoom, LeafRaises, Refuse, CallingLeaf,
                Calling, Dispatched, NoRoom, Raise, NoExc
  <1>2. CASE Entries
    <2>1. CASE EncodeEmptyDict
      BY <2>1 DEF EncodeEmptyDict
    <2>2. CASE EnterDict
      BY <2>2 DEF EnterDict, EnterFails
    <2>3. CASE EnterItemsView
      BY <2>3 DEF EnterItemsView, EnterFails
    <2>4. CASE EnterDataclass
      BY <2>4 DEF EnterDataclass, EnterFails
    <2>5. CASE EnterList
      BY <2>5 DEF EnterList, EnterFails
    <2>6. CASE EnterIterable
      BY <2>6 DEF EnterIterable, EnterFails
    <2>7. CASE EnterNoRoom
      BY <2>7 DEF EnterNoRoom, Dispatched, NoRoom, Raise
    <2>8. CASE EnterRaises
      BY <2>8 DEF EnterRaises, Calling, Dispatched, Raise
    <2>9. CASE TakenForView
      BY <2>9 DEF TakenForView, Raise
    <2>10. CASE TakenForViewNoRoom
      BY <2>10 DEF TakenForViewNoRoom, NoRoom, Raise
    <2> QED
      BY <1>2, <2>1, <2>2, <2>3, <2>4, <2>5, <2>6, <2>7, <2>8, <2>9, <2>10 DEF Entries
  <1>3. CASE Wrappers
    BY <1>3 DEF Wrappers, CallWrapper, CallEnumValue, UnwrapRaises, Unwrap, EnterFails,
                Calling, Dispatched, Raise
  <1>4. CASE Loops
    <2>1. CASE NextEntry
      BY <2>1 DEF NextEntry
    <2>2. CASE NextItem
      BY <2>2 DEF NextItem
    <2>3. CASE NextRaises
      BY <2>3 DEF NextRaises, Looping, Raise
    <2>4. CASE BadItem
      BY <2>4 DEF BadItem, Looping, Raise
    <2>5. CASE Close
      BY <2>5 DEF Close
    <2> QED
      BY <1>4, <2>1, <2>2, <2>3, <2>4, <2>5 DEF Loops
  <1>5. CASE Ends
    BY <1>5 DEF Ends, Finish, FinishFails, ReturnNull, Raise
  <1> QED
    BY <1>1, <1>2, <1>3, <1>4, <1>5

LEMMA ReturnsRaise ==
    ASSUME Returns
    PROVE  \/ exc' = exc
           \/ pc = "return" /\ exc'.type # "Recursion"
           \/ /\ pc = "fail" /\ RecursionOccured /\ Reports(Top)
              /\ exc' = [type |-> "Recursion", at |-> Top.node]
  <1>1. CASE KeyDone \/ ItemDone \/ WrapperDone
    BY <1>1 DEF KeyDone, ItemDone, WrapperDone
  <1>2. CASE FieldRaises
    BY <1>2 DEF FieldRaises, Returned, Raise
  <1>3. CASE CallFailed
    BY <1>3 DEF CallFailed
  <1> QED
    BY <1>1, <1>2, <1>3 DEF Returns

LEMMA KeepsException ==
    ASSUME Core, [Next]_vars, exc # NoExc, pc \in {"fail", "raised"}
    PROVE  exc' = exc
  <1>1. CASE Leaves \/ Entries \/ Wrappers \/ Loops \/ Ends
    BY <1>1, OthersRaise
  <1>2. CASE Returns
    BY <1>2, ReturnsRaise DEF RecursionOccured
  <1> QED
    BY <1>1, <1>2 DEF Next, Over, vars

(* An exception that is pending while the encoder runs on. *)
Pending(e) == e = NoExc \/ e.type = "Callback"

PendingInv ==
    /\ PendingIsSeen
    /\ pc = "returned" => exc = NoExc
    /\ pc \in {"call", "loop", "return"} => Pending(exc)

Seen(s) == \E k \in 1..Len(s) : s[k].how = "ItemsView"

LEMMA SeenPush ==
    ASSUME NEW s \in Seq(Frame), NEW f \in Frame, Seen(s) \/ f.how = "ItemsView"
    PROVE  Seen(Append(s, f))
  <1>1. /\ Len(s) \in Nat /\ Len(Append(s, f)) = Len(s) + 1
        /\ \A k \in 1..Len(s) : Append(s, f)[k] = s[k]
        /\ Append(s, f)[Len(s) + 1] = f
    BY AppendProperties, LenProperties
  <1> QED
    BY <1>1 DEF Seen

LEMMA SeenBelow ==
    ASSUME stack \in Seq(Frame), stack # <<>>, Seen(stack), Top.how # "ItemsView"
    PROVE  Seen(Below)
  <1>1. PICK k \in 1..Len(stack) : stack[k].how = "ItemsView"
    BY DEF Seen
  <1>2. k # Len(stack)
    BY <1>1 DEF Top
  <1> QED
    BY <1>1, <1>2, TopFacts DEF Seen

(* The ways a step goes on with an exception pending. *)
LEMMA PendingGoesOn ==
    ASSUME Core, PendingInv, pc \in {"call", "loop", "return"}, stack' \in Seq(Frame),
           \/ pc' \in {"fail", "raised"}
           \/ exc' = NoExc
           \/ exc' = exc /\ pc' # "returned" /\ (Seen(stack) => Seen(stack'))
           \/ pc' # "returned" /\ Seen(stack') /\ Pending(exc')
    PROVE  PendingInv'
  BY DEF PendingInv, PendingIsSeen, Seen, Pending

LEMMA PendingInit == Init => PendingInv
  BY DEF Init, PendingInv, PendingIsSeen, Pending

LEMMA PendingEnters ==
    ASSUME Core, PendingInv, pc = "call", NEW how \in Containers, Enter(how),
           exc' = exc \/ (how = "ItemsView" /\ exc'.type = "Callback")
    PROVE  PendingInv'
  <1> DEFINE f == NewFrame(how, FALSE)
  <1>1. f \in Frame /\ f.how = how
    BY CoreFacts DEF NewFrame, Frame, FrameKinds, Containers, MappingKinds, ListKinds
  <1>2. stack' = Append(stack, f) /\ pc' = "loop"
    BY DEF Enter, Push
  <1> HIDE DEF f
  <1>3. stack' \in Seq(Frame)
    BY <1>1, <1>2, CoreFacts, AppendProperties
  <1>4. (Seen(stack) => Seen(stack')) /\ (how = "ItemsView" => Seen(stack'))
    BY <1>1, <1>2, CoreFacts, SeenPush
  <1>5. exc' = exc \/ Pending(exc')
    BY DEF Pending
  <1> QED
    BY <1>2, <1>3, <1>4, <1>5, PendingGoesOn

LEMMA PendingEntries ==
    ASSUME Core, PendingInv, Entries, stack' \in Seq(Frame) PROVE PendingInv'
  <1>1. pc = "call"
    BY DEF Entries, EncodeEmptyDict, EnterDict, EnterItemsView, EnterDataclass, EnterList,
           EnterIterable, EnterNoRoom, EnterRaises, TakenForView, TakenForViewNoRoom, Calling,
           Dispatched
  <1>2. \/ pc' = "fail"
        \/ pc' = "return" /\ exc' = exc /\ stack' = stack
        \/ \E how \in Containers : Enter(how) /\ (exc' = exc \/ (how = "ItemsView" /\ exc'.type = "Callback"))
    <2>1. {"Dict", "ItemsView", "Dataclass", "List", "Iterable"} \subseteq Containers
      BY DEF Containers, MappingKinds, ListKinds
    <2>2. CASE TakenForView
      <3>1. exc'.type = "Callback"
        BY <2>2 DEF TakenForView, Raise
      <3> QED
        BY <2>1, <2>2, <3>1 DEF TakenForView, Fail
    <2>3. CASE ~TakenForView
      BY <2>1, <2>3
         DEF Entries, EncodeEmptyDict, EnterDict, EnterItemsView, EnterDataclass, EnterList,
             EnterIterable, EnterNoRoom, EnterRaises, TakenForViewNoRoom, EnterFails, Fail
    <2> QED
      BY <2>2, <2>3
  <1> QED
    BY <1>1, <1>2, PendingEnters, PendingGoesOn

LEMMA PendingWrappers ==
    ASSUME Core, PendingInv, Wrappers, stack' \in Seq(Frame) PROVE PendingInv'
  <1>1. pc = "call"
        /\ \/ pc' = "fail"
           \/ \E how \in WrapperKinds : stack' = Append(stack, NewFrame(how, AsKey))
                 /\ exc' = exc /\ pc' = "call"
    BY DEF Wrappers, CallWrapper, CallEnumValue, UnwrapRaises, Unwrap, Push, EnterFails, Fail,
           Calling, Dispatched, WrapperKinds
  <1>2. ASSUME NEW how \in WrapperKinds, stack' = Append(stack, NewFrame(how, AsKey)),
               exc' = exc, pc' = "call"
        PROVE  PendingInv'
    <2> DEFINE f == NewFrame(how, AsKey)
    <2>1. f \in Frame
      BY CoreFacts, TopFacts DEF NewFrame, AsKey, Frame, FrameKinds
    <2> HIDE DEF f
    <2>2. Seen(stack) => Seen(Append(stack, f))
      BY <2>1, CoreFacts, SeenPush
    <2>3. Seen(stack) => Seen(stack')
      BY <1>2, <2>2 DEF f
    <2> QED
      BY <1>1, <1>2, <2>3, PendingGoesOn
  <1> QED
    BY <1>1, <1>2, PendingGoesOn

LEMMA PendingSetTop ==
    ASSUME Core, PendingInv, pc \in {"loop", "return"}, stack # <<>>,
           NEW i \in Nat, NEW asKey \in BOOLEAN, SetTop(i, asKey),
           exc' = exc, pc' = "call"
    PROVE  PendingInv'
  <1> DEFINE f == [node |-> Top.node, how |-> Top.how, i |-> i, keyCall |-> asKey]
  <1>1. Top \in Frame /\ Below \in Seq(Frame)
    BY CoreFacts, TopFacts
  <1>2. f \in Frame /\ f.how = Top.how
    BY <1>1 DEF Frame
  <1>3. stack' = Append(Below, f)
    BY DEF SetTop
  <1> HIDE DEF f
  <1>4. stack' \in Seq(Frame)
    BY <1>1, <1>2, <1>3, AppendProperties
  <1>5. Seen(stack) => Seen(Below) \/ f.how = "ItemsView"
    BY <1>2, CoreFacts, SeenBelow
  <1>6. Seen(stack) => Seen(stack')
    BY <1>1, <1>2, <1>3, <1>5, SeenPush
  <1> QED
    BY <1>4, <1>6, PendingGoesOn

LEMMA PendingLoops ==
    ASSUME Core, PendingInv, Loops, stack' \in Seq(Frame) PROVE PendingInv'
  <1>1. pc = "loop" /\ stack # <<>>
    BY DEF Loops, NextEntry, NextItem, NextRaises, BadItem, Close, Looping
  <1>2. CASE NextEntry \/ NextItem
    <2>1. Top.how \in Containers
      BY <1>2 DEF NextEntry, NextItem, Looping, Containers
    <2>2. Top.i + 1 \in Nat
      BY <1>1, <2>1, TopObject
    <2>3. exc' = exc /\ pc' = "call" /\ (SetTop(Top.i + 1, TRUE) \/ SetTop(Top.i + 1, FALSE))
      BY <1>2 DEF NextEntry, NextItem, Call
    <2> QED
      BY <1>1, <2>2, <2>3, PendingSetTop
  <1>3. CASE NextRaises \/ BadItem
    BY <1>1, <1>3, PendingGoesOn DEF NextRaises, BadItem, Fail
  <1>4. CASE Close
    <2>1. exc' = exc /\ stack' = Below /\ pc' = "return"
          /\ (exc = NoExc \/ Top.how # "ItemsView")
      BY <1>4 DEF Close, Pop
    <2>2. exc' = NoExc \/ (Seen(stack) => Seen(stack'))
      BY <1>1, <2>1, CoreFacts, SeenBelow
    <2> QED
      BY <1>1, <2>1, <2>2, PendingGoesOn
  <1> QED
    BY <1>2, <1>3, <1>4 DEF Loops

LEMMA PendingReturns ==
    ASSUME Core, PendingInv, Returns, stack' \in Seq(Frame) PROVE PendingInv'
  <1>1. CASE KeyDone
    <2>1. pc = "return" /\ stack # <<>> /\ Top.how \in Containers
      BY <1>1 DEF KeyDone, Returned, Containers
    <2>2. Top.i \in Nat
      BY <2>1, TopObject
    <2> QED
      BY <1>1, <2>1, <2>2, PendingSetTop DEF KeyDone, Call
  <1>2. CASE ItemDone
    BY <1>2, PendingGoesOn DEF ItemDone, Returned
  <1>3. CASE WrapperDone
    <2>1. pc = "return" /\ stack # <<>> /\ Top.how # "ItemsView" /\ stack' = Below
          /\ exc' = exc /\ pc' = "return"
      BY <1>3 DEF WrapperDone, Returned, WrapperKinds, Pop
    <2> QED
      BY <2>1, CoreFacts, SeenBelow, PendingGoesOn
  <1>4. CASE FieldRaises
    BY <1>4, PendingGoesOn DEF FieldRaises, Returned, Fail
  <1>5. CASE CallFailed
    BY <1>5 DEF CallFailed, PendingInv, PendingIsSeen
  <1> QED
    BY <1>1, <1>2, <1>3, <1>4, <1>5 DEF Returns

LEMMA PendingNext == Core /\ PendingInv /\ [Next]_vars => PendingInv'
  <1> SUFFICES ASSUME Core, PendingInv, [Next]_vars PROVE PendingInv'
    OBVIOUS
  <1>1. stack' \in Seq(Frame)
    BY CoreNext, CoreFacts DEF Core, TypeOK
  <1>2. CASE UNCHANGED vars
    BY <1>2 DEF vars, PendingInv, PendingIsSeen
  <1>3. CASE Leaves
    BY <1>1, <1>3, PendingGoesOn
       DEF Leaves, LookupClears, EncodeLeaf, LeafNoRoom, LeafRaises, Refuse, CallingLeaf, Calling,
           Dispatched, Fail
  <1>4. CASE Ends
    <2>1. pc' = "raised" \/ Finish
      BY <1>4 DEF Ends, FinishFails, ReturnNull
    <2>2. CASE pc' = "raised"
      BY <2>2 DEF PendingInv, PendingIsSeen
    <2>3. CASE Finish
      <3>1. pc = "return" /\ stack = <<>> /\ exc' = exc
        BY <2>3 DEF Finish
      <3>2. exc = NoExc
        BY <3>1 DEF PendingInv, PendingIsSeen
      <3> QED
        BY <3>1, <3>2 DEF PendingInv, PendingIsSeen
    <2> QED
      BY <2>1, <2>2, <2>3
  <1>5. CASE Over
    BY <1>2, <1>5 DEF Over
  <1> QED
    BY <1>1, <1>2, <1>3, <1>4, <1>5, PendingEntries, PendingWrappers, PendingLoops,
       PendingReturns DEF Next

LEMMA ReportsAtLimit ==
    ASSUME Core, [Next]_vars, exc # exc', exc'.type = "Recursion"
    PROVE  Cardinality(Levels(stack)) = MaxDepth /\ exc'.at = Top.node
  <1>1. Returns
    BY OthersRaise DEF Next, Over, vars
  <1>2. /\ pc = "fail" /\ RecursionOccured
        /\ exc' = [type |-> "Recursion", at |-> Top.node]
    BY <1>1, ReturnsRaise
  <1> QED
    BY <1>2 DEF Core, SomeoneReports, RecursionOccured

-----------------------------------------------------------------------------
(* The comma under the closing bracket. *)

LEMMA LastOfConcat ==
    ASSUME NEW S, NEW s \in Seq(S), NEW c \in S
    PROVE  /\ Len(s) \in Nat /\ Len(s \o <<c>>) = Len(s) + 1
           /\ (s \o <<c>>)[Len(s) + 1] = c
           /\ s \o <<c>> # <<>>
  <1>1. s \o <<c>> = Append(s, c)
    BY AppendIsConcat
  <1> QED
    BY <1>1, AppendProperties, LenProperties

LEMMA CommaNext ==
    ASSUME Core, CommaInBuffer, [Next]_vars
    PROVE  CommaInBuffer'
  <1>1. out \in Buffer /\ stack \in Seq(Frame)
    BY CoreFacts
  <1>2. CASE pc' # "loop"
    BY <1>2 DEF CommaInBuffer
  <1>3. ASSUME NEW how, Enter(how) PROVE CommaInBuffer'
    <2> DEFINE f == NewFrame(how, FALSE)
    <2>1. stack' = Append(stack, f) /\ f.i = 0
      BY <1>3 DEF Enter, Push, NewFrame
    <2> HIDE DEF f
    <2>2. Top' = f
      <3>1. Len(stack') = Len(stack) + 1 /\ stack'[Len(stack) + 1] = f
        BY <1>1, <2>1, LenProperties
      <3> QED
        BY <3>1 DEF Top
    <2>3. ~(Top'.i > 0)
      BY <2>1, <2>2
    <2> QED
      BY <2>3 DEF CommaInBuffer
  <1>4. CASE ItemDone
    <2>1. out' = Put(out, <<",">>)
      BY <1>4 DEF ItemDone, Separated
    <2>2. out'.text = out.text \o <<",">> /\ out.text \in Seq(Cell)
      BY <1>1, <2>1, PutFacts, Brackets DEF Buffer
    <2>3. out'.text # <<>> /\ out'.text[Len(out'.text)] = ","
      <3> DEFINE t == out.text
      <3>1. t \in Seq(Cell) /\ "," \in Cell /\ out'.text = t \o <<",">>
        BY <2>2 DEF Cell, Punctuation
      <3> HIDE DEF t
      <3>2. /\ Len(t) \in Nat /\ Len(t \o <<",">>) = Len(t) + 1
            /\ (t \o <<",">>)[Len(t) + 1] = ","
            /\ t \o <<",">> # <<>>
        BY <3>1, LastOfConcat
      <3> QED
        BY <3>1, <3>2
    <2> QED
      BY <2>3 DEF CommaInBuffer
  <1>5. CASE UNCHANGED vars
    BY <1>5 DEF vars, CommaInBuffer, Top
  <1>6. CASE pc' = "loop" /\ Next
    <2>1. CASE Leaves \/ Wrappers \/ Loops \/ Ends
      BY <1>6, <2>1
         DEF Leaves, LookupClears, EncodeLeaf, LeafNoRoom, LeafRaises, Refuse, Wrappers,
             CallWrapper, CallEnumValue, UnwrapRaises, Unwrap, EnterFails, Calling, Dispatched, Loops, NextEntry,
             NextItem, NextRaises, BadItem, Close, Call, Ends, Finish, FinishFails,
             ReturnNull, Fail
    <2>2. CASE Entries
      <3>1. (\E how \in Containers : Enter(how)) \/ pc' = "fail" \/ pc' = "return"
        BY <2>2 DEF Entries, EncodeEmptyDict, EnterDict, EnterItemsView, EnterDataclass,
                    EnterList, EnterIterable, EnterNoRoom, EnterRaises, EnterFails, Fail,
                    TakenForView, TakenForViewNoRoom, Containers, MappingKinds, ListKinds
      <3> QED
        BY <1>3, <1>6, <3>1
    <2>3. CASE Returns
      <3>1. ItemDone \/ pc' # "loop"
        BY <2>3 DEF Returns, KeyDone, FieldRaises, WrapperDone, Returned, CallFailed,
                    Call, Fail
      <3> QED
        BY <1>4, <1>6, <3>1
    <2>4. CASE Over
      BY <1>5, <2>4 DEF Over
    <2> QED
      BY <1>6, <2>1, <2>2, <2>3, <2>4 DEF Next
  <1> QED
    BY <1>2, <1>5, <1>6

-----------------------------------------------------------------------------
(***************************************************************************)
(* The space in the buffer.  It suffices if every request leaves room for  *)
(* the closing brackets of all the levels that may be open, which is what  *)
(* Slack says at each kind of state.                                       *)
(***************************************************************************)
RoomOf(o) == o.size - Len(o.text)

LEMMA RoomInt ==
    /\ \A o \in Buffer : RoomOf(o) \in Int
    /\ Room = RoomOf(out)
  BY LenProperties DEF RoomOf, Room, Buffer

LEMMA PutRoom ==
    ASSUME NEW o \in Buffer, NEW s \in Seq(Cell)
    PROVE  /\ RoomOf(Put(o, s)) = RoomOf(o) - Len(s)
           /\ Len(s) \in Nat /\ RoomOf(o) \in Int
  <1>1. Len(o.text) \in Nat /\ Len(s) \in Nat /\ o.size \in Nat
    BY LenProperties DEF Buffer
  <1> QED
    BY <1>1, PutFacts DEF RoomOf

LEMMA ReservedRoom ==
    ASSUME NEW o \in Buffer, NEW required \in Nat, NEW r \in Reserved(o, required)
    PROVE  r \in Buffer /\ RoomOf(r) \in Int /\ RoomOf(r) >= required
  BY ReservedFacts, RoomInt DEF RoomOf

LEMMA NoRoomRoom ==
    ASSUME NEW o \in Buffer, NEW required, NoRoom(o, required)
    PROVE  RoomOf(out') \in Int /\ RoomOf(out') >= RoomOf(o)
  <1>1. o.size \in Nat /\ Len(o.text) \in Nat
    BY LenProperties DEF Buffer
  <1> QED
    BY <1>1, NoRoomFacts DEF RoomOf, Buffer

LEMMA PutOne ==
    ASSUME NEW o \in Buffer, NEW c \in Cell
    PROVE  /\ Put(o, <<c>>) \in Buffer
           /\ RoomOf(Put(o, <<c>>)) = RoomOf(o) - 1
           /\ RoomOf(o) \in Int
  <1> DEFINE s == <<c>>
  <1>1. s \in Seq(Cell) /\ Len(s) = 1
    OBVIOUS
  <1> HIDE DEF s
  <1>2. Put(o, s) \in Buffer /\ RoomOf(Put(o, s)) = RoomOf(o) - 1 /\ RoomOf(o) \in Int
    BY <1>1, PutFacts, PutRoom
  <1> QED
    BY <1>2 DEF s

LEMMA Marks == {Quote, ":", ",", "{", "}", "[", "]"} \subseteq Cell
  BY DEF Cell, Punctuation

LEMMA SlackInit == Init => Slack
  <1> SUFFICES ASSUME Init PROVE Slack
    OBVIOUS
  <1>1. Room = InitialSize /\ InitialSize \in Nat /\ InitialSize >= 1 /\ pc = "call"
    BY EncoderAssumption DEF Init, Room
  <1> QED
    BY <1>1 DEF Slack

LEMMA SlackAfter ==
    ASSUME RoomOf(out') \in Int, RoomOf(out') >= 0, depth' \in Nat,
           \/ pc' \in {"fail", "raised", "returned"}
           \/ pc' = "call" /\ RoomOf(out') >= 1
           \/ pc' = "return" /\ RoomOf(out') >= depth' + 2
           \/ pc' = "loop" /\ RoomOf(out') >= depth' + 2
           \/ pc' = "loop" /\ RoomOf(out') >= depth' + 1 /\ Top'.i # 0
    PROVE  Slack'
  <1>1. Room' = RoomOf(out')
    BY DEF Room, RoomOf
  <1> QED
    BY <1>1 DEF Slack

LEMMA SlackFacts ==
    ASSUME Core, Slack
    PROVE  /\ RoomOf(out) \in Int /\ RoomOf(out) >= 0
           /\ pc = "call" => RoomOf(out) >= 1
           /\ pc = "loop" => RoomOf(out) >= depth + 1
           /\ pc = "loop" /\ Top.i = 0 => RoomOf(out) >= depth + 2
           /\ pc = "return" => RoomOf(out) >= depth + 2
           /\ pc \in {"call", "loop", "return"} => depth <= MaxDepth
           /\ depth \in Nat /\ MaxDepth \in Nat
           /\ out \in Buffer /\ node \in Node /\ stack \in Seq(Frame)
  BY CoreFacts, RoomInt DEF Slack

(* A container on top of the stack is a level of its own. *)
LEMMA LevelInside ==
    ASSUME Core, stack # <<>>, Top.how # "Enum", pc \in {"loop", "return"}
    PROVE  depth >= 1
  BY CoreFacts, TopFacts

LEMMA LeafStartsRoom ==
    ASSUME Core, Slack, pc = "call", Extra >= depth + 4, NEW o \in LeafStarts
    PROVE  o \in Buffer /\ RoomOf(o) \in Int /\ RoomOf(o) >= 0
  <1>1. /\ out \in Buffer /\ RoomOf(out) \in Int /\ RoomOf(out) >= 1
        /\ depth \in Nat /\ Extra \in Nat
    BY SlackFacts, ExtraNat
  <1>2. CASE o = out
    BY <1>1, <1>2
  <1>3. CASE o = Put(out, <<Quote>>)
    <2>1. Quote \in Cell
      BY Marks
    <2>2. o \in Buffer /\ RoomOf(o) = RoomOf(out) - 1
      BY <1>1, <1>3, <2>1, PutOne
    <2> QED
      BY <1>1, <2>2
  <1>4. CASE \E r \in Reserved(out, Extra) : o = Put(r, <<Quote>>)
    <2>1. PICK r \in Reserved(out, Extra) : o = Put(r, <<Quote>>)
      BY <1>4
    <2>2. r \in Buffer /\ RoomOf(r) \in Int /\ RoomOf(r) >= Extra
      BY <1>1, <2>1, ReservedRoom
    <2>3. Quote \in Cell
      BY Marks
    <2>4. o \in Buffer /\ RoomOf(o) = RoomOf(r) - 1
      BY <2>1, <2>2, <2>3, PutOne
    <2> QED
      BY <1>1, <2>2, <2>4
  <1> QED
    BY <1>2, <1>3, <1>4 DEF LeafStarts

LEMMA LeavesSlack ==
    ASSUME Core, Slack, Leaves, Extra >= depth + 4 PROVE Slack'
  <1>1. /\ out \in Buffer /\ node \in Node /\ RoomOf(out) \in Int /\ RoomOf(out) >= 0
        /\ depth \in Nat /\ MaxDepth \in Nat /\ Extra \in Nat
    BY SlackFacts, ExtraNat
  <1>2. CASE EncodeLeaf
    <2>1. CallingLeaf /\ pc = "call" /\ pc' = "return" /\ depth' = depth
      BY <1>2 DEF EncodeLeaf, CallingLeaf, Dispatched
    <2>2. PICK start \in LeafStarts : \E o \in Reserved(start, LeafRequest(node)) :
              out' = Put(o, Characters(node) \o ClosingQuote)
      BY <1>2 DEF EncodeLeaf
    <2>3. PICK o \in Reserved(start, LeafRequest(node)) :
              out' = Put(o, Characters(node) \o ClosingQuote)
      BY <2>2
    <2> DEFINE s == Characters(node) \o ClosingQuote
    <2>4. s \in Seq(Cell) /\ Len(s) \in Nat /\ Len(s) <= Obj[node].need + 1
          /\ start \in Buffer /\ LeafRequest(node) \in Nat
      BY <2>1, <2>2, LeafFacts
    <2>5. LeafRequest(node) = Obj[node].need + Extra /\ Obj[node].need \in Nat
      BY <1>1, ObjectFacts DEF LeafRequest
    <2>6. o \in Buffer /\ RoomOf(o) \in Int /\ RoomOf(o) >= LeafRequest(node)
      BY <2>3, <2>4, ReservedRoom
    <2>7. out' = Put(o, s)
      BY <2>3
    <2> HIDE DEF s
    <2>8. RoomOf(out') = RoomOf(o) - Len(s)
      BY <2>4, <2>6, <2>7, PutRoom
    <2>9. RoomOf(out') \in Int /\ RoomOf(out') >= depth + 2
      BY <1>1, <2>4, <2>5, <2>6, <2>8
    <2> QED
      BY <1>1, <2>1, <2>9, SlackAfter
  <1>3. CASE LeafNoRoom
    <2>1. pc = "call" /\ pc' = "fail" /\ depth' = depth
      BY <1>3 DEF LeafNoRoom, CallingLeaf, Dispatched, Fail
    <2>2. CASE \E start \in LeafStarts : NoRoom(start, LeafRequest(node))
      <3>1. PICK start \in LeafStarts : NoRoom(start, LeafRequest(node))
        BY <2>2
      <3>2. start \in Buffer /\ RoomOf(start) \in Int /\ RoomOf(start) >= 0
        BY <2>1, <3>1, LeafStartsRoom
      <3>3. RoomOf(out') \in Int /\ RoomOf(out') >= 0
        BY <3>1, <3>2, NoRoomRoom
      <3> QED
        BY <1>1, <2>1, <3>3, SlackAfter
    <2>3. CASE NoRoom(out, Extra)
      <3>1. RoomOf(out') \in Int /\ RoomOf(out') >= 0
        BY <1>1, <2>3, NoRoomRoom
      <3> QED
        BY <1>1, <2>1, <3>1, SlackAfter
    <2> QED
      BY <1>3, <2>2, <2>3 DEF LeafNoRoom
  <1>4. CASE LeafRaises
    <2>1. pc = "call" /\ pc' = "fail" /\ depth' = depth /\ CallingLeaf
      BY <1>4 DEF LeafRaises, CallingLeaf, Dispatched, Fail
    <2>2. RoomOf(out') \in Int /\ RoomOf(out') >= 0
      <3>1. CASE out' \in LeafStarts
        BY <2>1, <3>1, LeafStartsRoom
      <3>2. CASE out' \in Reserved(out, LeafRequest(node))
        <4>1. LeafRequest(node) \in Nat
          BY <2>1, LeafFacts
        <4> QED
          BY <1>1, <3>2, <4>1, ReservedRoom
      <3> QED
        BY <1>4, <3>1, <3>2 DEF LeafRaises
    <2> QED
      BY <1>1, <2>1, <2>2, SlackAfter
  <1>5. CASE Refuse
    <2>1. pc' = "fail" /\ depth' = depth /\ out' = out
      BY <1>5 DEF Refuse, Fail
    <2> QED
      BY <1>1, <2>1, SlackAfter
  <1>6. CASE LookupClears
    <2>1. pc = "call" /\ pc' = "call" /\ depth' = depth /\ out' = out
      BY <1>6 DEF LookupClears
    <2>2. RoomOf(out) >= 1
      BY <2>1, SlackFacts
    <2> QED
      BY <1>1, <2>1, <2>2, SlackAfter
  <1> QED
    BY <1>2, <1>3, <1>4, <1>5, <1>6 DEF Leaves

(* A container writes its opening bracket and enters, or does not. *)
LEMMA OpenSlack ==
    ASSUME Core, Slack, pc = "call", Extra >= depth + 4,
           NEW c \in Cell, NEW o \in Reserved(out, Extra), out' = Put(o, <<c>>),
           \/ \E how \in Containers : Enter(how)
           \/ EnterFails
           \/ pc' = "fail" /\ depth' \in Nat
    PROVE  Slack'
  <1>1. /\ out \in Buffer /\ depth \in Nat /\ MaxDepth \in Nat /\ Extra \in Nat
    BY SlackFacts, ExtraNat
  <1>2. o \in Buffer /\ RoomOf(o) \in Int /\ RoomOf(o) >= Extra
    BY <1>1, ReservedRoom
  <1>3. RoomOf(out') = RoomOf(o) - 1
    BY <1>2, PutOne
  <1>4. RoomOf(out') \in Int /\ RoomOf(out') >= depth + 3
    BY <1>1, <1>2, <1>3
  <1>5. CASE \E how \in Containers : Enter(how)
    <2>1. pc' = "loop" /\ depth' = depth + 1 /\ ~(depth + 1 > MaxDepth)
      BY <1>5 DEF Enter, TooDeep
    <2>2. depth' \in Nat /\ RoomOf(out') >= depth' + 2 /\ RoomOf(out') >= 0
      BY <1>1, <1>4, <2>1
    <2> QED
      BY <1>4, <2>1, <2>2, SlackAfter
  <1>6. CASE EnterFails
    <2>1. pc' = "fail" /\ depth' = depth + 1
      BY <1>6 DEF EnterFails, Fail
    <2>2. depth' \in Nat /\ RoomOf(out') >= 0
      BY <1>1, <1>4, <2>1
    <2> QED
      BY <1>4, <2>1, <2>2, SlackAfter
  <1>7. CASE pc' = "fail" /\ depth' \in Nat
    <2>1. RoomOf(out') >= 0
      BY <1>1, <1>4
    <2> QED
      BY <1>4, <1>7, <2>1, SlackAfter
  <1> QED
    BY <1>5, <1>6, <1>7

LEMMA EntriesSlack ==
    ASSUME Core, Slack, Entries, Extra >= depth + 4 PROVE Slack'
  <1> USE DEF Containers, MappingKinds, ListKinds
  <1>1. /\ out \in Buffer /\ RoomOf(out) \in Int /\ RoomOf(out) >= 0
        /\ depth \in Nat /\ MaxDepth \in Nat /\ Extra \in Nat
    BY SlackFacts, ExtraNat
  <1>2. CASE EncodeEmptyDict
    <2>1. PICK o \in Reserved(out, Extra) : out' = Put(o, <<"{", "}">>)
      BY <1>2 DEF EncodeEmptyDict
    <2>2. pc = "call" /\ pc' = "return" /\ depth' = depth
      BY <1>2 DEF EncodeEmptyDict, Calling, Dispatched
    <2>3. o \in Buffer /\ RoomOf(o) \in Int /\ RoomOf(o) >= Extra
      BY <1>1, <2>1, ReservedRoom
    <2> DEFINE s == <<"{", "}">>
    <2>4. s \in Seq(Cell) /\ Len(s) = 2 /\ out' = Put(o, s)
      BY <2>1, Brackets
    <2> HIDE DEF s
    <2>5. RoomOf(out') = RoomOf(o) - 2
      BY <2>3, <2>4, PutRoom
    <2>6. RoomOf(out') \in Int /\ RoomOf(out') >= depth + 2 /\ RoomOf(out') >= 0
      BY <1>1, <2>3, <2>5
    <2> QED
      BY <1>1, <2>2, <2>6, SlackAfter
  <1>3. CASE EnterDict
    <2>1. pc = "call" /\ (Enter("Dict") \/ EnterFails)
      BY <1>3 DEF EnterDict, Calling, Dispatched
    <2>2. PICK o \in Reserved(out, Extra) : out' = Put(o, <<"{">>)
      BY <1>3 DEF EnterDict
    <2> QED
      BY <2>1, <2>2, Marks, OpenSlack
  <1>4. CASE EnterItemsView
    <2>1. pc = "call" /\ (Enter("ItemsView") \/ EnterFails)
      BY <1>4 DEF EnterItemsView, Calling, Dispatched
    <2>2. PICK o \in Reserved(out, Extra) : out' = Put(o, <<"{">>)
      BY <1>4 DEF EnterItemsView
    <2> QED
      BY <2>1, <2>2, Marks, OpenSlack
  <1>5. CASE EnterDataclass
    <2>1. pc = "call" /\ (Enter("Dataclass") \/ EnterFails)
      BY <1>5 DEF EnterDataclass, Calling, Dispatched
    <2>2. PICK o \in Reserved(out, Extra) : out' = Put(o, <<"{">>)
      BY <1>5 DEF EnterDataclass
    <2> QED
      BY <2>1, <2>2, Marks, OpenSlack
  <1>6. CASE EnterList
    <2>1. CASE Enter("List") /\ \E o \in Reserved(out, Extra) : out' = Put(o, <<"[">>)
      <3>1. pc = "call"
        BY <1>6 DEF EnterList, Calling, Dispatched
      <3>2. PICK o \in Reserved(out, Extra) : out' = Put(o, <<"[">>)
        BY <2>1
      <3> QED
        BY <2>1, <3>1, <3>2, Marks, OpenSlack
    <2>2. CASE EnterFails /\ out' = out
      <3>1. pc' = "fail" /\ depth' = depth + 1
        BY <2>2 DEF EnterFails, Fail
      <3>2. depth' \in Nat
        BY <1>1, <3>1
      <3> QED
        BY <1>1, <2>2, <3>1, <3>2, SlackAfter
    <2> QED
      BY <1>6, <2>1, <2>2 DEF EnterList
  <1>7. CASE EnterIterable
    <2>1. pc = "call" /\ (Enter("Iterable") \/ EnterFails)
      BY <1>7 DEF EnterIterable, Calling, Dispatched
    <2>2. PICK o \in Reserved(out, Extra) : out' = Put(o, <<"[">>)
      BY <1>7 DEF EnterIterable
    <2> QED
      BY <2>1, <2>2, Marks, OpenSlack
  <1>8. CASE EnterNoRoom
    <2>1. NoRoom(out, Extra) /\ pc' = "fail" /\ (depth' = depth \/ depth' = depth + 1)
      BY <1>8 DEF EnterNoRoom, Fail
    <2>2. depth' \in Nat /\ RoomOf(out') \in Int /\ RoomOf(out') >= 0
      BY <1>1, <2>1, NoRoomRoom
    <2> QED
      BY <2>1, <2>2, SlackAfter
  <1>9. CASE EnterRaises
    <2>1. pc = "call" /\ pc' = "fail" /\ (depth' = depth \/ depth' = depth + 1)
      BY <1>9 DEF EnterRaises, Calling, Dispatched, Fail
    <2>2. depth' \in Nat
      BY <1>1, <2>1
    <2>3. CASE out' = out
      BY <1>1, <2>1, <2>2, <2>3, SlackAfter
    <2>4. CASE \E o \in Reserved(out, Extra) : out' = Put(o, <<"{">>)
      <3>1. PICK o \in Reserved(out, Extra) : out' = Put(o, <<"{">>)
        BY <2>4
      <3> QED
        BY <2>1, <2>2, <3>1, Marks, OpenSlack
    <2>5. CASE \E o \in Reserved(out, Extra) : out' = Put(o, <<"[">>)
      <3>1. PICK o \in Reserved(out, Extra) : out' = Put(o, <<"[">>)
        BY <2>5
      <3> QED
        BY <2>1, <2>2, <3>1, Marks, OpenSlack
    <2> QED
      BY <1>9, <2>3, <2>4, <2>5 DEF EnterRaises
  <1>10. CASE TakenForView
    <2>1. PICK o \in Reserved(out, Extra) : out' = Put(o, <<"{">>)
      BY <1>10 DEF TakenForView
    <2>2. pc = "call"
          /\ \/ Enter("ItemsView")
             \/ pc' = "fail" /\ (depth' = depth \/ depth' = depth + 1)
      BY <1>10 DEF TakenForView, Fail
    <2>3. Enter("ItemsView") \/ (pc' = "fail" /\ depth' \in Nat)
      BY <1>1, <2>2
    <2> QED
      BY <2>1, <2>2, <2>3, Marks, OpenSlack
  <1>11. CASE TakenForViewNoRoom
    <2>1. NoRoom(out, Extra) /\ pc' = "fail" /\ depth' = depth
      BY <1>11 DEF TakenForViewNoRoom, Fail
    <2>2. RoomOf(out') \in Int /\ RoomOf(out') >= 0
      BY <1>1, <2>1, NoRoomRoom
    <2> QED
      BY <1>1, <2>1, <2>2, SlackAfter
  <1> QED
    BY <1>2, <1>3, <1>4, <1>5, <1>6, <1>7, <1>8, <1>9, <1>10, <1>11 DEF Entries

LEMMA WrappersSlack ==
    ASSUME Core, Slack, Wrappers PROVE Slack'
  <1>1. /\ RoomOf(out) \in Int /\ RoomOf(out) >= 0 /\ depth \in Nat
        /\ (pc = "call" => RoomOf(out) >= 1)
    BY SlackFacts
  <1>2. out' = out /\ pc = "call" /\ pc' \in {"call", "fail"}
        /\ (depth' = depth \/ depth' = depth + 1)
    BY DEF Wrappers, CallWrapper, CallEnumValue, UnwrapRaises, Unwrap, EnterFails, Fail,
           Calling, Dispatched
  <1>3. depth' \in Nat
    BY <1>1, <1>2
  <1> QED
    BY <1>1, <1>2, <1>3, SlackAfter

LEMMA LoopsSlack ==
    ASSUME Core, Slack, CommaInBuffer, Loops PROVE Slack'
  <1>1. /\ out \in Buffer /\ RoomOf(out) \in Int /\ RoomOf(out) >= 0 /\ depth \in Nat
    BY SlackFacts
  <1>2. CASE NextEntry
    <2>1. pc = "loop" /\ stack # <<>> /\ Top.how # "Enum" /\ pc' = "call"
          /\ out' = Put(out, <<Quote>>) /\ depth' = depth
      BY <1>2 DEF NextEntry, Looping, Call, MappingKinds
    <2>2. depth >= 1 /\ RoomOf(out) >= depth + 1
      BY <2>1, LevelInside, SlackFacts
    <2>3. RoomOf(out') = RoomOf(out) - 1
      BY <1>1, <2>1, Marks, PutOne
    <2>4. RoomOf(out') \in Int /\ RoomOf(out') >= 1 /\ RoomOf(out') >= 0
      BY <1>1, <2>2, <2>3
    <2> QED
      BY <1>1, <2>1, <2>4, SlackAfter
  <1>3. CASE NextItem
    <2>1. pc = "loop" /\ pc' = "call" /\ out' = out /\ depth' = depth
      BY <1>3 DEF NextItem, Looping, Call
    <2>2. RoomOf(out) >= 1
      BY <1>1, <2>1, SlackFacts
    <2> QED
      BY <1>1, <2>1, <2>2, SlackAfter
  <1>4. CASE NextRaises \/ BadItem
    <2>1. pc' = "fail" /\ out' = out /\ depth' = depth
      BY <1>4 DEF NextRaises, BadItem, Fail
    <2> QED
      BY <1>1, <2>1, SlackAfter
  <1>5. CASE Close
    <2>1. pc = "loop" /\ stack # <<>> /\ Top.how # "Enum" /\ Top.how \in Containers
          /\ pc' = "return" /\ depth' = depth - 1 /\ ~More
      BY <1>5 DEF Close, Looping, Containers, MappingKinds, ListKinds
    <2>2. depth >= 1
      BY <2>1, LevelInside
    <2>3. Closer \in Cell
      BY Marks DEF Closer
    <2>4. Top.i \in Nat /\ Top.i <= Len(Items) /\ Len(Items) \in Nat /\ ~(Top.i < Len(Items))
      BY <2>1, TopObject, ObjectFacts DEF Items, More
    <2>5. CASE Items = <<>>
      <3>1. Top.i = 0
        BY <2>4, <2>5
      <3>2. RoomOf(out) >= depth + 2
        BY <2>1, <3>1, SlackFacts
      <3>3. out' = Put(out, <<Closer>>)
        BY <1>5, <2>5 DEF Close
      <3>4. RoomOf(out') = RoomOf(out) - 1
        BY <1>1, <2>3, <3>3, PutOne
      <3>5. RoomOf(out') \in Int /\ depth' \in Nat /\ RoomOf(out') >= depth' + 2
            /\ RoomOf(out') >= 0
        BY <1>1, <2>1, <2>2, <3>2, <3>4
      <3> QED
        BY <2>1, <3>5, SlackAfter
    <2>6. CASE Items # <<>>
      <3>1. Top.i > 0
        <4>1. Items \in Seq(Node)
          BY <2>1, TopObject, ObjectFacts DEF Items
        <4>2. Len(Items) # 0
          BY <2>6, <4>1, EmptySeq
        <4> QED
          BY <2>4, <4>2
      <3>2. out.text # <<>>
        BY <2>1, <3>1 DEF CommaInBuffer
      <3>3. Retract(out) \in Buffer /\ RoomOf(Retract(out)) = RoomOf(out) + 1
        <4>1. out.size \in Nat /\ Len(out.text) \in Nat
          BY <1>1, LenProperties DEF Buffer
        <4> QED
          BY <1>1, <3>2, <4>1, RetractFacts DEF RoomOf
      <3>4. out' = Put(Retract(out), <<Closer>>)
        BY <1>5, <2>6 DEF Close
      <3>5. RoomOf(out') = RoomOf(Retract(out)) - 1
        BY <2>3, <3>3, <3>4, PutOne
      <3>6. RoomOf(out) >= depth + 1
        BY <2>1, SlackFacts
      <3>7. RoomOf(out') \in Int /\ depth' \in Nat /\ RoomOf(out') >= depth' + 2
        BY <1>1, <2>1, <2>2, <3>3, <3>5, <3>6
      <3>8. RoomOf(out') >= 0
        BY <3>7
      <3> QED
        BY <2>1, <3>7, <3>8, SlackAfter
    <2> QED
      BY <2>5, <2>6
  <1> QED
    BY <1>2, <1>3, <1>4, <1>5 DEF Loops

LEMMA ReturnsSlack ==
    ASSUME Core, Slack, Returns PROVE Slack'
  <1>1. /\ out \in Buffer /\ RoomOf(out) \in Int /\ RoomOf(out) >= 0 /\ depth \in Nat
    BY SlackFacts
  <1>2. ASSUME out' = Put(out, <<Quote, ":">>)
        PROVE  RoomOf(out') = RoomOf(out) - 2
    <2> DEFINE s == <<Quote, ":">>
    <2>1. s \in Seq(Cell) /\ Len(s) = 2 /\ out' = Put(out, s)
      BY <1>2, Brackets
    <2> HIDE DEF s
    <2> QED
      BY <1>1, <2>1, PutRoom
  <1>3. CASE KeyDone
    <2>1. pc = "return" /\ pc' = "call" /\ depth' = depth /\ stack # <<>>
          /\ Top.how # "Enum" /\ out' = Put(out, <<Quote, ":">>)
      BY <1>3 DEF KeyDone, Returned, Call, MappingKinds
    <2>2. depth >= 1 /\ RoomOf(out) >= depth + 2
      BY <2>1, LevelInside, SlackFacts
    <2>3. RoomOf(out') \in Int /\ RoomOf(out') >= 1 /\ RoomOf(out') >= 0
      BY <1>1, <1>2, <2>1, <2>2
    <2> QED
      BY <1>1, <2>1, <2>3, SlackAfter
  <1>4. CASE FieldRaises
    <2>1. pc = "return" /\ pc' = "fail" /\ depth' = depth
          /\ out' = Put(out, <<Quote, ":">>)
      BY <1>4 DEF FieldRaises, Returned, Fail
    <2>2. RoomOf(out) >= depth + 2
      BY <2>1, SlackFacts
    <2>3. RoomOf(out') \in Int /\ RoomOf(out') >= 0
      BY <1>1, <1>2, <2>1, <2>2
    <2> QED
      BY <1>1, <2>1, <2>3, SlackAfter
  <1>5. CASE ItemDone
    <2>1. pc = "return" /\ pc' = "loop" /\ depth' = depth /\ stack' = stack
          /\ stack # <<>> /\ Top.how \in Containers /\ out' = Put(out, <<",">>)
      BY <1>5 DEF ItemDone, Separated, Returned, Containers
    <2>2. RoomOf(out) >= depth + 2
      BY <2>1, SlackFacts
    <2>3. RoomOf(out') = RoomOf(out) - 1
      BY <1>1, <2>1, Marks, PutOne
    <2>4. RoomOf(out') \in Int /\ RoomOf(out') >= depth + 1 /\ RoomOf(out') >= 0
      BY <1>1, <2>2, <2>3
    <2>5. Top'.i # 0
      <3>1. Top' = Top
        BY <2>1 DEF Top
      <3>2. Top.i \in Nat /\ Top.i >= 1
        BY <2>1, TopObject
      <3> QED
        BY <3>1, <3>2
    <2> QED
      BY <1>1, <2>1, <2>4, <2>5, SlackAfter
  <1>6. CASE WrapperDone
    <2>1. pc = "return" /\ pc' = "return" /\ out' = out /\ stack # <<>>
          /\ depth' = IF Top.how = "Enum" THEN depth ELSE depth - 1
      BY <1>6 DEF WrapperDone, Returned
    <2>2. depth' \in Nat /\ depth' <= depth
      <3>1. CASE Top.how = "Enum"
        BY <1>1, <2>1, <3>1
      <3>2. CASE Top.how # "Enum"
        <4>1. depth >= 1
          BY <2>1, <3>2, LevelInside
        <4> QED
          BY <1>1, <2>1, <3>2, <4>1
      <3> QED
        BY <3>1, <3>2
    <2>3. RoomOf(out) >= depth + 2
      BY <2>1, SlackFacts
    <2>4. RoomOf(out') >= depth' + 2
      BY <1>1, <2>1, <2>2, <2>3
    <2> QED
      BY <1>1, <2>1, <2>2, <2>4, SlackAfter
  <1>7. CASE CallFailed
    <2>1. pc' = "fail" /\ out' = out /\ depth' = depth
      BY <1>7 DEF CallFailed
    <2> QED
      BY <1>1, <2>1, SlackAfter
  <1> QED
    BY <1>3, <1>4, <1>5, <1>6, <1>7 DEF Returns

LEMMA EndsSlack ==
    ASSUME Core, Slack, Ends PROVE Slack'
  <1>1. /\ out \in Buffer /\ RoomOf(out) \in Int /\ RoomOf(out) >= 0 /\ depth \in Nat
    BY SlackFacts
  <1>2. pc' \in {"returned", "raised"} /\ depth' = depth
        /\ (out' = out \/ out' = Flushed(out))
    BY DEF Ends, Finish, FinishFails, ReturnNull
  <1>3. RoomOf(Flushed(out)) \in Int /\ RoomOf(Flushed(out)) >= 0
    <2>1. out.size \in Nat
      BY <1>1 DEF Buffer
    <2> QED
      BY <1>1, <2>1, FlushedFacts DEF RoomOf
  <1> QED
    BY <1>1, <1>2, <1>3, SlackAfter

LEMMA SlackNext ==
    ASSUME Extra >= depth + 4, Core, Slack, CommaInBuffer, [Next]_vars
    PROVE  Slack'
  <1>1. CASE UNCHANGED vars
    BY <1>1 DEF vars, Slack, Room, Top
  <1>2. CASE Over
    BY <1>1, <1>2 DEF Over
  <1> QED
    BY <1>1, <1>2, LeavesSlack, EntriesSlack, WrappersSlack, LoopsSlack, ReturnsSlack,
       EndsSlack DEF Next

-----------------------------------------------------------------------------
(* Every step leaves the encoder in a state of the right type, and a frame  *)
(* never asks for an item its container does not have.                      *)
THEOREM TypeCorrect == Spec => []TypeOK
  BY CoreInit, CoreNext, PTL DEF Spec, Core

(* recursionDepth counts the levels on the C stack and never passes the     *)
(* limit, until a failure.                                                  *)
THEOREM DepthExact == Spec => []DepthCountsLevels
  BY CoreInit, CoreNext, PTL DEF Spec, Core

(* A failing call has an exception, or a frame that is going to set it.     *)
THEOREM FailureReported == Spec => []SomeoneReports
  BY CoreInit, CoreNext, PTL DEF Spec, Core

(* dumps, dumpb and dump return NULL if and only if an exception is set.    *)
THEOREM NullContract == Spec => []NullMeansException
  <1>1. Core /\ PendingInv => NullMeansException
    BY DEF Core, SomeoneReports, NullMeansException, PendingInv
  <1> QED
    BY <1>1, CoreInit, CoreNext, PendingInit, PendingNext, PTL DEF Spec

(* An exception that is pending while encoding goes on has a function on    *)
(* the stack that will see it.                                              *)
THEOREM PendingSeen == Spec => []PendingIsSeen
  BY CoreInit, CoreNext, PendingInit, PendingNext, PTL DEF Spec, PendingInv

(* While a call unwinds, the exception it failed with stays.                *)
THEOREM ExceptionStays == Spec => FirstExceptionKept
  <1>1. Core /\ [Next]_vars =>
            [exc # NoExc /\ pc \in {"fail", "raised"} => exc' = exc]_vars
    BY KeepsException
  <1> QED
    BY <1>1, CoreInit, CoreNext, PTL DEF Spec, FirstExceptionKept

(* The depth error is set by the function at the limit.                     *)
THEOREM LimitNamed == Spec => InnermostReports
  <1>1. Core /\ [Next]_vars =>
            [exc # exc' /\ exc'.type = "Recursion" =>
                /\ Cardinality(Levels(stack)) = MaxDepth
                /\ exc'.at = Top.node]_vars
    BY ReportsAtLimit
  <1> QED
    BY <1>1, CoreInit, CoreNext, PTL DEF Spec, InnermostReports

(* A closing bracket overwrites the comma of its own container, in memory   *)
(* and in a file buffer that may flush at any request.                      *)
THEOREM CommaStays == Spec => []CommaInBuffer
  <1>1. Init => CommaInBuffer
    BY DEF Init, CommaInBuffer
  <1> QED
    BY <1>1, CoreInit, CoreNext, CommaNext, PTL DEF Spec

LEMMA ShallowSlack ==
    Core /\ CommaInBuffer /\ Slack /\ depth <= Extra - 4 /\ [Next]_vars
        => (Core /\ CommaInBuffer /\ Slack)'
  <1> SUFFICES ASSUME Core, CommaInBuffer, Slack, depth <= Extra - 4, [Next]_vars
               PROVE  (Core /\ CommaInBuffer /\ Slack)'
    OBVIOUS
  <1>1. Extra >= depth + 4
    BY CoreFacts, ExtraNat
  <1> QED
    BY <1>1, CoreNext, CommaNext, SlackNext

(* As long as a call nests no deeper than Encoder_EXTRA_CAPACITY - 4 levels *)
(* (six, as the code is shipped), every request covers what is written      *)
(* before the next one, the closing brackets of all open levels included.   *)
THEOREM BracketsHaveRoom == Spec /\ [](depth <= Extra - 4) => []Slack
  <1>1. Init => Core /\ CommaInBuffer /\ Slack
    BY CoreInit, SlackInit DEF Init, CommaInBuffer
  <1> QED
    BY <1>1, ShallowSlack, PTL DEF Spec

(* Such a call never writes behind its buffer; deeper ones may              *)
(* (MCNestingAppend).                                                       *)
THEOREM EnoughRoom == Spec /\ [](depth <= Extra - 4) => []NoOverrun
  <1>1. Init => Core /\ CommaInBuffer /\ Slack
    BY CoreInit, SlackInit DEF Init, CommaInBuffer
  <1>2. Core /\ Slack => NoOverrun
    <2> SUFFICES ASSUME Core, Slack PROVE NoOverrun
      OBVIOUS
    <2>1. out.size \in Nat /\ Len(out.text) \in Nat /\ out.size - Len(out.text) >= 0
      BY CoreFacts, SlackFacts, LenProperties DEF RoomOf, Buffer
    <2> QED
      BY <2>1 DEF NoOverrun
  <1> QED
    BY <1>1, <1>2, ShallowSlack, PTL DEF Spec

-----------------------------------------------------------------------------
(* The references: the encoder releases those it takes, but for those of an *)
(* ItemsView or a Dataclass when a call fails.                              *)

(* How many references a frame that waits for a nested call owns: the loops *)
(* over an iterator have the iterator and the item, EncodeDataclass has     *)
(* fields_dict and, when the key is written, the value; a wrapper has the   *)
(* object it encodes; EncodeDict and EncodeList borrow.                     *)
Weight(f) ==
    IF f.how \in {"Dict", "List"} THEN 0
    ELSE IF f.how \in WrapperKinds \/ (f.how = "Dataclass" /\ f.keyCall) THEN 1
    ELSE 2

Marked(s, F) == {k \in 1..Len(s) : s[k] \in F}
Bearing(how) == {f \in Frame : f.how = how /\ Weight(f) # 0}
Double(how) == {f \in Frame : f.how = how /\ Weight(f) = 2}

(* What the frames of one kind own together. *)
Owned(s, how) ==
    Cardinality(Marked(s, Bearing(how))) + Cardinality(Marked(s, Double(how)))

(* Between two iterations the frame on top has no item or value. *)
Spare(p, s, how) ==
    IF p = "loop" /\ s[Len(s)].how = how /\ Weight(s[Len(s)]) = 2 THEN 1 ELSE 0

(* The kinds whose frames lose or overdraw references when a call fails.    *)
Leaky == {"ItemsView", "Dataclass"}
Failing == {"fail", "raised"}

RefsInv ==
    /\ \A how \in FrameKinds :
          \/ how \in Leaky /\ pc \in Failing
          \/ refs[how] = Owned(stack, how) - Spare(pc, stack, how)
    /\ pc = "loop" => stack # <<>> /\ ~Top.keyCall
    /\ pc \in {"returned", "raised"} => stack = <<>>

-----------------------------------------------------------------------------
(* Counting. *)

LEMMA MarkedFinite ==
    ASSUME NEW s \in Seq(Frame), NEW F
    PROVE  /\ Marked(s, F) \subseteq 1..Len(s)
           /\ IsFiniteSet(Marked(s, F)) /\ Cardinality(Marked(s, F)) \in Nat
  <1>1. Len(s) \in Nat
    BY LenProperties
  <1>2. Marked(s, F) \subseteq 1..Len(s)
    BY DEF Marked
  <1>3. IsFiniteSet(1..Len(s))
    BY <1>1, FS_Interval
  <1> QED
    BY <1>2, <1>3, FS_Subset, FS_CardinalityType

LEMMA MarkedPush ==
    ASSUME NEW s \in Seq(Frame), NEW f \in Frame, NEW F
    PROVE  Cardinality(Marked(Append(s, f), F)) =
               Cardinality(Marked(s, F)) + (IF f \in F THEN 1 ELSE 0)
  <1>1. /\ Len(s) \in Nat /\ Len(Append(s, f)) = Len(s) + 1
        /\ \A k \in 1..Len(s) : Append(s, f)[k] = s[k]
        /\ Append(s, f)[Len(s) + 1] = f
    BY AppendProperties, LenProperties
  <1>2. CASE f \notin F
    <2>1. Marked(Append(s, f), F) = Marked(s, F)
      BY <1>1, <1>2 DEF Marked
    <2> QED
      BY <1>2, <2>1, MarkedFinite
  <1>3. CASE f \in F
    <2>1. Marked(Append(s, f), F) = Marked(s, F) \cup {Len(s) + 1}
      BY <1>1, <1>3 DEF Marked
    <2>2. Len(s) + 1 \notin Marked(s, F)
      BY <1>1 DEF Marked
    <2> QED
      BY <1>3, <2>1, <2>2, MarkedFinite, FS_AddElement
  <1> QED
    BY <1>2, <1>3

LEMMA WeightFacts ==
    ASSUME NEW f
    PROVE  Weight(f) \in {0, 1, 2}
  BY DEF Weight

LEMMA OwnedPush ==
    ASSUME NEW s \in Seq(Frame), NEW f \in Frame, NEW how
    PROVE  /\ Owned(s, how) \in Int
           /\ Owned(Append(s, f), how) =
                  Owned(s, how) + (IF how = f.how THEN Weight(f) ELSE 0)
  <1>1. /\ Cardinality(Marked(s, Bearing(how))) \in Nat
        /\ Cardinality(Marked(s, Double(how))) \in Nat
    BY MarkedFinite
  <1>2. /\ Cardinality(Marked(Append(s, f), Bearing(how))) =
               Cardinality(Marked(s, Bearing(how))) + (IF f \in Bearing(how) THEN 1 ELSE 0)
        /\ Cardinality(Marked(Append(s, f), Double(how))) =
               Cardinality(Marked(s, Double(how))) + (IF f \in Double(how) THEN 1 ELSE 0)
    BY MarkedPush
  <1>3. /\ f \in Bearing(how) <=> how = f.how /\ Weight(f) # 0
        /\ f \in Double(how) <=> how = f.how /\ Weight(f) = 2
    BY DEF Bearing, Double
  <1> QED
    BY <1>1, <1>2, <1>3, WeightFacts DEF Owned

LEMMA OwnedNone ==
    ASSUME NEW how
    PROVE  Owned(<<>>, how) = 0
  <1>1. ASSUME NEW F PROVE Marked(<<>>, F) = {}
    BY DEF Marked
  <1>2. Marked(<<>>, Bearing(how)) = {} /\ Marked(<<>>, Double(how)) = {}
    BY <1>1, Zenon
  <1>3. Cardinality({}) = 0
    BY FS_EmptySet, Zenon
  <1>4. /\ Cardinality(Marked(<<>>, Bearing(how))) = 0
        /\ Cardinality(Marked(<<>>, Double(how))) = 0
    BY <1>2, <1>3, Zenon
  <1> QED
    BY <1>4 DEF Owned

LEMMA StackIsPush ==
    ASSUME stack \in Seq(Frame), stack # <<>>
    PROVE  stack = Append(Below, Top)
  <1>1. /\ Top \in Frame /\ Below \in Seq(Frame) /\ Len(stack) \in Nat
        /\ Len(Below) = Len(stack) - 1
        /\ \A k \in 1..Len(Below) : Below[k] = stack[k]
    BY TopFacts
  <1>2. /\ Append(Below, Top) \in Seq(Frame) /\ Len(Append(Below, Top)) = Len(stack)
        /\ \A k \in 1..Len(stack) : Append(Below, Top)[k] = stack[k]
    BY <1>1, AppendProperties DEF Top
  <1> QED
    BY <1>2, SeqEqual

LEMMA OwnedTop ==
    ASSUME stack \in Seq(Frame), stack # <<>>, NEW how
    PROVE  /\ Owned(Below, how) \in Int
           /\ Owned(stack, how) =
                  Owned(Below, how) + (IF how = Top.how THEN Weight(Top) ELSE 0)
  <1>1. Top \in Frame /\ Below \in Seq(Frame)
    BY TopFacts, Zenon
  <1>2. /\ Owned(Below, how) \in Int
        /\ Owned(Append(Below, Top), how) =
               Owned(Below, how) + (IF how = Top.how THEN Weight(Top) ELSE 0)
    BY <1>1, OwnedPush, Zenon
  <1>3. stack = Append(Below, Top)
    BY StackIsPush, Zenon
  <1> QED
    BY <1>2, <1>3, Zenon

LEMMA SpareFacts ==
    ASSUME NEW how
    PROVE  Spare(pc, stack, how) =
               IF pc = "loop" /\ Top.how = how /\ Weight(Top) = 2 THEN 1 ELSE 0
  BY DEF Spare, Top

-----------------------------------------------------------------------------
(* The four ways in which a step changes the stack. *)

(* k references of kind how are taken. *)
Takes(how, k) == Hold(how, k) \/ (k = 0 /\ refs' = refs)

LEMMA TakesAt ==
    ASSUME Core, NEW h \in FrameKinds, NEW k \in Int, Takes(h, k), NEW how \in FrameKinds
    PROVE  refs[how] \in Int /\ refs'[how] = refs[how] + (IF how = h THEN k ELSE 0)
  <1>1. refs \in [FrameKinds -> Int]
    BY CoreFacts
  <1>2. CASE Hold(h, k)
    BY <1>1, <1>2 DEF Hold
  <1>3. CASE k = 0 /\ refs' = refs
    BY <1>1, <1>3
  <1> QED
    BY <1>2, <1>3 DEF Takes

LEMMA Stays ==
    ASSUME Core, RefsInv, stack' = stack, pc # "loop", pc' # "loop",
           pc \in Failing => pc' \in Failing,
           pc' \in {"returned", "raised"} => stack = <<>>,
           NEW h \in FrameKinds, NEW k \in Int, Takes(h, k),
           k = 0 \/ (h \in Leaky /\ pc' \in Failing)
    PROVE  RefsInv'
  <1>1. ASSUME NEW how \in FrameKinds, ~(how \in Leaky /\ pc' \in Failing)
        PROVE  refs'[how] = Owned(stack', how) - Spare(pc', stack', how)
    <2>1. refs[how] = Owned(stack, how) - Spare(pc, stack, how)
      BY <1>1 DEF RefsInv
    <2>2. Spare(pc, stack, how) = 0 /\ Spare(pc', stack', how) = 0
      BY DEF Spare
    <2>3. refs[how] \in Int /\ refs'[how] = refs[how] + (IF how = h THEN k ELSE 0)
      BY TakesAt
    <2> QED
      BY <1>1, <2>1, <2>2, <2>3
  <1> QED
    BY <1>1 DEF RefsInv

LEMMA Pushes ==
    ASSUME Core, RefsInv, pc = "call", NEW f \in Frame, stack' = Append(stack, f),
           pc' \in {"call", "loop"}, pc' = "loop" => ~f.keyCall,
           NEW k \in Int, Takes(f.how, k),
           k = Weight(f) - (IF pc' = "loop" /\ Weight(f) = 2 THEN 1 ELSE 0)
    PROVE  RefsInv'
  <1>1. stack \in Seq(Frame) /\ f.how \in FrameKinds
    BY CoreFacts DEF Frame
  <1>2. stack' # <<>> /\ stack'[Len(stack')] = f
    BY <1>1, AppendProperties, LenProperties
  <1>3. ASSUME NEW how \in FrameKinds
        PROVE  refs'[how] = Owned(stack', how) - Spare(pc', stack', how)
    <2>1. refs[how] = Owned(stack, how) - Spare(pc, stack, how) /\ Spare(pc, stack, how) = 0
      BY DEF RefsInv, Failing, Spare
    <2>2. Spare(pc', stack', how) =
             IF pc' = "loop" /\ f.how = how /\ Weight(f) = 2 THEN 1 ELSE 0
      BY <1>2 DEF Spare
    <2>3. refs[how] \in Int /\ refs'[how] = refs[how] + (IF how = f.how THEN k ELSE 0)
      BY <1>1, TakesAt
    <2>4. /\ Owned(stack, how) \in Int
          /\ Owned(stack', how) =
                Owned(stack, how) + (IF how = f.how THEN Weight(f) ELSE 0)
      BY <1>1, OwnedPush
    <2> QED
      BY <2>1, <2>2, <2>3, <2>4, WeightFacts
  <1>4. pc' = "loop" => stack' # <<>> /\ ~Top'.keyCall
    BY <1>2 DEF Top
  <1> QED
    BY <1>3, <1>4 DEF RefsInv

LEMMA Pops ==
    ASSUME Core, RefsInv, stack # <<>>, stack' = Below,
           pc' \in {"call", "return", "fail"}, pc \in Failing => pc' \in Failing,
           NEW k \in Int, Takes(Top.how, k),
           \/ k = Spare(pc, stack, Top.how) - Weight(Top)
           \/ Top.how \in Leaky /\ pc' \in Failing
    PROVE  RefsInv'
  <1>1. stack \in Seq(Frame) /\ Top.how \in FrameKinds
    BY CoreFacts, TopFacts DEF Frame
  <1>2. ASSUME NEW how \in FrameKinds, ~(how \in Leaky /\ pc' \in Failing)
        PROVE  refs'[how] = Owned(stack', how) - Spare(pc', stack', how)
    <2>1. refs[how] = Owned(stack, how) - Spare(pc, stack, how)
      BY <1>2 DEF RefsInv
    <2>2. Spare(pc', stack', how) = 0
      BY DEF Spare
    <2>3. refs[how] \in Int /\ refs'[how] = refs[how] + (IF how = Top.how THEN k ELSE 0)
      BY <1>1, TakesAt
    <2>4. /\ Owned(stack', how) \in Int
          /\ Owned(stack, how) =
                Owned(stack', how) + (IF how = Top.how THEN Weight(Top) ELSE 0)
      BY <1>1, OwnedTop
    <2>5. how # Top.how => Spare(pc, stack, how) = 0
      BY SpareFacts
    <2>6. Spare(pc, stack, how) \in {0, 1}
      BY DEF Spare
    <2> QED
      BY <1>2, <2>1, <2>2, <2>3, <2>4, <2>5, <2>6, WeightFacts
  <1> QED
    BY <1>2 DEF RefsInv

LEMMA Replaces ==
    ASSUME Core, RefsInv, stack # <<>>, pc \in {"loop", "return"}, pc' = "call",
           NEW f \in Frame, f.how = Top.how, stack' = Append(Below, f),
           NEW k \in Int, Takes(Top.how, k),
           k = Weight(f) - Weight(Top) + Spare(pc, stack, Top.how)
    PROVE  RefsInv'
  <1>1. stack \in Seq(Frame) /\ Below \in Seq(Frame) /\ Top.how \in FrameKinds
    BY CoreFacts, TopFacts DEF Frame
  <1>2. ASSUME NEW how \in FrameKinds
        PROVE  refs'[how] = Owned(stack', how) - Spare(pc', stack', how)
    <2>1. refs[how] = Owned(stack, how) - Spare(pc, stack, how)
      BY DEF RefsInv, Failing
    <2>2. Spare(pc', stack', how) = 0
      BY DEF Spare
    <2>3. refs[how] \in Int /\ refs'[how] = refs[how] + (IF how = Top.how THEN k ELSE 0)
      BY <1>1, TakesAt
    <2>4. /\ Owned(Below, how) \in Int
          /\ Owned(stack, how) =
                Owned(Below, how) + (IF how = Top.how THEN Weight(Top) ELSE 0)
      BY <1>1, OwnedTop
    <2>5. Owned(stack', how) = Owned(Below, how) + (IF how = Top.how THEN Weight(f) ELSE 0)
      BY <1>1, OwnedPush
    <2>6. how # Top.how => Spare(pc, stack, how) = 0
      BY SpareFacts
    <2>7. Spare(pc, stack, how) \in {0, 1}
      BY DEF Spare
    <2>8. Weight(f) \in {0, 1, 2} /\ Weight(Top) \in {0, 1, 2}
      BY WeightFacts
    <2>9. CASE how = Top.how
      <3>1. k = Weight(f) - Weight(Top) + Spare(pc, stack, how)
        BY <2>9
      <3>2. /\ refs'[how] = refs[how] + k
            /\ Owned(stack, how) = Owned(Below, how) + Weight(Top)
            /\ Owned(stack', how) = Owned(Below, how) + Weight(f)
        BY <2>3, <2>4, <2>5, <2>9
      <3>3. Weight(f) \in Int /\ Weight(Top) \in Int /\ Spare(pc, stack, how) \in Int
        BY <2>7, <2>8
      <3> QED
        BY ONLY <2>1, <2>2, <2>3, <2>4, <3>1, <3>2, <3>3
    <2>10. CASE how # Top.how
      BY <2>1, <2>2, <2>3, <2>4, <2>5, <2>6, <2>8, <2>10
    <2> QED
      BY <2>9, <2>10
  <1> QED
    BY <1>2 DEF RefsInv

-----------------------------------------------------------------------------
(* The steps. *)

LEMMA LeavesRefs == Core /\ RefsInv /\ Leaves => RefsInv'
  <1> SUFFICES ASSUME Core, RefsInv, Leaves PROVE RefsInv'
    OBVIOUS
  <1>1. pc = "call" /\ pc' \in {"call", "return", "fail"} /\ UNCHANGED <<stack, refs>>
    BY DEF Leaves, LookupClears, EncodeLeaf, LeafNoRoom, LeafRaises, Refuse, CallingLeaf, Calling,
           Dispatched, Fail
  <1>2. "List" \in FrameKinds /\ Takes("List", 0)
    BY <1>1 DEF FrameKinds, ListKinds, Takes
  <1> QED
    BY <1>1, <1>2, Stays DEF Failing

LEMMA NewFrameFacts ==
    ASSUME Core, NEW how \in FrameKinds, NEW asKey \in BOOLEAN
    PROVE  /\ NewFrame(how, asKey) \in Frame
           /\ NewFrame(how, asKey).how = how
           /\ NewFrame(how, asKey).keyCall = asKey
  BY CoreFacts DEF NewFrame, Frame

LEMMA EntersRefs ==
    ASSUME Core, RefsInv, pc = "call", NEW how \in Containers, Enter(how),
           NEW k \in {0, 1}, Takes(how, k), k = 0 <=> how \in {"Dict", "List"}
    PROVE  RefsInv'
  <1> DEFINE f == NewFrame(how, FALSE)
  <1>1. f \in Frame /\ f.how = how /\ f.keyCall = FALSE
    BY NewFrameFacts DEF Containers, FrameKinds
  <1>2. Weight(f) = IF how \in {"Dict", "List"} THEN 0 ELSE 2
    BY <1>1 DEF Weight, Containers, MappingKinds, ListKinds, WrapperKinds
  <1>3. stack' = Append(stack, f) /\ pc' = "loop"
    BY DEF Enter, Push
  <1> HIDE DEF f
  <1> QED
    BY <1>1, <1>2, <1>3, Pushes

LEMMA EntriesRefs == Core /\ RefsInv /\ Entries => RefsInv'
  <1> SUFFICES ASSUME Core, RefsInv, Entries PROVE RefsInv'
    OBVIOUS
  <1>1. pc = "call"
    BY DEF Entries, EncodeEmptyDict, EnterDict, EnterItemsView, EnterDataclass,
           EnterList, EnterIterable, EnterNoRoom, EnterRaises, TakenForView,
           TakenForViewNoRoom, Calling, Dispatched
  <1>2. /\ {"Dict", "List", "ItemsView", "Dataclass", "Iterable"} = Containers
        /\ Containers \subseteq FrameKinds
    BY DEF Containers, FrameKinds, MappingKinds, ListKinds
  <1>3. ASSUME stack' = stack, pc' \in {"return", "fail"}, refs' = refs
        PROVE  RefsInv'
    <2>1. Takes("List", 0)
      BY <1>3 DEF Takes
    <2> QED
      BY <1>1, <1>2, <1>3, <2>1, Stays DEF Failing
  <1>4. ASSUME stack' = stack, pc' = "fail", NEW how \in Leaky, NEW k \in Int, Hold(how, k)
        PROVE  RefsInv'
    <2>1. Takes(how, k) /\ how \in FrameKinds
      BY <1>2, <1>4 DEF Takes, Leaky
    <2> QED
      BY <1>1, <1>4, <2>1, Stays DEF Failing
  <1>5. CASE EncodeEmptyDict
    BY <1>3, <1>5 DEF EncodeEmptyDict
  <1>6. CASE EnterDict
    <2>1. CASE Enter("Dict") /\ refs' = refs
      BY <1>1, <1>2, <2>1, EntersRefs DEF Takes
    <2>2. CASE EnterFails /\ refs' = refs
      BY <1>3, <2>2 DEF EnterFails, Fail
    <2> QED
      BY <1>6, <2>1, <2>2 DEF EnterDict
  <1>7. CASE EnterItemsView
    <2>1. CASE Enter("ItemsView") /\ Hold("ItemsView", 1)
      BY <1>1, <1>2, <2>1, EntersRefs DEF Takes
    <2>2. CASE EnterFails /\ Hold("ItemsView", 1)
      BY <1>4, <2>2 DEF EnterFails, Fail, Leaky
    <2> QED
      BY <1>7, <2>1, <2>2 DEF EnterItemsView
  <1>8. CASE EnterDataclass
    <2>1. CASE Enter("Dataclass") /\ Hold("Dataclass", 1)
      BY <1>1, <1>2, <2>1, EntersRefs DEF Takes
    <2>2. CASE EnterFails /\ Hold("Dataclass", 1)
      BY <1>4, <2>2 DEF EnterFails, Fail, Leaky
    <2> QED
      BY <1>8, <2>1, <2>2 DEF EnterDataclass
  <1>9. CASE EnterList
    <2>1. CASE Enter("List") /\ refs' = refs
      BY <1>1, <1>2, <2>1, EntersRefs DEF Takes
    <2>2. CASE EnterFails /\ refs' = refs
      BY <1>3, <2>2 DEF EnterFails, Fail
    <2> QED
      BY <1>9, <2>1, <2>2 DEF EnterList
  <1>10. CASE EnterIterable
    <2>1. CASE Enter("Iterable") /\ Hold("Iterable", 1)
      BY <1>1, <1>2, <2>1, EntersRefs DEF Takes
    <2>2. CASE EnterFails /\ refs' = refs
      BY <1>3, <2>2 DEF EnterFails, Fail
    <2> QED
      BY <1>10, <2>1, <2>2 DEF EnterIterable
  <1>11. CASE EnterNoRoom
    BY <1>3, <1>4, <1>11 DEF EnterNoRoom, Fail, Leaky
  <1>12. CASE EnterRaises
    BY <1>3, <1>12 DEF EnterRaises, Fail
  <1>13. CASE TakenForView
    <2>1. CASE Fail /\ UNCHANGED <<stack, depth, refs>>
      BY <1>3, <2>1 DEF Fail
    <2>2. CASE Branch(node) = "ItemsView" /\ Enter("ItemsView") /\ Hold("ItemsView", 1)
      BY <1>1, <1>2, <2>2, EntersRefs DEF Takes
    <2>3. CASE /\ Fail /\ UNCHANGED stack
               /\ Hold("ItemsView", 1) \/ Hold("ItemsView", 0) \/ Hold("ItemsView", -1)
      <3>1. "ItemsView" \in Leaky /\ stack' = stack /\ pc' = "fail"
        BY <2>3 DEF Leaky, Fail
      <3>2. ASSUME NEW k \in {1, 0, -1}, Hold("ItemsView", k) PROVE RefsInv'
        BY <1>4, <3>1, <3>2
      <3> QED
        BY <2>3, <3>2
    <2> QED
      BY <1>13, <2>1, <2>2, <2>3 DEF TakenForView
  <1>14. CASE TakenForViewNoRoom
    BY <1>3, <1>14 DEF TakenForViewNoRoom, Fail
  <1> QED
    BY <1>5, <1>6, <1>7, <1>8, <1>9, <1>10, <1>11, <1>12, <1>13, <1>14 DEF Entries

LEMMA AsKeyType == Core => AsKey \in BOOLEAN
  BY CoreFacts, TopFacts DEF AsKey, Frame

LEMMA WrappersRefs == Core /\ RefsInv /\ Wrappers => RefsInv'
  <1> SUFFICES ASSUME Core, RefsInv, Wrappers PROVE RefsInv'
    OBVIOUS
  <1>1. pc = "call"
    BY DEF Wrappers, CallWrapper, CallEnumValue, UnwrapRaises, Calling, Dispatched
  <1>2. ASSUME stack' = stack, pc' = "fail", refs' = refs
        PROVE  RefsInv'
    <2>1. Takes("List", 0) /\ "List" \in FrameKinds
      BY <1>2 DEF Takes, FrameKinds, ListKinds
    <2> QED
      BY <1>1, <1>2, <2>1, Stays DEF Failing
  <1>3. ASSUME NEW how \in WrapperKinds, Unwrap(how)
        PROVE  RefsInv'
    <2> DEFINE f == NewFrame(how, AsKey)
    <2>1. f \in Frame /\ f.how = how
      BY NewFrameFacts, AsKeyType DEF FrameKinds
    <2>2. Weight(f) = 1
      BY <2>1 DEF Weight, WrapperKinds
    <2>3. stack' = Append(stack, f) /\ pc' = "call" /\ Takes(how, 1)
      BY <1>1, <1>3 DEF Unwrap, Push, Takes
    <2> HIDE DEF f
    <2> QED
      BY <1>1, <2>1, <2>2, <2>3, Pushes
  <1>4. ASSUME NEW how \in WrapperKinds, CallWrapper(how)
        PROVE  RefsInv'
    BY <1>2, <1>3, <1>4 DEF CallWrapper, EnterFails, Fail
  <1>5. CASE CallEnumValue
    BY <1>3, <1>5 DEF CallEnumValue, WrapperKinds
  <1>6. CASE UnwrapRaises
    BY <1>2, <1>6 DEF UnwrapRaises, Fail
  <1> QED
    BY <1>4, <1>5, <1>6 DEF Wrappers

(* What the frame on top owns, by what it is. *)
LEMMA TopWeight ==
    /\ Top.how \in {"Dict", "List"} => Weight(Top) = 0
    /\ Top.how \in WrapperKinds => Weight(Top) = 1
    /\ Top.how \in {"ItemsView", "Iterable"} => Weight(Top) = 2
    /\ Top.how = "Dataclass" => Weight(Top) = IF Top.keyCall THEN 1 ELSE 2
  BY DEF Weight, WrapperKinds

(* The frame on top with another index, or waiting for something else. *)
LEMMA SetTopRefs ==
    ASSUME Core, RefsInv, stack # <<>>, pc \in {"loop", "return"}, pc' = "call",
           NEW i \in Nat, NEW asKey \in BOOLEAN, SetTop(i, asKey),
           NEW k \in Int, Takes(Top.how, k),
           k = (IF Top.how = "Dataclass" THEN (IF asKey THEN 1 ELSE 2) ELSE Weight(Top))
                  - Weight(Top) + Spare(pc, stack, Top.how)
    PROVE  RefsInv'
  <1> DEFINE f == [node |-> Top.node, how |-> Top.how, i |-> i, keyCall |-> asKey]
  <1>1. f \in Frame /\ f.how = Top.how /\ f.keyCall = asKey
    BY CoreFacts, TopFacts DEF Frame
  <1>2. stack' = Append(Below, f)
    BY DEF SetTop
  <1> HIDE DEF f
  <1>3. Weight(f) = IF Top.how = "Dataclass" THEN (IF asKey THEN 1 ELSE 2) ELSE Weight(Top)
    BY <1>1 DEF Weight, WrapperKinds
  <1> QED
    BY <1>1, <1>2, <1>3, Replaces

LEMMA LoopsRefs == Core /\ RefsInv /\ Loops => RefsInv'
  <1> SUFFICES ASSUME Core, RefsInv, Loops PROVE RefsInv'
    OBVIOUS
  <1>1. pc = "loop" /\ stack # <<>> /\ ~Top.keyCall
    BY DEF Loops, NextEntry, NextItem, NextRaises, BadItem, Close, Looping, RefsInv
  <1>2. Top.how \in FrameKinds /\ Top.i \in Nat /\ Top.i + 1 \in Nat
    BY <1>1, CoreFacts, TopFacts DEF Frame
  <1>3. Spare(pc, stack, Top.how) = IF Weight(Top) = 2 THEN 1 ELSE 0
    BY <1>1, SpareFacts
  <1>4. CASE NextEntry
    <2>1. Top.how \in MappingKinds /\ SetTop(Top.i + 1, TRUE) /\ pc' = "call" /\ HoldItem
      BY <1>4 DEF NextEntry, Looping, Call
    <2> DEFINE k == IF Top.how = "ItemsView" THEN 1 ELSE 0
    <2>2. Takes(Top.how, k) /\ k \in Int
      BY <2>1 DEF HoldItem, Takes, MappingKinds
    <2>3. k = (IF Top.how = "Dataclass" THEN 1 ELSE Weight(Top))
                 - Weight(Top) + Spare(pc, stack, Top.how)
      BY <1>1, <1>3, <2>1, TopWeight DEF MappingKinds
    <2> HIDE DEF k
    <2> QED
      BY <1>1, <1>2, <2>1, <2>2, <2>3, SetTopRefs
  <1>5. CASE NextItem
    <2>1. Top.how \in ListKinds /\ SetTop(Top.i + 1, FALSE) /\ pc' = "call" /\ HoldItem
      BY <1>5 DEF NextItem, Looping, Call
    <2> DEFINE k == IF Top.how = "Iterable" THEN 1 ELSE 0
    <2>2. Takes(Top.how, k) /\ k \in Int
      BY <2>1 DEF HoldItem, Takes, ListKinds
    <2>3. k = (IF Top.how = "Dataclass" THEN 2 ELSE Weight(Top))
                 - Weight(Top) + Spare(pc, stack, Top.how)
      BY <1>1, <1>3, <2>1, TopWeight DEF ListKinds
    <2> HIDE DEF k
    <2> QED
      BY <1>1, <1>2, <2>1, <2>2, <2>3, SetTopRefs
  <1>6. CASE NextRaises
    <2>1. /\ Top.how \in {"ItemsView", "Iterable"} /\ stack' = Below /\ pc' = "fail"
          /\ Takes(Top.how, IF Top.how = "ItemsView" THEN -2 ELSE -1)
      BY <1>6 DEF NextRaises, Looping, Pop, Fail, Takes
    <2> QED
      BY <1>1, <1>3, <2>1, TopWeight, Pops DEF Failing, Leaky
  <1>7. CASE BadItem
    <2>1. /\ Top.how = "ItemsView" /\ stack' = Below /\ pc' = "fail"
          /\ Takes(Top.how, -1)
      BY <1>7 DEF BadItem, Looping, Pop, Fail, Takes
    <2> QED
      BY <1>1, <1>3, <2>1, TopWeight, Pops DEF Failing, Leaky
  <1>8. CASE Close
    <2>1. /\ Top.how \in Containers /\ stack' = Below /\ pc' = "return"
          /\ Takes(Top.how, IF Top.how \in {"ItemsView", "Dataclass", "Iterable"}
                            THEN -1 ELSE 0)
      BY <1>8 DEF Close, Looping, Pop, Takes, Containers
    <2> QED
      BY <1>1, <1>3, <2>1, TopWeight, Pops DEF Failing, Containers, MappingKinds, ListKinds
  <1> QED
    BY <1>4, <1>5, <1>6, <1>7, <1>8 DEF Loops

LEMMA ReturnsRefs == Core /\ RefsInv /\ Returns => RefsInv'
  <1> SUFFICES ASSUME Core, RefsInv, Returns PROVE RefsInv'
    OBVIOUS
  <1>1. pc \in {"return", "fail"} /\ stack # <<>>
    BY DEF Returns, KeyDone, FieldRaises, ItemDone, WrapperDone, CallFailed, Returned
  <1>2. Top.how \in FrameKinds /\ Top.i \in Nat
    BY <1>1, CoreFacts, TopFacts DEF Frame
  <1>3. Spare(pc, stack, Top.how) = 0
    BY <1>1, SpareFacts
  <1>4. CASE KeyDone
    <2>1. /\ pc = "return" /\ Top.how \in MappingKinds /\ Top.keyCall
          /\ SetTop(Top.i, FALSE) /\ pc' = "call"
      BY <1>4 DEF KeyDone, Returned, Call
    <2> DEFINE k == IF Top.how = "Dataclass" THEN 1 ELSE 0
    <2>2. Takes(Top.how, k) /\ k \in Int
      BY <1>4 DEF KeyDone, Takes
    <2>3. k = (IF Top.how = "Dataclass" THEN 2 ELSE Weight(Top))
                 - Weight(Top) + Spare(pc, stack, Top.how)
      BY <1>3, <2>1, TopWeight DEF MappingKinds
    <2> HIDE DEF k
    <2> QED
      BY <1>1, <1>2, <2>1, <2>2, <2>3, SetTopRefs
  <1>5. CASE FieldRaises
    <2>1. /\ Top.how = "Dataclass" /\ stack' = Below /\ pc' = "fail" /\ Takes(Top.how, -1)
      BY <1>5 DEF FieldRaises, Returned, Pop, Fail, Takes
    <2> QED
      BY <1>1, <2>1, Pops DEF Failing, Leaky
  <1>6. CASE ItemDone
    <2> DEFINE k == IF Top.how \in {"ItemsView", "Iterable", "Dataclass"} THEN -1 ELSE 0
    <2>1. /\ pc = "return" /\ pc' = "loop" /\ stack' = stack /\ ~Top.keyCall
          /\ Top.how \in Containers
          /\ Takes(Top.how, k) /\ k \in Int
      BY <1>6 DEF ItemDone, Returned, Takes, Containers
    <2>2. k = IF Weight(Top) = 2 THEN -1 ELSE 0
      BY <2>1, TopWeight DEF Containers, MappingKinds, ListKinds
    <2> HIDE DEF k
    <2>3. ASSUME NEW how \in FrameKinds
          PROVE  refs'[how] = Owned(stack', how) - Spare(pc', stack', how)
      <3>1. refs[how] = Owned(stack, how) - Spare(pc, stack, how) /\ Spare(pc, stack, how) = 0
        BY <2>1 DEF RefsInv, Failing, Spare
      <3>2. Spare(pc', stack', how) = IF Top.how = how /\ Weight(Top) = 2 THEN 1 ELSE 0
        BY <2>1 DEF Spare, Top
      <3>3. /\ refs[how] \in Int
            /\ refs'[how] = refs[how] + (IF how = Top.how THEN k ELSE 0)
        BY <1>2, <2>1, TakesAt
      <3>4. Owned(stack, how) \in Int
        BY <1>1, CoreFacts, OwnedPush, TopFacts
      <3>5. stack' = stack
        BY <2>1
      <3> QED
        BY <2>2, <3>1, <3>2, <3>3, <3>4, <3>5
    <2>4. stack' # <<>> /\ ~Top'.keyCall
      BY <1>1, <2>1 DEF Top
    <2> QED
      BY <2>1, <2>3, <2>4 DEF RefsInv
  <1>7. CASE WrapperDone
    <2>1. /\ Top.how \in WrapperKinds /\ stack' = Below /\ pc' = "return" /\ pc = "return"
          /\ Takes(Top.how, -1)
      BY <1>7 DEF WrapperDone, Returned, Pop, Takes
    <2> QED
      BY <1>1, <1>3, <2>1, TopWeight, Pops DEF Failing
  <1>8. CASE CallFailed
    <2>1. /\ pc = "fail" /\ stack' = Below /\ pc' = "fail"
          /\ Hold(Top.how, 0 - Released(Top))
      BY <1>8 DEF CallFailed, Pop
    <2>2. Released(Top) \in Int
      BY DEF Released
    <2>3. Top.how \notin Leaky => Released(Top) = Weight(Top)
      BY <1>2, TopWeight DEF Released, Leaky, FrameKinds, MappingKinds, ListKinds, WrapperKinds
    <2>4. Takes(Top.how, 0 - Released(Top)) /\ 0 - Released(Top) \in Int
      BY <2>1, <2>2 DEF Takes
    <2> QED
      BY <1>1, <1>3, <2>1, <2>3, <2>4, Pops DEF Failing
  <1> QED
    BY <1>4, <1>5, <1>6, <1>7, <1>8 DEF Returns

LEMMA EndsRefs == Core /\ RefsInv /\ Ends => RefsInv'
  <1> SUFFICES ASSUME Core, RefsInv, Ends PROVE RefsInv'
    OBVIOUS
  <1>1. /\ pc \in {"return", "fail"} /\ stack = <<>> /\ UNCHANGED <<stack, refs>>
        /\ pc' \in {"returned", "raised"} /\ (pc = "fail" => pc' = "raised")
    BY DEF Ends, Finish, FinishFails, ReturnNull
  <1>2. "List" \in FrameKinds /\ Takes("List", 0)
    BY <1>1 DEF FrameKinds, ListKinds, Takes
  <1> QED
    BY <1>1, <1>2, Stays DEF Failing

LEMMA RefsInit == Init => RefsInv
  <1> SUFFICES ASSUME Init PROVE RefsInv
    OBVIOUS
  <1>1. ASSUME NEW how \in FrameKinds
        PROVE  refs[how] = Owned(stack, how) - Spare(pc, stack, how)
    BY OwnedNone DEF Init, Spare
  <1> QED
    BY <1>1 DEF Init, RefsInv

LEMMA RefsNext == Core /\ RefsInv /\ [Next]_vars => RefsInv'
  <1>1. ASSUME RefsInv, UNCHANGED vars PROVE RefsInv'
    BY <1>1 DEF vars, RefsInv, Top
  <1> QED
    BY <1>1, LeavesRefs, EntriesRefs, WrappersRefs, LoopsRefs, ReturnsRefs, EndsRefs
       DEF Next, Over

(* Every reference the encoder takes is released when the call is over,     *)
(* except those of an ItemsView or a Dataclass when the call fails.         *)
THEOREM ReferencesReleased == Spec => []RefsReleased
  <1>1. RefsInv => RefsReleased
    <2> SUFFICES ASSUME RefsInv, pc \in {"returned", "raised"},
                        NEW how \in FrameKinds, how \in Leaky => pc = "returned"
                 PROVE  refs[how] = 0
      BY DEF RefsReleased, Leaky
    <2>1. stack = <<>> /\ Owned(<<>>, how) = 0
      BY OwnedNone DEF RefsInv
    <2>2. Spare(pc, stack, how) = 0
      BY DEF Spare
    <2> QED
      BY <2>1, <2>2 DEF RefsInv, Failing
  <1> QED
    BY <1>1, CoreInit, CoreNext, RefsInit, RefsNext, PTL DEF Spec

-----------------------------------------------------------------------------
(* The outcomes of JsonText, and how they follow each other. *)

Whole(text) == Promise!Whole(text)
Then(first, second) == Promise!Then(first, second)

Why == {"none", "Encode", "Recursion"}
Outcomes == [why : Why, text : Seq(Cell)]

Nothing == Whole(<<>>)

LEMMA WholeType ==
    ASSUME NEW s \in Seq(Cell)
    PROVE  Whole(s) \in Outcomes /\ Whole(s).text = s /\ Whole(s).why = "none"
  BY DEF Whole, Promise!Whole, Outcomes, Why

LEMMA ThenType ==
    ASSUME NEW a \in Outcomes, NEW b \in Outcomes
    PROVE  Then(a, b) \in Outcomes
  <1>1. a.text \o b.text \in Seq(Cell)
    BY ConcatProperties DEF Outcomes
  <1> QED
    BY <1>1 DEF Then, Promise!Then, Outcomes

LEMMA ThenAfterWhole ==
    ASSUME NEW s \in Seq(Cell), NEW b \in Outcomes
    PROVE  Then(Whole(s), b) = [why |-> b.why, text |-> s \o b.text]
  BY DEF Then, Whole, Promise!Then, Promise!Whole

LEMMA SameOutcome ==
    ASSUME NEW a \in Outcomes, NEW b \in Outcomes, a.why = b.why, a.text = b.text
    PROVE  a = b
  BY DEF Outcomes

LEMMA NothingBefore ==
    ASSUME NEW b \in Outcomes
    PROVE  Then(Nothing, b) = b
  <1>1. <<>> \in Seq(Cell) /\ <<>> \o b.text = b.text
    BY ConcatEmptySeq, EmptySeq DEF Outcomes
  <1>2. Then(Nothing, b) = [why |-> b.why, text |-> b.text]
    BY <1>1, ThenAfterWhole DEF Nothing
  <1> QED
    BY <1>2 DEF Outcomes

LEMMA NothingBehind ==
    ASSUME NEW b \in Outcomes
    PROVE  Then(b, Nothing) = b
  <1>1. b.text \o <<>> = b.text
    BY ConcatEmptySeq DEF Outcomes
  <1>2. b = [why |-> b.why, text |-> b.text]
    BY DEF Outcomes
  <1>3. Nothing = [why |-> "none", text |-> <<>>]
    BY DEF Nothing, Whole, Promise!Whole
  <1> QED
    BY <1>1, <1>2, <1>3 DEF Then, Promise!Then

LEMMA ThenAssociates ==
    ASSUME NEW a \in Outcomes, NEW b \in Outcomes, NEW c \in Outcomes
    PROVE  Then(Then(a, b), c) = Then(a, Then(b, c))
  <1>1. a.text \o (b.text \o c.text) = (a.text \o b.text) \o c.text
    BY ConcatAssociative DEF Outcomes
  <1>2. CASE a.why # "none"
    BY <1>2 DEF Then, Promise!Then
  <1>3. CASE a.why = "none" /\ b.why # "none"
    BY <1>3 DEF Then, Promise!Then
  <1>4. CASE a.why = "none" /\ b.why = "none"
    BY <1>1, <1>4 DEF Then, Promise!Then
  <1> QED
    BY <1>2, <1>3, <1>4

LEMMA OneCell == ASSUME NEW c \in Cell PROVE <<c>> \in Seq(Cell)
  OBVIOUS

(* Text goes on where text ends. *)
LEMMA WholeMore ==
    ASSUME NEW s \in Seq(Cell), NEW t \in Seq(Cell), NEW b \in Outcomes
    PROVE  Then(Whole(s), Then(Whole(t), b)) = Then(Whole(s \o t), b)
  <1>1. Then(Whole(s), Whole(t)) = Whole(s \o t)
    BY DEF Then, Whole, Promise!Then, Promise!Whole
  <1> QED
    BY <1>1, WholeType, ThenAssociates

-----------------------------------------------------------------------------
(* After, the recursive function of JsonText that encloses elements.        *)

AfterOne(f, els, closer, n, i) ==
    IF i = n THEN Whole(<<closer>>)
    ELSE IF i = 0 THEN Then(els[i + 1], f[i + 1])
    ELSE Then(Whole(<<",">>), Then(els[i + 1], f[i + 1]))

(* f is what follows the first i elements, for i from l on. *)
IsAfter(f, els, closer, l, n) == f = [i \in l..n |-> AfterOne(f, els, closer, n, i)]

LEMMA AfterExists ==
    ASSUME NEW n \in Nat, NEW els, NEW closer
    PROVE  \E f : IsAfter(f, els, closer, 0, n)
  <1> DEFINE S == {m \in Nat : m <= n /\ ~\E f : IsAfter(f, els, closer, n - m, n)}
  <1>0. S \in SUBSET Nat
    OBVIOUS
  <1>1. S = {}
    <2> SUFFICES ASSUME S # {} PROVE FALSE
      OBVIOUS
    <2>1. PICK k \in S : \A m \in S : k <= m
      <3> HIDE DEF S
      <3> QED
        BY <1>0, LeastNumber
    <2>2. k \in Nat /\ k <= n /\ ~\E f : IsAfter(f, els, closer, n - k, n)
      BY <2>1
    <2>3. k # 0
      <3> DEFINE e == [i \in n..n |-> Whole(<<closer>>)]
      <3>1. e = [i \in n..n |-> AfterOne(e, els, closer, n, i)]
        <4>1. \A i \in n..n : AfterOne(e, els, closer, n, i) = Whole(<<closer>>)
          <5> HIDE DEF e
          <5> QED
            BY DEF AfterOne
        <4> QED
          BY <4>1
      <3>3. IsAfter(e, els, closer, n, n)
        <4> HIDE DEF e
        <4> QED
          BY <3>1 DEF IsAfter
      <3>2. n - 0 = n
        OBVIOUS
      <3> HIDE DEF e
      <3> QED
        BY <2>2, <3>2, <3>3
    <2>4. k - 1 \in Nat /\ k - 1 <= n /\ ~(k - 1 \in S)
      BY <2>1, <2>2, <2>3
    <2> DEFINE l == n - k
    <2>5. l \in Nat /\ l < n /\ n - (k - 1) = l + 1
      BY <2>2, <2>3
    <2>6. PICK f : IsAfter(f, els, closer, l + 1, n)
      BY <2>4, <2>5
    <2>7. ~\E h : IsAfter(h, els, closer, l, n)
      BY <2>2
    <2> HIDE DEF l
    <2> DEFINE h == [i \in l..n |-> IF i = l THEN AfterOne(f, els, closer, n, l) ELSE f[i]]
    <2>8. \A i \in (l + 1)..n : h[i] = f[i] /\ f[i] = AfterOne(f, els, closer, n, i)
      BY <2>5, <2>6 DEF IsAfter
    <2>9. \A i \in l..n : i # n => AfterOne(h, els, closer, n, i) = AfterOne(f, els, closer, n, i)
      <3> SUFFICES ASSUME NEW i \in l..n, i # n
                   PROVE  AfterOne(h, els, closer, n, i) = AfterOne(f, els, closer, n, i)
        OBVIOUS
      <3>1. i + 1 \in (l + 1)..n
        BY <2>5
      <3>2. h[i + 1] = f[i + 1]
        BY <2>8, <3>1
      <3> HIDE DEF h
      <3> QED
        BY <3>2 DEF AfterOne
    <2>10. \A i \in l..n : AfterOne(h, els, closer, n, i) = AfterOne(f, els, closer, n, i)
      BY <2>9 DEF AfterOne
    <2>11. \A i \in l..n : h[i] = AfterOne(f, els, closer, n, i)
      <3>1. \A i \in l..n : i = l \/ i \in (l + 1)..n
        BY <2>5
      <3>2. h[l] = AfterOne(f, els, closer, n, l)
        BY <2>5
      <3> HIDE DEF h
      <3> QED
        BY <2>8, <3>1, <3>2
    <2>12. IsAfter(h, els, closer, l, n)
      <3>1. h = [i \in l..n |-> h[i]]
        OBVIOUS
      <3> HIDE DEF h
      <3> QED
        BY <2>10, <2>11, <3>1 DEF IsAfter
    <2> QED
      BY <2>7, <2>12
  <1>2. n \in Nat /\ n <= n /\ n - n = 0
    OBVIOUS
  <1>3. n \notin S
    BY <1>1
  <1> QED
    BY <1>2, <1>3

LEMMA AfterRecursion ==
    ASSUME NEW els, Len(els) \in Nat, NEW closer
    PROVE  IsAfter(Promise!After(els, closer), els, closer, 0, Len(els))
  <1> DEFINE n == Len(els)
             f == CHOOSE f : IsAfter(f, els, closer, 0, n)
  <1>1. IsAfter(f, els, closer, 0, n)
    BY AfterExists
  <1>2. Promise!After(els, closer) = f
    BY DEF Promise!After, IsAfter, AfterOne, Then, Whole
  <1> QED
    BY <1>1, <1>2

LEMMA AfterAt ==
    ASSUME NEW els, Len(els) \in Nat, NEW closer, NEW i \in 0..Len(els)
    PROVE  Promise!After(els, closer)[i] = AfterOne(Promise!After(els, closer), els, closer, Len(els), i)
  <1> DEFINE f == Promise!After(els, closer)
             n == Len(els)
  <1>1. IsAfter(f, els, closer, 0, n) /\ i \in 0..n
    BY AfterRecursion
  <1> HIDE DEF f, n
  <1>2. f[i] = AfterOne(f, els, closer, n, i)
    BY <1>1 DEF IsAfter
  <1> QED
    BY <1>2 DEF f, n

LEMMA AfterTyped ==
    ASSUME NEW els, Len(els) \in Nat, NEW closer \in Cell, \A i \in 1..Len(els) : els[i] \in Outcomes,
           NEW i \in 0..Len(els)
    PROVE  Promise!After(els, closer)[i] \in Outcomes
  <1> DEFINE f == Promise!After(els, closer)
             n == Len(els)
             S == {m \in Nat : m <= n /\ f[n - m] \notin Outcomes}
  <1>0. n \in Nat /\ \A j \in 0..n : f[j] = AfterOne(f, els, closer, n, j)
    BY AfterAt
  <1>1. \A j \in 1..n : els[j] \in Outcomes
    OBVIOUS
  <1>2. S \in SUBSET Nat
    OBVIOUS
  <1>3. i \in 0..n
    OBVIOUS
  <1> HIDE DEF f, n
  <1>4. S = {}
    <2> SUFFICES ASSUME S # {} PROVE FALSE
      OBVIOUS
    <2>1. PICK k \in S : \A m \in S : k <= m
      <3> HIDE DEF S
      <3> QED
        BY <1>2, LeastNumber
    <2> DEFINE l == n - k
    <2>2. k \in Nat /\ k <= n /\ f[l] \notin Outcomes
      BY <2>1
    <2>3. l \in 0..n
      BY <1>0, <2>2
    <2>4. l # n => f[l + 1] \in Outcomes
      <3> SUFFICES ASSUME l # n PROVE f[l + 1] \in Outcomes
        OBVIOUS
      <3>1. k - 1 \in Nat /\ k - 1 <= n /\ k - 1 \notin S /\ n - (k - 1) = l + 1
        BY <1>0, <2>1, <2>2
      <3> QED
        BY <3>1
    <2>5. f[l] = AfterOne(f, els, closer, n, l)
      BY <1>0, <2>3
    <2> HIDE DEF l
    <2>6. Whole(<<closer>>) \in Outcomes /\ Whole(<<",">>) \in Outcomes
      <3>1. "," \in Cell
        BY DEF Cell, Punctuation
      <3>2. <<closer>> \in Seq(Cell) /\ <<",">> \in Seq(Cell)
        BY <3>1, OneCell
      <3> QED
        BY <3>2, WholeType
    <2>7. CASE l = n
      BY <2>2, <2>5, <2>6, <2>7 DEF AfterOne
    <2>8. CASE l # n
      <3>1. l + 1 \in 1..n
        BY <1>0, <2>3, <2>8
      <3>2. Then(els[l + 1], f[l + 1]) \in Outcomes
        BY <1>1, <2>4, <2>8, <3>1, ThenType
      <3>3. Then(Whole(<<",">>), Then(els[l + 1], f[l + 1])) \in Outcomes
        BY <2>6, <3>2, ThenType
      <3> QED
        BY <2>2, <2>5, <2>8, <3>2, <3>3 DEF AfterOne
    <2> QED
      BY <2>7, <2>8
  <1> HIDE DEF S
  <1>5. n - i \in Nat /\ n - i <= n /\ n - (n - i) = i
    BY <1>0, <1>3
  <1>6. n - i \notin S
    BY <1>4
  <1>7. f[i] \in Outcomes
    BY <1>5, <1>6 DEF S
  <1> QED
    BY <1>7 DEF f

-----------------------------------------------------------------------------
(* Where the chain of values of an enum member ends.                        *)

IsEnum(n, k) == BranchOf(n, k) = "Enum"

Resolves(n, k, x) ==
    /\ x \in Node /\ ~IsEnum(x, k)
    /\ \A C \in SUBSET Node :
          x \in C /\ (\A m \in Node : IsEnum(m, k) /\ Obj[m].to \in C => m \in C) => n \in C

EndOf(n, k) == CHOOSE x : Resolves(n, k, x)

LEMMA EnumsEnd ==
    ASSUME NEW n \in Node, NEW k, IsEnum(n, k)
    PROVE  EndOf(n, k) = EndOf(Obj[n].to, k)
  <1> DEFINE t == Obj[n].to
  <1>1. t \in Node
    BY ObjectFacts
  <1> HIDE DEF t
  <1>2. ASSUME NEW x, Resolves(t, k, x) PROVE Resolves(n, k, x)
    <2> SUFFICES ASSUME NEW C \in SUBSET Node, x \in C,
                        \A m \in Node : IsEnum(m, k) /\ Obj[m].to \in C => m \in C
                 PROVE  n \in C
      BY <1>2 DEF Resolves
    <2>1. t \in C
      BY <1>2 DEF Resolves
    <2> QED
      BY <2>1 DEF t
  <1>3. ASSUME NEW x, Resolves(n, k, x) PROVE Resolves(t, k, x)
    <2> SUFFICES ASSUME NEW C \in SUBSET Node, x \in C,
                        \A m \in Node : IsEnum(m, k) /\ Obj[m].to \in C => m \in C,
                        t \notin C
                 PROVE  FALSE
      BY <1>3 DEF Resolves
    <2> DEFINE D == C \ {n}
    <2>1. D \in SUBSET Node /\ x \in D /\ n \notin D
      BY <1>3 DEF Resolves
    <2>2. ASSUME NEW m \in Node, IsEnum(m, k), Obj[m].to \in D PROVE m \in D
      <3>1. m \in C
        BY <2>2
      <3>2. m # n
        BY <2>2 DEF t
      <3> QED
        BY <3>1, <3>2
    <2> HIDE DEF D
    <2>3. n \in D
      BY <1>3, <2>1, <2>2 DEF Resolves
    <2> QED
      BY <2>1, <2>3
  <1>4. \A x : Resolves(n, k, x) <=> Resolves(t, k, x)
    BY <1>2, <1>3
  <1> HIDE DEF Resolves
  <1>5. (CHOOSE x : Resolves(n, k, x)) = (CHOOSE x : Resolves(t, k, x))
    BY <1>4
  <1> QED
    BY <1>5 DEF EndOf, t

LEMMA OthersEnd ==
    ASSUME NEW n \in Node, NEW k, ~IsEnum(n, k)
    PROVE  EndOf(n, k) = n
  <1>1. Resolves(n, k, n)
    BY DEF Resolves
  <1>2. ASSUME NEW x, Resolves(n, k, x) PROVE x = n
    <2> SUFFICES ASSUME x # n PROVE FALSE
      OBVIOUS
    <2> DEFINE C == Node \ {n}
    <2>1. C \in SUBSET Node /\ x \in C
      BY <1>2 DEF Resolves
    <2>2. \A m \in Node : IsEnum(m, k) /\ Obj[m].to \in C => m \in C
      OBVIOUS
    <2>3. n \in C
      <3> HIDE DEF C
      <3> QED
        BY <1>2, <2>1, <2>2 DEF Resolves
    <2> QED
      BY <2>3
  <1> HIDE DEF Resolves
  <1> QED
    BY <1>1, <1>2 DEF EndOf

-----------------------------------------------------------------------------
(* Outcome, the recursive function of JsonText.                             *)

Places == Node \X (0..MaxDepth) \X BOOLEAN
Outcome == Promise!Outcome
Enc(f, n, d, asKey) == Promise!Encoding(f, n, d, asKey)

(* f has the outcomes of all objects from the level l on. *)
IsTable(f, l) ==
    f = [p \in Node \X (l..MaxDepth) \X BOOLEAN |-> Enc(f, p[1], p[2], p[3])]

(* Two tables that agree on the next level agree on what is no enum member. *)
LEMMA EncodingAgrees ==
    ASSUME NEW n \in Node, NEW k \in BOOLEAN, ~IsEnum(n, k), NEW d \in 0..MaxDepth, NEW f, NEW h,
           d # MaxDepth => \A m \in Node, b \in BOOLEAN : f[<<m, d + 1, b>>] = h[<<m, d + 1, b>>]
    PROVE  Enc(f, n, d, k) = Enc(h, n, d, k)
  <1> DEFINE branch == Promise!BranchOf(n, k)
             e == Promise!Elements(f, n, d + 1, branch)
             g == Promise!Elements(h, n, d + 1, branch)
  <1>1. branch # "Enum"
    BY DEF Promise!BranchOf, BranchOf, IsEnum
  <1>2. CASE d = MaxDepth
    BY <1>1, <1>2 DEF Enc, Promise!Encoding
  <1>3. CASE d # MaxDepth
    <2>1. Obj[n].to \in Node /\ f[<<Obj[n].to, d + 1, k>>] = h[<<Obj[n].to, d + 1, k>>]
      BY <1>3, ObjectFacts
    <2>2. branch \in Promise!MappingKinds => Len(Obj[n].keys) = Len(Obj[n].items)
      BY ObjectFacts DEF branch, Promise!BranchOf, Promise!MappingKinds, MappingKinds, KeyKinds, NoBranch
    <2>3. e = g
      <3>1. \A i \in 1..Len(Obj[n].items) :
               /\ Obj[n].items[i] \in Node
               /\ branch \in Promise!MappingKinds => Obj[n].keys[i] \in Node
        BY <2>2, ObjectFacts, ElementOfSeq
      <3>2. \A i \in 1..Len(Obj[n].items) :
               /\ f[<<Obj[n].items[i], d + 1, FALSE>>] = h[<<Obj[n].items[i], d + 1, FALSE>>]
               /\ branch \in Promise!MappingKinds =>
                     f[<<Obj[n].keys[i], d + 1, TRUE>>] = h[<<Obj[n].keys[i], d + 1, TRUE>>]
        BY <1>3, <3>1
      <3> HIDE DEF branch
      <3> QED
        BY <3>2 DEF Promise!Elements
    <2> HIDE DEF e, g
    <2>4. CASE branch \in Promise!LeafKinds \cup {"BigInt", "Refused"}
      <3>1. branch # "Dict"
        BY <2>4 DEF Promise!LeafKinds
      <3>2. CASE branch \in Promise!LeafKinds
        <4>1. branch \notin {"BigInt", "Refused"}
          BY <3>2 DEF Promise!LeafKinds
        <4> QED
          BY <1>1, <3>1, <3>2, <4>1 DEF Enc, Promise!Encoding
      <3>3. CASE branch \notin Promise!LeafKinds
        BY <1>1, <2>4, <3>1, <3>3 DEF Enc, Promise!Encoding
      <3> QED
        BY <3>2, <3>3
    <2>5. CASE branch = "Dict" /\ Obj[n].items = <<>>
      BY <1>1, <2>5 DEF Enc, Promise!Encoding
    <2>6. CASE branch \notin Promise!LeafKinds \cup {"BigInt", "Refused"} /\ ~(branch = "Dict" /\ Obj[n].items = <<>>)
      <3>1. ASSUME NEW t, NEW u,
                   t = f[<<Obj[n].to, d + 1, k>>], u = Promise!Elements(f, n, d + 1, branch)
            PROVE  Enc(f, n, d, k) =
                      IF branch \in Promise!WrapperKinds THEN t
                      ELSE Promise!Enclosed(Promise!Opener(branch), u, Promise!Closing(branch))
        BY <1>1, <1>3, <2>6, <3>1 DEF Enc, Promise!Encoding
      <3>2. ASSUME NEW t, NEW u,
                   t = h[<<Obj[n].to, d + 1, k>>], u = Promise!Elements(h, n, d + 1, branch)
            PROVE  Enc(h, n, d, k) =
                      IF branch \in Promise!WrapperKinds THEN t
                      ELSE Promise!Enclosed(Promise!Opener(branch), u, Promise!Closing(branch))
        BY <1>1, <1>3, <2>6, <3>2 DEF Enc, Promise!Encoding
      <3>3. Promise!Elements(f, n, d + 1, branch) = Promise!Elements(h, n, d + 1, branch)
        BY <2>3 DEF e, g
      <3> QED
        BY <2>1, <3>1, <3>2, <3>3
    <2> QED
      BY <2>4, <2>5, <2>6
  <1> QED
    BY <1>2, <1>3

LEMMA TableExists == \E f : IsTable(f, 0)
  <1> DEFINE S == {m \in Nat : m <= MaxDepth /\ ~\E f : IsTable(f, MaxDepth - m)}
  <1>0. MaxDepth \in Nat /\ S \in SUBSET Nat
    BY ObjectAssumption
  <1>1. S = {}
    <2> SUFFICES ASSUME S # {} PROVE FALSE
      OBVIOUS
    <2>1. PICK j \in S : \A m \in S : j <= m
      <3> HIDE DEF S
      <3> QED
        BY <1>0, LeastNumber
    <2> DEFINE l == MaxDepth - j
    <2>2. j \in Nat /\ j <= MaxDepth /\ ~\E f : IsTable(f, l)
      BY <2>1
    <2>3. l \in 0..MaxDepth
      BY <1>0, <2>2
    <2>4. \E f : l # MaxDepth => IsTable(f, l + 1)
      <3> SUFFICES ASSUME l # MaxDepth PROVE \E f : IsTable(f, l + 1)
        OBVIOUS
      <3> DEFINE i == j - 1
      <3>1. i \in Nat /\ i <= MaxDepth /\ ~(j <= i) /\ MaxDepth - i = l + 1
        BY <1>0, <2>2
      <3> HIDE DEF i, l
      <3>2. i \notin S
        <4> HIDE DEF S
        <4> QED
          BY <2>1, <3>1
      <3> QED
        BY <3>1, <3>2
    <2>5. PICK f : l # MaxDepth => IsTable(f, l + 1)
      BY <2>4
    <2>6. ~\E h : IsTable(h, l)
      BY <2>2
    <2> HIDE DEF l
    <2> DEFINE P == Node \X (l..MaxDepth) \X BOOLEAN
               h == [p \in P |-> IF p[2] = l THEN Enc(f, EndOf(p[1], p[3]), l, p[3]) ELSE f[p]]
    <2>7. \A n \in Node, k \in BOOLEAN : h[<<n, l, k>>] = Enc(f, EndOf(n, k), l, k)
      BY <2>3
    <2>8. \A n \in Node, d \in l..MaxDepth, k \in BOOLEAN : d # l =>
             /\ h[<<n, d, k>>] = f[<<n, d, k>>]
             /\ f[<<n, d, k>>] = Enc(f, n, d, k)
      <3> SUFFICES ASSUME NEW n \in Node, NEW d \in l..MaxDepth, NEW k \in BOOLEAN, d # l
                   PROVE  /\ h[<<n, d, k>>] = f[<<n, d, k>>]
                          /\ f[<<n, d, k>>] = Enc(f, n, d, k)
        OBVIOUS
      <3>1. d \in (l + 1)..MaxDepth /\ l # MaxDepth
        BY <1>0, <2>3
      <3> DEFINE p == <<n, d, k>>
      <3>2. p \in P /\ p \in Node \X ((l + 1)..MaxDepth) \X BOOLEAN /\ p[1] = n /\ p[2] = d /\ p[3] = k
        BY <3>1
      <3>3. f[p] = Enc(f, p[1], p[2], p[3])
        BY <2>5, <3>1, <3>2 DEF IsTable
      <3> QED
        BY <3>2, <3>3
    <2>9. \A p \in P : h[p] = h[<<p[1], p[2], p[3]>>] /\ p[1] \in Node /\ p[2] \in l..MaxDepth /\ p[3] \in BOOLEAN
      <3> HIDE DEF h
      <3> QED
        OBVIOUS
    <2>10. h = [p \in P |-> h[p]]
      OBVIOUS
    <2> HIDE DEF h
    <2>11. ASSUME NEW n \in Node, NEW k \in BOOLEAN, ~IsEnum(n, k), NEW d \in l..MaxDepth
           PROVE  Enc(f, n, d, k) = Enc(h, n, d, k)
      <3>1. d \in 0..MaxDepth
        BY <1>0, <2>3
      <3>2. ASSUME d # MaxDepth, NEW m \in Node, NEW b \in BOOLEAN
            PROVE  f[<<m, d + 1, b>>] = h[<<m, d + 1, b>>]
        <4>1. d + 1 \in l..MaxDepth /\ d + 1 # l
          BY <1>0, <2>3, <3>2
        <4> QED
          BY <2>8, <4>1
      <3>3. d # MaxDepth => \A m \in Node, b \in BOOLEAN : f[<<m, d + 1, b>>] = h[<<m, d + 1, b>>]
        BY <3>2
      <3>4. n \in Node /\ ~IsEnum(n, k) /\ k \in BOOLEAN
        BY <2>11
      <3> QED
        BY ONLY <3>1, <3>3, <3>4, EncodingAgrees
    <2>12. ASSUME NEW n \in Node, NEW k \in BOOLEAN, IsEnum(n, k), NEW d \in l..MaxDepth
           PROVE  \A g : Enc(g, n, d, k) = g[<<Obj[n].to, d, k>>] /\ Obj[n].to \in Node
      <3>1. Promise!BranchOf(n, k) = "Enum"
        BY <2>12 DEF Promise!BranchOf, BranchOf, IsEnum
      <3> QED
        BY <3>1, ObjectFacts DEF Enc, Promise!Encoding, Promise!LeafKinds
    <2>13. ASSUME NEW n \in Node, NEW k \in BOOLEAN PROVE h[<<n, l, k>>] = Enc(h, n, l, k)
      <3>1. l \in l..MaxDepth
        BY <2>3
      <3>2. CASE IsEnum(n, k)
        <4>1. Enc(h, n, l, k) = h[<<Obj[n].to, l, k>>] /\ Obj[n].to \in Node
          BY <2>12, <3>1, <3>2
        <4>2. EndOf(n, k) = EndOf(Obj[n].to, k)
          BY <3>2, EnumsEnd
        <4> QED
          BY <2>7, <4>1, <4>2
      <3>3. CASE ~IsEnum(n, k)
        <4>1. EndOf(n, k) = n
          BY <3>3, OthersEnd
        <4> QED
          BY <2>7, <2>11, <3>1, <3>3, <4>1
      <3> QED
        BY <3>2, <3>3
    <2>14. ASSUME NEW n \in Node, NEW d \in l..MaxDepth, NEW k \in BOOLEAN, d # l
           PROVE  h[<<n, d, k>>] = Enc(h, n, d, k)
      <3>1. h[<<n, d, k>>] = Enc(f, n, d, k)
        BY <2>8, <2>14
      <3>2. CASE IsEnum(n, k)
        <4>1. /\ Enc(h, n, d, k) = h[<<Obj[n].to, d, k>>] /\ Obj[n].to \in Node
              /\ Enc(f, n, d, k) = f[<<Obj[n].to, d, k>>]
          BY <2>12, <3>2
        <4> QED
          BY <2>8, <2>14, <3>1, <4>1
      <3>3. CASE ~IsEnum(n, k)
        BY <2>11, <3>1, <3>3
      <3> QED
        BY <3>2, <3>3
    <2>15. \A p \in P : h[p] = Enc(h, p[1], p[2], p[3])
      BY <2>9, <2>13, <2>14
    <2>16. IsTable(h, l)
      BY <2>10, <2>15 DEF IsTable
    <2> QED
      BY <2>6, <2>16
  <1>2. MaxDepth <= MaxDepth /\ MaxDepth - MaxDepth = 0 /\ MaxDepth \notin S
    BY <1>0, <1>1
  <1> QED
    BY <1>0, <1>2

LEMMA OutcomeRecursion ==
    ASSUME NEW n \in Node, NEW d \in 0..MaxDepth, NEW k \in BOOLEAN
    PROVE  Outcome[<<n, d, k>>] = Enc(Outcome, n, d, k)
  <1> DEFINE f == CHOOSE f : IsTable(f, 0)
  <1>1. IsTable(f, 0)
    BY TableExists
  <1>2. Outcome = f
    BY DEF Outcome, Promise!Outcome, IsTable, Enc
  <1>3. IsTable(Outcome, 0)
    BY <1>1, <1>2
  <1> DEFINE p == <<n, d, k>>
  <1>4. p \in Node \X (0..MaxDepth) \X BOOLEAN /\ p[1] = n /\ p[2] = d /\ p[3] = k
    OBVIOUS
  <1> HIDE DEF p
  <1>5. Outcome[p] = Enc(Outcome, p[1], p[2], p[3])
    BY <1>3, <1>4 DEF IsTable
  <1> QED
    BY <1>4, <1>5 DEF p

-----------------------------------------------------------------------------
(* The outcomes of the objects, branch by branch.                           *)

OutcomeAt(n, d, asKey) == Outcome[<<n, d, asKey>>]

Quotes(n, asKey) == IF ~asKey /\ Obj[n].kind \in {"String", "UUID"} THEN <<Quote>> ELSE <<>>

OpenerOf(n) == IF Obj[n].kind \in MappingKinds THEN "{" ELSE "["
CloserOf(n) == IF Obj[n].kind \in MappingKinds THEN "}" ELSE "]"

(* The i-th element of a container whose content is at d levels of nesting. *)
Entry(n, d, i) ==
    Then(Whole(<<Quote>>),
         Then(OutcomeAt(Obj[n].keys[i], d, TRUE),
              Then(Whole(<<Quote, ":">>), OutcomeAt(Obj[n].items[i], d, FALSE))))
Element(n, d, i) ==
    IF Obj[n].kind \in MappingKinds THEN Entry(n, d, i) ELSE OutcomeAt(Obj[n].items[i], d, FALSE)

ElementsAt(n, d) == [i \in 1..Len(Obj[n].items) |-> Element(n, d, i)]

(* What follows the first i elements. *)
Following(n, d, i) == Promise!After(ElementsAt(n, d), CloserOf(n))[i]

LEMMA SameBranch ==
    /\ \A n, k : Promise!BranchOf(n, k) = BranchOf(n, k)
    /\ Promise!LeafKinds = LeafKinds /\ Promise!MappingKinds = MappingKinds
    /\ Promise!ListKinds = ListKinds /\ Promise!WrapperKinds = WrapperKinds
    /\ \A n : Promise!Characters(n) = Characters(n)
    /\ Promise!Quote = Quote
    /\ \A n, k : Promise!Quotes(n, k) = Quotes(n, k)
  <1>1. /\ Promise!LeafKinds = LeafKinds /\ Promise!MappingKinds = MappingKinds
        /\ Promise!ListKinds = ListKinds /\ Promise!WrapperKinds = WrapperKinds
        /\ Promise!Quote = Quote
    BY DEF Promise!LeafKinds, LeafKinds, Promise!MappingKinds, MappingKinds, Promise!ListKinds,
           ListKinds, Promise!WrapperKinds, WrapperKinds, Promise!Quote, Quote
  <1>2. \A n, k : Promise!BranchOf(n, k) = BranchOf(n, k)
    BY <1>1 DEF Promise!BranchOf, BranchOf
  <1>3. \A n : Promise!Characters(n) = Characters(n)
    BY DEF Promise!Characters, Characters
  <1>4. \A n, k : Promise!Quotes(n, k) = Quotes(n, k)
    BY <1>1 DEF Promise!Quotes, Quotes
  <1> QED
    BY <1>1, <1>2, <1>3, <1>4

LEMMA OutcomeOfLeaf ==
    ASSUME NEW n \in Node, NEW d \in 0..MaxDepth, NEW k \in BOOLEAN, BranchOf(n, k) \in LeafKinds
    PROVE  OutcomeAt(n, d, k) = Whole(Quotes(n, k) \o Characters(n) \o Quotes(n, k))
  <1> DEFINE b == BranchOf(n, k)
  <1>1. b \notin {"BigInt", "Refused"} /\ b # "Enum" /\ b # "Dict" /\ b \in LeafKinds
    BY DEF LeafKinds
  <1>2. Promise!BranchOf(n, k) = b /\ Promise!LeafKinds = LeafKinds
    BY SameBranch
  <1> HIDE DEF b
  <1>3. Enc(Outcome, n, d, k) = Promise!Whole(Promise!Quotes(n, k) \o Promise!Characters(n) \o Promise!Quotes(n, k))
    BY <1>1, <1>2 DEF Enc, Promise!Encoding
  <1> QED
    BY <1>3, SameBranch, OutcomeRecursion DEF Whole, OutcomeAt

LEMMA OutcomeOfRefused ==
    ASSUME NEW n \in Node, NEW d \in 0..MaxDepth, NEW k \in BOOLEAN,
           BranchOf(n, k) \in {"BigInt", "Refused"}
    PROVE  OutcomeAt(n, d, k) = [why |-> "Encode", text |-> <<>>]
  <1> DEFINE b == BranchOf(n, k)
  <1>1. b \in {"BigInt", "Refused"} /\ b # "Enum" /\ b # "Dict" /\ b \notin LeafKinds
    BY DEF LeafKinds
  <1>2. Promise!BranchOf(n, k) = b /\ Promise!LeafKinds = LeafKinds
    BY SameBranch
  <1> HIDE DEF b
  <1>3. Enc(Outcome, n, d, k) = Promise!Stopped("Encode", <<>>)
    BY <1>1, <1>2 DEF Enc, Promise!Encoding
  <1> QED
    BY <1>3, OutcomeRecursion DEF Promise!Stopped, OutcomeAt

LEMMA OutcomeOfEnum ==
    ASSUME NEW n \in Node, NEW d \in 0..MaxDepth, NEW k \in BOOLEAN, BranchOf(n, k) = "Enum"
    PROVE  OutcomeAt(n, d, k) = OutcomeAt(Obj[n].to, d, k)
  <1> DEFINE b == BranchOf(n, k)
  <1>1. b \notin {"BigInt", "Refused"} /\ b = "Enum" /\ b # "Dict" /\ b \notin LeafKinds
    BY DEF LeafKinds
  <1>2. Promise!BranchOf(n, k) = b /\ Promise!LeafKinds = LeafKinds
    BY SameBranch
  <1> HIDE DEF b
  <1>3. Enc(Outcome, n, d, k) = Outcome[<<Obj[n].to, d, k>>]
    BY <1>1, <1>2 DEF Enc, Promise!Encoding
  <1> QED
    BY <1>3, OutcomeRecursion DEF OutcomeAt

LEMMA OutcomeOfEmpty ==
    ASSUME NEW n \in Node, NEW d \in 0..MaxDepth, NEW k \in BOOLEAN, BranchOf(n, k) = "Dict",
           Obj[n].items = <<>>
    PROVE  OutcomeAt(n, d, k) = Whole(<<"{", "}">>)
  <1> DEFINE b == BranchOf(n, k)
  <1>1. b \notin {"BigInt", "Refused"} /\ b # "Enum" /\ b = "Dict" /\ b \notin LeafKinds
    BY DEF LeafKinds
  <1>2. Promise!BranchOf(n, k) = b /\ Promise!LeafKinds = LeafKinds
    BY SameBranch
  <1> HIDE DEF b
  <1>3. Enc(Outcome, n, d, k) = Promise!Whole(<<"{", "}">>)
    BY <1>1, <1>2 DEF Enc, Promise!Encoding
  <1> QED
    BY <1>3, OutcomeRecursion DEF OutcomeAt, Whole

(* The branches that are a level. *)
Deepens(n, k) ==
    /\ BranchOf(n, k) \in {"ToJson", "Default"} \cup MappingKinds \cup ListKinds
    /\ ~(BranchOf(n, k) = "Dict" /\ Obj[n].items = <<>>)

LEMMA OutcomeOfDeep ==
    ASSUME NEW n \in Node, NEW k \in BOOLEAN, Deepens(n, k)
    PROVE  /\ OutcomeAt(n, MaxDepth, k).why = "Recursion"
           /\ OutcomeAt(n, MaxDepth, k) \in Outcomes
  <1> DEFINE b == BranchOf(n, k)
  <1>1. b \notin {"BigInt", "Refused"} /\ b # "Enum" /\ b \notin LeafKinds
        /\ ~(b = "Dict" /\ Obj[n].items = <<>>)
    BY DEF LeafKinds, Deepens, MappingKinds, ListKinds
  <1>2. Promise!BranchOf(n, k) = b /\ Promise!LeafKinds = LeafKinds
    BY SameBranch
  <1>3. MaxDepth \in 0..MaxDepth
    BY ObjectAssumption
  <1> HIDE DEF b
  <1>4. Enc(Outcome, n, MaxDepth, k) = Promise!Stopped("Recursion", Promise!Announced(b))
    BY <1>1, <1>2 DEF Enc, Promise!Encoding
  <1>5. Promise!Announced(b) \in Seq(Cell)
    <2>1. "{" \in Cell /\ "[" \in Cell
      BY DEF Cell, Punctuation
    <2>2. <<"{">> \in Seq(Cell) /\ <<"[">> \in Seq(Cell) /\ <<>> \in Seq(Cell)
      BY <2>1, OneCell, EmptySeq
    <2> QED
      BY <2>2 DEF Promise!Announced
  <1>6. OutcomeAt(n, MaxDepth, k) = [why |-> "Recursion", text |-> Promise!Announced(b)]
    BY <1>3, <1>4, OutcomeRecursion DEF Promise!Stopped, OutcomeAt
  <1> QED
    BY <1>5, <1>6 DEF Outcomes, Why

LEMMA OutcomeOfWrapper ==
    ASSUME NEW n \in Node, NEW d \in 0..MaxDepth, d # MaxDepth, NEW k \in BOOLEAN,
           BranchOf(n, k) \in {"ToJson", "Default"}
    PROVE  OutcomeAt(n, d, k) = OutcomeAt(Obj[n].to, d + 1, k)
  <1> DEFINE b == BranchOf(n, k)
  <1>1. b \notin {"BigInt", "Refused"} /\ b # "Enum" /\ b # "Dict" /\ b \notin LeafKinds
        /\ b \in WrapperKinds
    BY DEF LeafKinds, WrapperKinds
  <1>2. /\ Promise!BranchOf(n, k) = b /\ Promise!LeafKinds = LeafKinds
        /\ Promise!WrapperKinds = WrapperKinds
    BY SameBranch
  <1> HIDE DEF b
  <1>3. Enc(Outcome, n, d, k) = Outcome[<<Obj[n].to, d + 1, k>>]
    BY <1>1, <1>2 DEF Enc, Promise!Encoding
  <1> QED
    BY <1>3, OutcomeRecursion DEF OutcomeAt

LEMMA OutcomeOfContainer ==
    ASSUME NEW n \in Node, NEW d \in 0..MaxDepth, d # MaxDepth, NEW k \in BOOLEAN,
           BranchOf(n, k) \in Containers, ~(BranchOf(n, k) = "Dict" /\ Obj[n].items = <<>>)
    PROVE  OutcomeAt(n, d, k) = Then(Whole(<<OpenerOf(n)>>), Following(n, d + 1, 0))
  <1> DEFINE b == BranchOf(n, k)
  <1>1. /\ b \notin {"BigInt", "Refused"} /\ b # "Enum" /\ b \notin LeafKinds /\ b \notin WrapperKinds
        /\ ~(b = "Dict" /\ Obj[n].items = <<>>)
        /\ b = Obj[n].kind
    BY ObjectFacts DEF LeafKinds, WrapperKinds, Containers, MappingKinds, ListKinds, BranchOf,
           KeyKinds, NoBranch
  <1>2. /\ Promise!BranchOf(n, k) = b /\ Promise!LeafKinds = LeafKinds
        /\ Promise!WrapperKinds = WrapperKinds /\ Promise!MappingKinds = MappingKinds
        /\ Promise!Quote = Quote
    BY SameBranch
  <1> HIDE DEF b
  <1>3. Enc(Outcome, n, d, k) = Promise!Enclosed(Promise!Opener(b), Promise!Elements(Outcome, n, d + 1, b),
                                                 Promise!Closing(b))
    BY <1>1, <1>2 DEF Enc, Promise!Encoding
  <1>4. Promise!Opener(b) = OpenerOf(n) /\ Promise!Closing(b) = CloserOf(n)
    BY <1>1, <1>2 DEF Promise!Opener, Promise!Closing, OpenerOf, CloserOf
  <1>5. Promise!Elements(Outcome, n, d + 1, b) = ElementsAt(n, d + 1)
    <2>1. CASE b \in MappingKinds
      BY <1>1, <1>2, <2>1 DEF Promise!Elements, ElementsAt, Element, Entry, OutcomeAt, Then, Whole
    <2>2. CASE b \notin MappingKinds
      BY <1>1, <1>2, <2>2 DEF Promise!Elements, ElementsAt, Element, OutcomeAt
    <2> QED
      BY <2>1, <2>2
  <1> QED
    BY <1>3, <1>4, <1>5, OutcomeRecursion DEF OutcomeAt, Promise!Enclosed, Then, Whole, Following

LEMMA ElementsFacts ==
    ASSUME NEW n \in Node, NEW d
    PROVE  /\ Len(Obj[n].items) \in Nat
           /\ Len(ElementsAt(n, d)) = Len(Obj[n].items)
           /\ \A i \in 1..Len(Obj[n].items) :
                 /\ ElementsAt(n, d)[i] = Element(n, d, i)
                 /\ Obj[n].items[i] \in Node
                 /\ Obj[n].kind \in MappingKinds => Obj[n].keys[i] \in Node
  <1> DEFINE m == Len(Obj[n].items)
  <1>1. m \in Nat /\ Obj[n].items \in Seq(Node) /\ Obj[n].keys \in Seq(Node)
        /\ (Obj[n].kind \in MappingKinds => Len(Obj[n].keys) = m)
    BY ObjectFacts
  <1>2. \A i \in 1..m : /\ Obj[n].items[i] \in Node
                        /\ Obj[n].kind \in MappingKinds => Obj[n].keys[i] \in Node
    BY <1>1, ElementOfSeq
  <1>3. ElementsAt(n, d) = [i \in 1..m |-> Element(n, d, i)]
    BY DEF ElementsAt
  <1> HIDE DEF m
  <1> DEFINE T == {Element(n, d, i) : i \in 1..m}
  <1>4. ElementsAt(n, d) \in [1..m -> T]
    BY <1>3
  <1> HIDE DEF T
  <1>5. Len(ElementsAt(n, d)) = m
    BY <1>1, <1>4, FunctionIsSeq
  <1>6. \A i \in 1..m : ElementsAt(n, d)[i] = Element(n, d, i)
    BY <1>3
  <1> QED
    BY <1>1, <1>2, <1>5, <1>6 DEF m

LEMMA FollowingLast ==
    ASSUME NEW n \in Node, NEW d
    PROVE  Following(n, d, Len(Obj[n].items)) = Whole(<<CloserOf(n)>>)
  <1> DEFINE e == ElementsAt(n, d)
  <1>1. Len(e) \in Nat /\ Len(e) = Len(Obj[n].items)
    BY ElementsFacts
  <1> HIDE DEF e
  <1>2. Len(e) \in 0..Len(e)
    BY <1>1
  <1>3. Promise!After(e, CloserOf(n))[Len(e)] = Whole(<<CloserOf(n)>>)
    BY <1>1, <1>2, AfterAt DEF AfterOne
  <1> QED
    BY <1>1, <1>3 DEF Following, e

LEMMA FollowingNext ==
    ASSUME NEW n \in Node, NEW d, NEW i \in Nat, i < Len(Obj[n].items)
    PROVE  Following(n, d, i) =
              IF i = 0 THEN Then(Element(n, d, i + 1), Following(n, d, i + 1))
              ELSE Then(Whole(<<",">>), Then(Element(n, d, i + 1), Following(n, d, i + 1)))
  <1> DEFINE e == ElementsAt(n, d)
             c == CloserOf(n)
  <1>1. /\ Len(e) \in Nat /\ Len(e) = Len(Obj[n].items)
        /\ \A j \in 1..Len(Obj[n].items) : e[j] = Element(n, d, j)
    BY ElementsFacts
  <1>2. i + 1 \in 1..Len(Obj[n].items) /\ i \in 0..Len(e) /\ i # Len(e)
    BY <1>1
  <1>3. e[i + 1] = Element(n, d, i + 1)
    BY <1>1, <1>2
  <1> HIDE DEF e, c
  <1>4. Promise!After(e, c)[i] = AfterOne(Promise!After(e, c), e, c, Len(e), i)
    BY <1>1, <1>2, AfterAt
  <1> QED
    BY <1>2, <1>3, <1>4 DEF AfterOne, Following, e, c

LEMMA PunctuationCells ==
    /\ Quote \in Cell /\ "," \in Cell /\ ":" \in Cell /\ "{" \in Cell /\ "}" \in Cell
    /\ "[" \in Cell /\ "]" \in Cell
    /\ <<Quote>> \in Seq(Cell) /\ <<",">> \in Seq(Cell) /\ <<Quote, ":">> \in Seq(Cell)
    /\ <<"{">> \in Seq(Cell) /\ <<"[">> \in Seq(Cell) /\ <<"{", "}">> \in Seq(Cell)
    /\ <<"}">> \in Seq(Cell) /\ <<"]">> \in Seq(Cell) /\ <<>> \in Seq(Cell)
  <1>1. /\ Quote \in Cell /\ "," \in Cell /\ ":" \in Cell /\ "{" \in Cell /\ "}" \in Cell
        /\ "[" \in Cell /\ "]" \in Cell
    BY Marks
  <1>2. \A a, b \in Cell : <<a, b>> \in Seq(Cell)
    OBVIOUS
  <1> QED
    BY <1>1, <1>2, OneCell, EmptySeq

LEMMA FollowingTyped ==
    ASSUME NEW n \in Node, NEW d,
           \A m \in Node, k \in BOOLEAN : OutcomeAt(m, d, k) \in Outcomes,
           NEW i \in 0..Len(Obj[n].items)
    PROVE  Following(n, d, i) \in Outcomes
  <1> DEFINE e == ElementsAt(n, d)
             c == CloserOf(n)
  <1>1. /\ Len(e) \in Nat /\ Len(e) = Len(Obj[n].items)
        /\ \A j \in 1..Len(Obj[n].items) :
              /\ e[j] = Element(n, d, j)
              /\ Obj[n].items[j] \in Node
              /\ Obj[n].kind \in MappingKinds => Obj[n].keys[j] \in Node
    BY ElementsFacts
  <1>2. c \in Cell
    BY PunctuationCells DEF CloserOf
  <1>3. \A j \in 1..Len(e) : e[j] \in Outcomes
    <2> SUFFICES ASSUME NEW j \in 1..Len(e) PROVE Element(n, d, j) \in Outcomes
      BY <1>1
    <2>1. OutcomeAt(Obj[n].items[j], d, FALSE) \in Outcomes
      BY <1>1
    <2>2. CASE Obj[n].kind \in MappingKinds
      <3>1. OutcomeAt(Obj[n].keys[j], d, TRUE) \in Outcomes
        BY <1>1, <2>2
      <3>2. Whole(<<Quote>>) \in Outcomes /\ Whole(<<Quote, ":">>) \in Outcomes
        BY PunctuationCells, WholeType
      <3>3. Entry(n, d, j) \in Outcomes
        BY <2>1, <3>1, <3>2, ThenType DEF Entry
      <3> QED
        BY <2>2, <3>3 DEF Element
    <2>3. CASE Obj[n].kind \notin MappingKinds
      BY <2>1, <2>3 DEF Element
    <2> QED
      BY <2>2, <2>3
  <1>4. i \in 0..Len(e)
    BY <1>1
  <1> HIDE DEF e, c
  <1>5. Promise!After(e, c)[i] \in Outcomes
    BY <1>1, <1>2, <1>3, <1>4, AfterTyped
  <1> QED
    BY <1>5 DEF Following, e, c

LEMMA Branches ==
    ASSUME NEW n \in Node, NEW k \in BOOLEAN
    PROVE  \/ BranchOf(n, k) \in LeafKinds
           \/ BranchOf(n, k) \in {"BigInt", "Refused"}
           \/ BranchOf(n, k) = "Enum"
           \/ BranchOf(n, k) \in {"ToJson", "Default"}
           \/ BranchOf(n, k) \in Containers
  <1>1. Obj[n].kind \in Kinds /\ Obj[n].keyKind \in KeyKinds
    BY ObjectFacts
  <1>2. BranchOf(n, k) \in Kinds
    BY <1>1 DEF BranchOf, KeyKinds, Kinds, LeafKinds
  <1> QED
    BY <1>2 DEF Kinds, NoBranch, Containers, LeafKinds, MappingKinds, ListKinds

LEMMA LeafTextTyped ==
    ASSUME NEW n \in Node, NEW k \in BOOLEAN
    PROVE  /\ Quotes(n, k) \in Seq(Cell) /\ Characters(n) \in Seq(Cell)
           /\ Quotes(n, k) \o Characters(n) \o Quotes(n, k) \in Seq(Cell)
  <1>1. Quotes(n, k) \in Seq(Cell) /\ Characters(n) \in Seq(Cell)
    BY CharactersFacts, PunctuationCells DEF Quotes
  <1> QED
    BY <1>1, ConcatProperties

(* Every object has an outcome: the chains of enum members end.             *)
LEMMA OutcomeTyped ==
    ASSUME NEW n \in Node, NEW d \in 0..MaxDepth, NEW k \in BOOLEAN
    PROVE  OutcomeAt(n, d, k) \in Outcomes
  <1> DEFINE Typed(l) == \A m \in Node, b \in BOOLEAN : OutcomeAt(m, l, b) \in Outcomes
             S == {m \in Nat : m <= MaxDepth /\ ~Typed(MaxDepth - m)}
  <1>0. MaxDepth \in Nat /\ S \in SUBSET Nat
    BY ObjectAssumption
  <1>1. S = {}
    <2> SUFFICES ASSUME S # {} PROVE FALSE
      OBVIOUS
    <2>1. PICK j \in S : \A m \in S : j <= m
      <3> HIDE DEF S
      <3> QED
        BY <1>0, LeastNumber
    <2> DEFINE l == MaxDepth - j
    <2>2. j \in Nat /\ j <= MaxDepth /\ ~Typed(l)
      BY <2>1
    <2>3. l \in 0..MaxDepth
      BY <1>0, <2>2
    <2>4. l # MaxDepth => Typed(l + 1) /\ l + 1 \in 0..MaxDepth
      <3> SUFFICES ASSUME l # MaxDepth PROVE Typed(l + 1) /\ l + 1 \in 0..MaxDepth
        OBVIOUS
      <3> DEFINE i == j - 1
      <3>1. i \in Nat /\ i <= MaxDepth /\ ~(j <= i) /\ MaxDepth - i = l + 1 /\ l + 1 \in 0..MaxDepth
        BY <1>0, <2>2
      <3> HIDE DEF i, l, Typed
      <3>2. i \notin S
        <4> HIDE DEF S
        <4> QED
          BY <2>1, <3>1
      <3> QED
        BY <3>1, <3>2
    <2> HIDE DEF l, S
    <2>5. ASSUME NEW m \in Node, NEW b \in BOOLEAN, BranchOf(m, b) # "Enum"
          PROVE  OutcomeAt(m, l, b) \in Outcomes
      <3>1. CASE BranchOf(m, b) \in LeafKinds
        <4>1. Whole(Quotes(m, b) \o Characters(m) \o Quotes(m, b)) \in Outcomes
          BY LeafTextTyped, WholeType
        <4> QED
          BY <2>3, <3>1, <4>1, OutcomeOfLeaf
      <3>2. CASE BranchOf(m, b) \in {"BigInt", "Refused"}
        <4>1. [why |-> "Encode", text |-> <<>>] \in Outcomes
          BY EmptySeq DEF Outcomes, Why
        <4> QED
          BY <2>3, <3>2, <4>1, OutcomeOfRefused
      <3>3. CASE BranchOf(m, b) = "Dict" /\ Obj[m].items = <<>>
        <4>1. Whole(<<"{", "}">>) \in Outcomes
          BY PunctuationCells, WholeType
        <4> QED
          BY <2>3, <3>3, <4>1, OutcomeOfEmpty
      <3>4. CASE Deepens(m, b) /\ l = MaxDepth
        BY <3>4, OutcomeOfDeep
      <3>5. CASE BranchOf(m, b) \in {"ToJson", "Default"} /\ l # MaxDepth
        <4>1. Obj[m].to \in Node
          BY ObjectFacts
        <4>2. OutcomeAt(m, l, b) = OutcomeAt(Obj[m].to, l + 1, b)
          BY <2>3, <3>5, OutcomeOfWrapper
        <4> QED
          BY <2>4, <3>5, <4>1, <4>2
      <3>6. CASE /\ BranchOf(m, b) \in Containers /\ l # MaxDepth
                 /\ ~(BranchOf(m, b) = "Dict" /\ Obj[m].items = <<>>)
        <4>1. OutcomeAt(m, l, b) = Then(Whole(<<OpenerOf(m)>>), Following(m, l + 1, 0))
          BY <2>3, <3>6, OutcomeOfContainer
        <4>2. 0 \in 0..Len(Obj[m].items)
          BY ObjectFacts
        <4>3. Following(m, l + 1, 0) \in Outcomes
          BY <2>4, <3>6, <4>2, FollowingTyped
        <4>4. Whole(<<OpenerOf(m)>>) \in Outcomes
          BY PunctuationCells, WholeType DEF OpenerOf
        <4> QED
          BY <4>1, <4>3, <4>4, ThenType
      <3>7. \/ BranchOf(m, b) \in LeafKinds \cup {"BigInt", "Refused"}
            \/ BranchOf(m, b) = "Dict" /\ Obj[m].items = <<>>
            \/ Deepens(m, b)
        BY <2>5, Branches DEF Deepens, Containers
      <3> QED
        BY <2>5, <3>1, <3>2, <3>3, <3>4, <3>5, <3>6, <3>7, Branches DEF Containers, Deepens
    <2>6. Typed(l)
      <3> DEFINE E == {m \in Node : \E b \in BOOLEAN :
                            BranchOf(m, b) = "Enum" /\ OutcomeAt(m, l, b) \notin Outcomes}
      <3>1. E = {}
        <4> SUFFICES ASSUME E # {} PROVE FALSE
          OBVIOUS
        <4>1. E \in SUBSET EnumMember
          BY DEF EnumMember, BranchOf
        <4>2. PICK m \in E : Obj[m].to \notin E
          <5> HIDE DEF E
          <5> QED
            BY <4>1, EnumAssumption
        <4>3. PICK b \in BOOLEAN : BranchOf(m, b) = "Enum" /\ OutcomeAt(m, l, b) \notin Outcomes
          BY <4>2
        <4>4. m \in Node /\ Obj[m].to \in Node
          BY <4>2, ObjectFacts
        <4>5. OutcomeAt(m, l, b) = OutcomeAt(Obj[m].to, l, b)
          BY <2>3, <4>3, <4>4, OutcomeOfEnum
        <4>6. CASE BranchOf(Obj[m].to, b) = "Enum"
          BY <4>2, <4>3, <4>4, <4>5, <4>6
        <4>7. CASE BranchOf(Obj[m].to, b) # "Enum"
          BY <2>5, <4>3, <4>4, <4>5, <4>7
        <4> QED
          BY <4>6, <4>7
      <3> QED
        BY <2>5, <3>1
    <2> QED
      BY <2>2, <2>6
  <1>2. d \in 0..MaxDepth
    OBVIOUS
  <1> DEFINE i == MaxDepth - d
  <1>3. i \in Nat /\ i <= MaxDepth /\ MaxDepth - i = d
    BY <1>0, <1>2
  <1> HIDE DEF Typed, i
  <1>4. Typed(d)
    BY <1>1, <1>3
  <1> QED
    BY <1>4 DEF Typed

-----------------------------------------------------------------------------
(* What the functions on the stack still owe: the text that follows when    *)
(* the nested call returns.                                                 *)

(* What the frame f owes, whose nested calls are at d levels of nesting.    *)
FrameRest(f, d) ==
    IF f.how \in WrapperKinds THEN Nothing
    ELSE IF f.keyCall
    THEN Then(Whole(<<Quote, ":">>),
              Then(OutcomeAt(Obj[f.node].items[f.i], d, FALSE), Following(f.node, d, f.i)))
    ELSE Following(f.node, d, f.i)

Deeper(f, d) == IF f.how = "Enum" THEN d ELSE d + 1

(* level[k] and rest[k]: the levels the first k frames make and what they   *)
(* owe.                                                                     *)
Adds(s, level, rest) ==
    /\ level \in [0..Len(s) -> Nat] /\ rest \in [0..Len(s) -> Outcomes]
    /\ level[0] = 0 /\ rest[0] = Nothing
    /\ \A k \in 1..Len(s) :
          /\ level[k] = Deeper(s[k], level[k - 1])
          /\ rest[k] = Then(FrameRest(s[k], level[k]), rest[k - 1])

(* The frames of s make d levels and owe r.                                 *)
Owes(s, d, r) ==
    \E level, rest : Adds(s, level, rest) /\ level[Len(s)] = d /\ rest[Len(s)] = r

LEMMA OwesType ==
    ASSUME NEW s \in Seq(Frame), NEW d, NEW r, Owes(s, d, r)
    PROVE  d \in Nat /\ r \in Outcomes
  <1>1. PICK level, rest : Adds(s, level, rest) /\ level[Len(s)] = d /\ rest[Len(s)] = r
    BY DEF Owes
  <1>2. Len(s) \in Nat /\ Len(s) \in 0..Len(s)
    BY LenProperties
  <1> QED
    BY <1>1, <1>2 DEF Adds

LEMMA NothingType == Nothing \in Outcomes
  BY EmptySeq, WholeType DEF Nothing

LEMMA OwesNothing == Owes(<<>>, 0, Nothing)
  <1> DEFINE l == [k \in 0..0 |-> 0]
             c == [k \in 0..0 |-> Nothing]
  <1>1. Len(<<>>) = 0
    OBVIOUS
  <1>2. l \in [0..0 -> Nat] /\ c \in [0..0 -> Outcomes] /\ l[0] = 0 /\ c[0] = Nothing
    BY NothingType
  <1> HIDE DEF l, c
  <1>3. \A k \in 1..0 : FALSE
    OBVIOUS
  <1>4. Adds(<<>>, l, c)
    BY <1>1, <1>2, <1>3 DEF Adds
  <1> QED
    BY <1>1, <1>2, <1>4 DEF Owes

LEMMA NothingOwed ==
    ASSUME NEW d, NEW r, Owes(<<>>, d, r)
    PROVE  d = 0 /\ r = Nothing
  <1>1. Len(<<>>) = 0
    OBVIOUS
  <1> QED
    BY <1>1 DEF Owes, Adds

LEMMA OwesPush ==
    ASSUME NEW s \in Seq(Frame), NEW d, NEW r, Owes(s, d, r), NEW f \in Frame,
           FrameRest(f, Deeper(f, d)) \in Outcomes
    PROVE  Owes(Append(s, f), Deeper(f, d), Then(FrameRest(f, Deeper(f, d)), r))
  <1>1. PICK level, rest : Adds(s, level, rest) /\ level[Len(s)] = d /\ rest[Len(s)] = r
    BY DEF Owes
  <1> DEFINE n == Len(s)
             t == Append(s, f)
             e == Deeper(f, d)
             q == Then(FrameRest(f, e), r)
  <1>2. d \in Nat /\ r \in Outcomes
    BY OwesType
  <1>3. e \in Nat /\ q \in Outcomes
    BY <1>2, ThenType DEF Deeper
  <1>4. n \in Nat /\ Len(t) = n + 1 /\ t[n + 1] = f /\ \A k \in 1..n : t[k] = s[k]
    BY AppendProperties, LenProperties
  <1>5. /\ level \in [0..n -> Nat] /\ rest \in [0..n -> Outcomes]
        /\ level[0] = 0 /\ rest[0] = Nothing /\ level[n] = d /\ rest[n] = r
        /\ \A k \in 1..n : /\ level[k] = Deeper(s[k], level[k - 1])
                           /\ rest[k] = Then(FrameRest(s[k], level[k]), rest[k - 1])
    BY <1>1 DEF Adds
  <1>6. e = Deeper(f, d) /\ q = Then(FrameRest(f, e), r)
    OBVIOUS
  <1> HIDE DEF n, t, e, q
  <1> DEFINE l == [k \in 0..(n + 1) |-> IF k = n + 1 THEN e ELSE level[k]]
             c == [k \in 0..(n + 1) |-> IF k = n + 1 THEN q ELSE rest[k]]
  <1>7. /\ \A k \in 0..n : l[k] = level[k] /\ c[k] = rest[k]
        /\ l[n + 1] = e /\ c[n + 1] = q
        /\ l \in [0..(n + 1) -> Nat] /\ c \in [0..(n + 1) -> Outcomes]
    <2>1. \A k \in 0..(n + 1) : k = n + 1 \/ k \in 0..n
      BY <1>4
    <2>2. \A k \in 0..n : k \in 0..(n + 1) /\ k # n + 1
      BY <1>4
    <2>3. n + 1 \in 0..(n + 1)
      BY <1>4
    <2> QED
      BY <1>3, <1>5, <2>1, <2>2, <2>3
  <1> HIDE DEF l, c
  <1>8. \A k \in 1..(n + 1) : /\ l[k] = Deeper(t[k], l[k - 1])
                              /\ c[k] = Then(FrameRest(t[k], l[k]), c[k - 1])
    <2> SUFFICES ASSUME NEW k \in 1..(n + 1)
                 PROVE  /\ l[k] = Deeper(t[k], l[k - 1])
                        /\ c[k] = Then(FrameRest(t[k], l[k]), c[k - 1])
      OBVIOUS
    <2>1. k - 1 \in 0..n
      BY <1>4
    <2>2. CASE k = n + 1
      <3>1. k - 1 = n
        BY <1>4, <2>2
      <3> QED
        BY <1>4, <1>5, <1>6, <1>7, <2>1, <2>2, <3>1
    <2>3. CASE k # n + 1
      <3>1. k \in 1..n /\ k \in 0..n
        BY <1>4, <2>3
      <3> QED
        BY <1>4, <1>5, <1>7, <2>1, <3>1
    <2> QED
      BY <2>2, <2>3
  <1>9. l[0] = 0 /\ c[0] = Nothing
    <2>1. 0 \in 0..n
      BY <1>4
    <2> QED
      BY <1>5, <1>7, <2>1
  <1>10. Adds(t, l, c)
    BY <1>4, <1>7, <1>8, <1>9 DEF Adds
  <1>11. Owes(t, e, q)
    BY <1>4, <1>7, <1>10 DEF Owes
  <1> QED
    BY <1>11 DEF t, e, q

LEMMA OwesPop ==
    ASSUME NEW s \in Seq(Frame), NEW f \in Frame, NEW d, NEW r, Owes(Append(s, f), d, r)
    PROVE  \E e, q : Owes(s, e, q) /\ d = Deeper(f, e) /\ r = Then(FrameRest(f, d), q)
  <1> DEFINE n == Len(s)
             t == Append(s, f)
  <1>1. PICK level, rest : Adds(t, level, rest) /\ level[Len(t)] = d /\ rest[Len(t)] = r
    BY DEF Owes
  <1>2. n \in Nat /\ Len(t) = n + 1 /\ t[n + 1] = f /\ \A k \in 1..n : t[k] = s[k]
    BY AppendProperties, LenProperties
  <1>3. /\ level \in [0..(n + 1) -> Nat] /\ rest \in [0..(n + 1) -> Outcomes]
        /\ level[0] = 0 /\ rest[0] = Nothing /\ level[n + 1] = d /\ rest[n + 1] = r
        /\ \A k \in 1..(n + 1) : /\ level[k] = Deeper(t[k], level[k - 1])
                                 /\ rest[k] = Then(FrameRest(t[k], level[k]), rest[k - 1])
    BY <1>1, <1>2 DEF Adds
  <1> HIDE DEF t
  <1>4. n + 1 \in 1..(n + 1) /\ (n + 1) - 1 = n
    BY <1>2
  <1>5. d = Deeper(f, level[n]) /\ r = Then(FrameRest(f, d), rest[n])
    BY <1>2, <1>3, <1>4
  <1> DEFINE l == [k \in 0..n |-> level[k]]
             c == [k \in 0..n |-> rest[k]]
  <1>6. /\ \A k \in 0..n : l[k] = level[k] /\ c[k] = rest[k]
        /\ l \in [0..n -> Nat] /\ c \in [0..n -> Outcomes]
    <2>1. \A k \in 0..n : k \in 0..(n + 1)
      BY <1>2
    <2> QED
      BY <1>3, <2>1
  <1>7. 0 \in 0..n /\ n \in 0..n
    BY <1>2
  <1> HIDE DEF l, c
  <1>8. \A k \in 1..n : /\ l[k] = Deeper(s[k], l[k - 1])
                        /\ c[k] = Then(FrameRest(s[k], l[k]), c[k - 1])
    <2> SUFFICES ASSUME NEW k \in 1..n
                 PROVE  /\ l[k] = Deeper(s[k], l[k - 1])
                        /\ c[k] = Then(FrameRest(s[k], l[k]), c[k - 1])
      OBVIOUS
    <2>1. k - 1 \in 0..n /\ k \in 0..n /\ k \in 1..(n + 1)
      BY <1>2
    <2> QED
      BY <1>2, <1>3, <1>6, <2>1
  <1>9. Adds(s, l, c)
    BY <1>3, <1>6, <1>7, <1>8 DEF Adds
  <1>10. Owes(s, l[n], c[n])
    BY <1>9 DEF Owes
  <1> QED
    BY <1>5, <1>6, <1>7, <1>10

-----------------------------------------------------------------------------
(* What is still to be written, seen from a state.                          *)

(* The outcome the call has to produce.                                     *)
Asked == OutcomeAt(root, 0, FALSE)

(* After the text w comes x, and then what the frames of s owe, which make  *)
(* d levels.                                                                *)
Ahead(s, d, w, x) ==
    \E r : Owes(s, d, r) /\ Asked = Then(Whole(w), Then(x, r))

LEMMA AheadText ==
    ASSUME NEW s \in Seq(Frame), NEW d, NEW w \in Seq(Cell), NEW t \in Seq(Cell),
           NEW x \in Outcomes, Ahead(s, d, w, Then(Whole(t), x))
    PROVE  Ahead(s, d, w \o t, x)
  <1>1. PICK r : Owes(s, d, r) /\ Asked = Then(Whole(w), Then(Then(Whole(t), x), r))
    BY DEF Ahead
  <1>2. r \in Outcomes /\ Then(x, r) \in Outcomes /\ Whole(t) \in Outcomes
    BY <1>1, OwesType, ThenType, WholeType
  <1>3. Then(Then(Whole(t), x), r) = Then(Whole(t), Then(x, r))
    BY <1>2, ThenAssociates
  <1>4. Then(Whole(w), Then(Whole(t), Then(x, r))) = Then(Whole(w \o t), Then(x, r))
    BY <1>2, WholeMore
  <1> QED
    BY <1>1, <1>3, <1>4 DEF Ahead

LEMMA AheadAll ==
    ASSUME NEW s \in Seq(Frame), NEW d, NEW w \in Seq(Cell), NEW t \in Seq(Cell),
           Ahead(s, d, w, Whole(t))
    PROVE  Ahead(s, d, w \o t, Nothing)
  <1>1. Whole(t) \in Outcomes /\ Nothing \in Outcomes
    BY WholeType, NothingType
  <1>2. Then(Whole(t), Nothing) = Whole(t)
    BY <1>1, NothingBehind
  <1> QED
    BY <1>1, <1>2, AheadText

LEMMA AheadPush ==
    ASSUME NEW s \in Seq(Frame), NEW d, NEW w \in Seq(Cell), NEW x \in Outcomes,
           NEW f \in Frame, NEW e, e = Deeper(f, d), FrameRest(f, e) \in Outcomes,
           Ahead(s, d, w, Then(x, FrameRest(f, e)))
    PROVE  Ahead(Append(s, f), e, w, x)
  <1>1. PICK r : Owes(s, d, r) /\ Asked = Then(Whole(w), Then(Then(x, FrameRest(f, e)), r))
    BY DEF Ahead
  <1>2. r \in Outcomes
    BY <1>1, OwesType
  <1>3. Owes(Append(s, f), e, Then(FrameRest(f, e), r))
    BY <1>1, OwesPush
  <1>4. Then(Then(x, FrameRest(f, e)), r) = Then(x, Then(FrameRest(f, e), r))
    BY <1>2, ThenAssociates
  <1> QED
    BY <1>1, <1>3, <1>4 DEF Ahead

LEMMA AheadPop ==
    ASSUME NEW s \in Seq(Frame), NEW f \in Frame, NEW d, NEW w \in Seq(Cell), NEW x \in Outcomes,
           FrameRest(f, d) \in Outcomes, Ahead(Append(s, f), d, w, x)
    PROVE  \E e : e \in Nat /\ d = Deeper(f, e) /\ Ahead(s, e, w, Then(x, FrameRest(f, d)))
  <1>1. PICK r : Owes(Append(s, f), d, r) /\ Asked = Then(Whole(w), Then(x, r))
    BY DEF Ahead
  <1>2. PICK e, q : Owes(s, e, q) /\ d = Deeper(f, e) /\ r = Then(FrameRest(f, d), q)
    BY <1>1, OwesPop
  <1>3. e \in Nat /\ q \in Outcomes
    BY <1>2, OwesType
  <1>4. Then(x, Then(FrameRest(f, d), q)) = Then(Then(x, FrameRest(f, d)), q)
    BY <1>3, ThenAssociates
  <1> QED
    BY <1>1, <1>2, <1>3, <1>4 DEF Ahead

LEMMA AheadStops ==
    ASSUME NEW s \in Seq(Frame), NEW d, NEW w \in Seq(Cell), NEW x \in Outcomes,
           Ahead(s, d, w, x), x.why # "none"
    PROVE  Asked.why = x.why
  <1>1. PICK r : Owes(s, d, r) /\ Asked = Then(Whole(w), Then(x, r))
    BY DEF Ahead
  <1>2. Then(x, r) = x
    BY DEF Then, Promise!Then
  <1> QED
    BY <1>1, <1>2, ThenAfterWhole

(* s is the beginning of t. *)
Begins(s, t) == \E u \in Seq(Cell) : t = s \o u

LEMMA AheadBegins ==
    ASSUME NEW s \in Seq(Frame), NEW d, NEW w \in Seq(Cell), NEW x \in Outcomes,
           Ahead(s, d, w, x)
    PROVE  Begins(w, Asked.text)
  <1>1. PICK r : Owes(s, d, r) /\ Asked = Then(Whole(w), Then(x, r))
    BY DEF Ahead
  <1>2. Then(x, r) \in Outcomes
    BY <1>1, OwesType, ThenType
  <1>3. Asked = [why |-> Then(x, r).why, text |-> w \o Then(x, r).text]
    BY <1>1, <1>2, ThenAfterWhole
  <1>4. Asked.text = w \o Then(x, r).text /\ Then(x, r).text \in Seq(Cell)
    BY <1>2, <1>3 DEF Outcomes
  <1> QED
    BY <1>4 DEF Begins

LEMMA AheadEnds ==
    ASSUME NEW d, NEW w \in Seq(Cell), Ahead(<<>>, d, w, Nothing)
    PROVE  Asked = Whole(w)
  <1>1. PICK r : Owes(<<>>, d, r) /\ Asked = Then(Whole(w), Then(Nothing, r))
    BY DEF Ahead
  <1>2. r = Nothing /\ Nothing \in Outcomes /\ Whole(w) \in Outcomes
    BY <1>1, NothingOwed, NothingType, WholeType
  <1>3. Then(Nothing, Nothing) = Nothing /\ Then(Whole(w), Nothing) = Whole(w)
    BY <1>2, NothingBehind
  <1> QED
    BY <1>1, <1>2, <1>3

LEMMA BeginsFacts ==
    ASSUME NEW s \in Seq(Cell), NEW t \in Seq(Cell), NEW u \in Seq(Cell)
    PROVE  /\ Begins(s, s) /\ Begins(s, s \o t) /\ Begins(<<>>, s)
           /\ Begins(s, t) /\ Begins(t, u) => Begins(s, u)
           /\ Begins(s, t) => Promise!IsPrefix(s, t)
  <1>1. <<>> \in Seq(Cell) /\ s \o <<>> = s /\ <<>> \o s = s
    BY EmptySeq, ConcatEmptySeq
  <1>2. Begins(s, s) /\ Begins(s, s \o t) /\ Begins(<<>>, s)
    BY <1>1 DEF Begins
  <1>3. ASSUME Begins(s, t), Begins(t, u) PROVE Begins(s, u)
    <2>1. PICK a \in Seq(Cell), b \in Seq(Cell) : t = s \o a /\ u = t \o b
      BY <1>3 DEF Begins
    <2>2. u = s \o (a \o b) /\ a \o b \in Seq(Cell)
      BY <2>1, ConcatAssociative, ConcatProperties
    <2> QED
      BY <2>2 DEF Begins
  <1>4. ASSUME Begins(s, t) PROVE Promise!IsPrefix(s, t)
    <2>1. PICK a \in Seq(Cell) : t = s \o a
      BY <1>4 DEF Begins
    <2>2. /\ Len(s) \in Nat /\ Len(a) \in Nat /\ Len(t) = Len(s) + Len(a)
          /\ \A i \in 1..Len(s) : t[i] = s[i]
      <3>1. /\ Len(s) \in Nat /\ Len(a) \in Nat /\ Len(t) = Len(s) + Len(a)
            /\ \A i \in 1..(Len(s) + Len(a)) :
                  t[i] = IF i <= Len(s) THEN s[i] ELSE a[i - Len(s)]
        BY <2>1, ConcatProperties, LenProperties
      <3> QED
        BY <3>1
    <2>3. /\ SubSeq(t, 1, Len(s)) \in Seq(Cell) /\ Len(SubSeq(t, 1, Len(s))) = Len(s)
          /\ \A i \in 1..Len(s) : SubSeq(t, 1, Len(s))[i] = t[i]
      BY <2>2, Prefix
    <2>4. SubSeq(t, 1, Len(s)) = s
      BY <2>2, <2>3, SeqEqual
    <2>5. SubSeq(s, 1, Len(s)) = s
      BY SubSeqFull
    <2> QED
      BY <2>2, <2>4, <2>5 DEF Promise!IsPrefix
  <1> QED
    BY <1>2, <1>3, <1>4

(* What a frame owes is an outcome, if it has an item to wait for.          *)
LEMMA FrameRestTyped ==
    ASSUME NEW f \in Frame, NEW d \in 0..MaxDepth,
           f.how \in Containers => f.i <= Len(Obj[f.node].items),
           f.how \in Containers /\ f.keyCall => f.i >= 1
    PROVE  FrameRest(f, d) \in Outcomes
  <1>1. f.node \in Node /\ f.i \in Nat /\ f.how \in Containers \cup WrapperKinds
    BY DEF Frame, FrameKinds, Containers
  <1>2. CASE f.how \in WrapperKinds
    BY <1>2, NothingType DEF FrameRest
  <1>3. CASE f.how \notin WrapperKinds
    <2>1. Len(Obj[f.node].items) \in Nat /\ f.i \in 0..Len(Obj[f.node].items)
      BY <1>1, <1>3, ObjectFacts
    <2>2. Following(f.node, d, f.i) \in Outcomes
      BY <1>1, <2>1, OutcomeTyped, FollowingTyped
    <2>3. CASE f.keyCall
      <3>1. f.i \in 1..Len(Obj[f.node].items)
        BY <1>1, <1>3, <2>1, <2>3
      <3>2. Obj[f.node].items[f.i] \in Node
        BY <1>1, <3>1, ElementsFacts
      <3>3. OutcomeAt(Obj[f.node].items[f.i], d, FALSE) \in Outcomes
        BY <3>2, OutcomeTyped
      <3>4. Whole(<<Quote, ":">>) \in Outcomes
        BY PunctuationCells, WholeType
      <3> QED
        BY <1>3, <2>2, <2>3, <3>3, <3>4, ThenType DEF FrameRest
    <2>4. CASE ~f.keyCall
      BY <1>3, <2>2, <2>4 DEF FrameRest
    <2> QED
      BY <2>3, <2>4
  <1> QED
    BY <1>2, <1>3

-----------------------------------------------------------------------------
(* The text in the buffer, behind what has been written out of it.          *)

TextIn(o) == o.written \o o.text

LEMMA TextInType ==
    ASSUME NEW o \in Buffer
    PROVE  /\ TextIn(o) \in Seq(Cell) /\ o.written \in Seq(Cell) /\ o.text \in Seq(Cell)
           /\ Begins(o.written, TextIn(o))
  <1>1. o.written \in Seq(Cell) /\ o.text \in Seq(Cell)
    BY DEF Buffer
  <1> QED
    BY <1>1, ConcatProperties, BeginsFacts DEF TextIn

LEMMA PutText ==
    ASSUME NEW o \in Buffer, NEW s \in Seq(Cell)
    PROVE  /\ Put(o, s) \in Buffer
           /\ TextIn(Put(o, s)) = TextIn(o) \o s
           /\ Put(o, s).written = o.written
  <1>1. o.written \in Seq(Cell) /\ o.text \in Seq(Cell)
    BY DEF Buffer
  <1> DEFINE a == o.written
             b == o.text
  <1>2. a \o (b \o s) = (a \o b) \o s
    <2>1. a \in Seq(Cell) /\ b \in Seq(Cell)
      BY <1>1
    <2> HIDE DEF a, b
    <2> QED
      BY <2>1, ConcatAssociative
  <1> QED
    BY <1>2, PutFacts DEF Put, TextIn

LEMMA FlushedText ==
    ASSUME NEW o \in Buffer
    PROVE  /\ Flushed(o) \in Buffer
           /\ TextIn(Flushed(o)) = TextIn(o)
           /\ Flushed(o).written = TextIn(o)
  <1>1. o.written \o o.text \in Seq(Cell)
    BY TextInType DEF TextIn
  <1>2. (o.written \o o.text) \o <<>> = o.written \o o.text
    BY <1>1, ConcatEmptySeq
  <1> QED
    BY <1>2, FlushedFacts DEF Flushed, TextIn

(* p, which takes the place of out, has the text w: what has been written   *)
(* out has grown, in memory not at all.                                     *)
Holds(p, w) ==
    /\ p \in Buffer /\ TextIn(p) = w
    /\ Begins(out.written, p.written)
    /\ target = "memory" => p.written = out.written

LEMMA HoldsText ==
    ASSUME NEW p, NEW w, Holds(p, w)
    PROVE  w \in Seq(Cell) /\ p.written \in Seq(Cell) /\ Begins(p.written, w)
  BY TextInType DEF Holds

LEMMA HoldsOut == ASSUME out \in Buffer PROVE Holds(out, TextIn(out))
  BY TextInType, BeginsFacts DEF Holds

LEMMA HoldsPut ==
    ASSUME NEW p, NEW w, Holds(p, w), NEW s \in Seq(Cell)
    PROVE  Holds(Put(p, s), w \o s)
  BY PutText DEF Holds

LEMMA HoldsFlushed ==
    ASSUME NEW p, NEW w, Holds(p, w), out \in Buffer, target # "memory"
    PROVE  Holds(Flushed(p), w) /\ Flushed(p).written = w
  <1>1. /\ p \in Buffer /\ Flushed(p) \in Buffer
        /\ TextIn(Flushed(p)) = w /\ Flushed(p).written = w
    BY FlushedText DEF Holds
  <1>2. /\ out.written \in Seq(Cell) /\ p.written \in Seq(Cell) /\ w \in Seq(Cell)
        /\ Begins(out.written, p.written) /\ Begins(p.written, w)
    BY TextInType, HoldsText DEF Holds
  <1>3. Begins(out.written, w)
    BY <1>2, BeginsFacts
  <1> QED
    BY <1>1, <1>3 DEF Holds

LEMMA HoldsReserved ==
    ASSUME NEW p, NEW w, Holds(p, w), out \in Buffer,
           NEW required \in Nat, NEW q \in Reserved(p, required)
    PROVE  Holds(q, w)
  <1>1. p \in Buffer /\ q \in Buffer
    BY ReservedFacts DEF Holds
  <1>2. CASE q = p
    BY <1>2
  <1>3. CASE target = "memory" /\ q # p
    <2>1. PICK n : q = Resized(p, n)
      BY <1>3 DEF Reserved
    <2> QED
      BY <1>1, <2>1 DEF Holds, Resized, TextIn
  <1>4. CASE target # "memory" /\ q # p
    <2>1. q = Flushed(p) \/ \E n : q = Resized(Flushed(p), n)
      BY <1>4 DEF Reserved
    <2>2. q.text = Flushed(p).text /\ q.written = Flushed(p).written
      BY <2>1 DEF Resized
    <2>3. Holds(Flushed(p), w)
      BY <1>4, HoldsFlushed
    <2> QED
      BY <1>1, <2>2, <2>3 DEF Holds, TextIn
  <1> QED
    BY <1>2, <1>3, <1>4

LEMMA HoldsNoRoom ==
    ASSUME NEW p, NEW w, Holds(p, w), out \in Buffer, NEW required, NoRoom(p, required)
    PROVE  Holds(out', w) /\ exc'.type \in {"NoMemory", "Callback"}
  <1>1. /\ out' = p \/ (target # "memory" /\ out' = Flushed(p))
        /\ exc'.type \in {"NoMemory", "Callback"}
    BY DEF NoRoom, Raise
  <1> QED
    BY <1>1, HoldsFlushed

(* Taking back the comma behind the text w. *)
LEMMA RetractText ==
    ASSUME NEW o \in Buffer, o.text # <<>>, NEW w \in Seq(Cell), NEW c \in Cell,
           TextIn(o) = w \o <<c>>
    PROVE  TextIn(Retract(o)) = w /\ Retract(o).written = o.written /\ Begins(o.written, w)
  <1>1. o.written \in Seq(Cell) /\ o.text \in Seq(Cell) /\ Len(o.text) \in Nat /\ Len(o.text) >= 1
    BY EmptySeq, LenProperties DEF Buffer
  <1> DEFINE n == Len(o.text)
             t == SubSeq(o.text, 1, n - 1)
             l == o.text[n]
  <1>2. n \in 1..Len(o.text) /\ 1 \in 1..Len(o.text) /\ n \in 1..Len(o.text) /\ l \in Cell
    BY <1>1, ElementOfSeq
  <1>3. t \in Seq(Cell)
    BY <1>1, Prefix
  <1>4. o.text = t \o <<l>>
    <2>1. SubSeq(o.text, 1, n) = SubSeq(o.text, 1, n - 1) \o <<o.text[n]>>
      BY <1>1, <1>2, SubSeqRecursiveSecond
    <2>2. SubSeq(o.text, 1, n) = o.text
      BY <1>1, SubSeqFull
    <2> QED
      BY <2>1, <2>2
  <1>5. Retract(o).text = t /\ Retract(o).written = o.written
    BY DEF Retract
  <1> HIDE DEF t, l, n
  <1>6. <<l>> \in Seq(Cell) /\ o.written \o t \in Seq(Cell)
    BY <1>1, <1>2, <1>3, ConcatProperties
  <1> DEFINE a == o.written
             v == a \o t
  <1>7. v \o <<l>> = w \o <<c>>
    <2>1. a \in Seq(Cell) /\ a \o (t \o <<l>>) = w \o <<c>>
      BY <1>1, <1>4 DEF TextIn
    <2> HIDE DEF a
    <2>2. (a \o t) \o <<l>> = a \o (t \o <<l>>)
      BY <1>3, <1>6, <2>1, ConcatAssociative
    <2> QED
      BY <2>1, <2>2
  <1>8. v = w
    <2>1. v \in Seq(Cell)
      BY <1>6
    <2> HIDE DEF v
    <2>2. Append(v, l) = Append(w, c)
      BY <1>2, <1>7, <2>1, AppendIsConcat
    <2>3. v = w /\ l = c
      BY <1>2, <2>1, <2>2, AppendInjective
    <2> QED
      BY <2>3
  <1>9. o.written \o t = w
    BY <1>8
  <1> QED
    BY <1>1, <1>3, <1>5, <1>9, BeginsFacts DEF TextIn

-----------------------------------------------------------------------------
(***************************************************************************)
(* The invariant behind the promise.  While nothing has failed, the text   *)
(* in the buffer, the object on call and what the frames owe make the text *)
(* asked for; in a loop the last comma does not belong to it yet.  After a *)
(* failure only what has been written out of the buffer counts, and the    *)
(* exception is the one the text asked for stops with, if it is a refusal. *)
(***************************************************************************)
Separator(i) == IF i = 0 THEN <<>> ELSE <<",">>

Explained ==
    /\ exc.type \in {"Encode", "Recursion"} => Asked.why = exc.type
    /\ exc = NoExc => Asked.why = "Recursion"
    /\ exc = NoExc \/ exc.type # "none"

TextInv ==
    /\ target = "memory" => out.written = <<>>
    /\ pc = "call" => Ahead(stack, depth, TextIn(out), OutcomeAt(node, depth, AsKey))
    /\ pc = "loop" =>
          /\ stack # <<>> /\ Top.how \in Containers /\ ~Top.keyCall
          /\ \E w \in Seq(Cell) :
                TextIn(out) = w \o Separator(Top.i) /\ Ahead(stack, depth, w, Nothing)
    /\ pc = "return" => Ahead(stack, depth, TextIn(out), Nothing)
    /\ pc = "returned" => Asked = Whole(IF target = "file" THEN out.written ELSE out.text)
    /\ pc \in {"fail", "raised"} => Begins(out.written, Asked.text) /\ Explained

(* What has been written is not taken back. *)
Grows == Begins(out.written, out'.written)

LEMMA TextInit == Init => TextInv
  <1> SUFFICES ASSUME Init PROVE TextInv
    OBVIOUS
  <1>1. /\ out.written = <<>> /\ out.text = <<>> /\ stack = <<>> /\ depth = 0 /\ pc = "call"
        /\ node = root /\ root \in Node
    BY DEF Init
  <1>2. 0 \in 0..MaxDepth
    BY ObjectAssumption
  <1>3. Asked \in Outcomes
    BY <1>1, <1>2, OutcomeTyped DEF Asked
  <1>4. TextIn(out) = <<>> /\ AsKey = FALSE
    <2>1. <<>> \o <<>> = <<>>
      OBVIOUS
    <2> QED
      BY <1>1, <2>1 DEF TextIn, AsKey
  <1>5. Then(Nothing, Then(Asked, Nothing)) = Asked
    BY <1>3, NothingBefore, NothingBehind
  <1>6. Asked = Then(Whole(<<>>), Then(Asked, Nothing))
    BY <1>5 DEF Nothing
  <1>7. OutcomeAt(node, depth, AsKey) = Asked
    BY <1>1, <1>4 DEF Asked
  <1>8. Ahead(stack, depth, TextIn(out), OutcomeAt(node, depth, AsKey))
    BY <1>1, <1>4, <1>6, <1>7, OwesNothing DEF Ahead
  <1> QED
    BY <1>1, <1>8 DEF TextInv

LEMMA ToCall ==
    ASSUME UNCHANGED <<target, root>>, TextInv, pc' = "call", NEW w, Holds(out', w),
           NEW x, x = OutcomeAt(node', depth', AsKey'), Ahead(stack', depth', w, x)
    PROVE  TextInv' /\ Grows
  <1>1. TextIn(out') = w /\ Grows /\ (target' = "memory" => out'.written = <<>>)
    BY DEF Holds, Grows, TextInv
  <1>2. Ahead(stack, depth, TextIn(out), OutcomeAt(node, depth, AsKey))'
    BY <1>1 DEF Ahead, Asked
  <1> QED
    BY <1>1, <1>2 DEF TextInv

LEMMA ToLoop ==
    ASSUME UNCHANGED <<target, root>>, TextInv, pc' = "loop",
           stack' # <<>>, Top'.how \in Containers, ~Top'.keyCall,
           NEW w \in Seq(Cell), Holds(out', w \o Separator(Top'.i)),
           Ahead(stack', depth', w, Nothing)
    PROVE  TextInv' /\ Grows
  <1>1. /\ TextIn(out') = w \o Separator(Top'.i) /\ Grows
        /\ target' = "memory" => out'.written = <<>>
    BY DEF Holds, Grows, TextInv
  <1>2. Ahead(stack, depth, w, Nothing)'
    BY <1>1 DEF Ahead, Asked
  <1> QED
    BY <1>1, <1>2 DEF TextInv

LEMMA ToReturn ==
    ASSUME UNCHANGED <<target, root>>, TextInv, pc' = "return", NEW w, Holds(out', w),
           Ahead(stack', depth', w, Nothing)
    PROVE  TextInv' /\ Grows
  <1>1. TextIn(out') = w /\ Grows /\ (target' = "memory" => out'.written = <<>>)
    BY DEF Holds, Grows, TextInv
  <1>2. Ahead(stack, depth, TextIn(out), Nothing)'
    BY <1>1 DEF Ahead, Asked
  <1> QED
    BY <1>1, <1>2 DEF TextInv

(* A failure, with the exception that explains it. *)
LEMMA ToFail ==
    ASSUME UNCHANGED <<target, root>>, TextInv, pc' = "fail",
           NEW w, NEW p, Holds(p, w), out'.written = p.written,
           NEW s \in Seq(Frame), NEW d, NEW x \in Outcomes, Ahead(s, d, w, x),
           \/ exc'.type \in {"Callback", "NoMemory"}
           \/ exc'.type = "Encode" /\ x.why = "Encode"
           \/ exc' = NoExc /\ x.why = "Recursion"
    PROVE  TextInv' /\ Grows
  <1>1. Grows /\ (target' = "memory" => out'.written = <<>>)
    BY DEF Holds, Grows, TextInv
  <1>2. Asked' = Asked
    BY DEF Asked
  <1>3. Begins(out'.written, Asked.text)
    <2>1. w \in Seq(Cell) /\ out'.written \in Seq(Cell) /\ Begins(out'.written, w)
      BY HoldsText
    <2>2. PICK u \in Seq(Cell) : Asked.text = w \o u
      BY <2>1, AheadBegins DEF Begins
    <2>3. w \o u \in Seq(Cell) /\ Begins(w, w \o u)
      BY <2>1, ConcatProperties, BeginsFacts
    <2> DEFINE v == w \o u
               q == out'.written
    <2>4. v \in Seq(Cell) /\ Begins(w, v) /\ q \in Seq(Cell) /\ Begins(q, w) /\ Asked.text = v
      BY <2>1, <2>2, <2>3
    <2> HIDE DEF v, q
    <2>5. Begins(q, v)
      BY <2>1, <2>4, BeginsFacts
    <2> QED
      BY <2>4, <2>5 DEF q
  <1>4. x.why # "none" => Asked.why = x.why
    <2>1. w \in Seq(Cell)
      BY HoldsText
    <2> QED
      BY <2>1, AheadStops
  <1>5. /\ exc'.type \in {"Encode", "Recursion"} => Asked.why = exc'.type
        /\ exc' = NoExc => Asked.why = "Recursion"
        /\ exc' = NoExc \/ exc'.type # "none"
    BY <1>4 DEF NoExc
  <1>6. Explained'
    BY <1>2, <1>5 DEF Explained
  <1> QED
    BY <1>1, <1>2, <1>3, <1>6 DEF TextInv

-----------------------------------------------------------------------------
(* The steps. *)

LEMMA CallFacts ==
    ASSUME Core, PendingInv, TextInv, pc = "call"
    PROVE  /\ node \in Node /\ stack \in Seq(Frame) /\ out \in Buffer
           /\ depth \in 0..MaxDepth /\ depth \in Nat /\ MaxDepth \in Nat
           /\ AsKey \in BOOLEAN /\ Pending(exc)
           /\ Holds(out, TextIn(out)) /\ TextIn(out) \in Seq(Cell)
           /\ OutcomeAt(node, depth, AsKey) \in Outcomes
           /\ Ahead(stack, depth, TextIn(out), OutcomeAt(node, depth, AsKey))
           /\ Branch(node) = BranchOf(node, AsKey)
  <1>1. /\ node \in Node /\ stack \in Seq(Frame) /\ out \in Buffer
        /\ depth \in 0..MaxDepth /\ depth \in Nat /\ MaxDepth \in Nat /\ Pending(exc)
    BY CoreFacts DEF PendingInv
  <1>2. AsKey \in BOOLEAN
    BY AsKeyType
  <1>3. OutcomeAt(node, depth, AsKey) \in Outcomes
    BY <1>1, <1>2, OutcomeTyped
  <1>4. Ahead(stack, depth, TextIn(out), OutcomeAt(node, depth, AsKey))
    BY DEF TextInv
  <1>5. Holds(out, TextIn(out)) /\ TextIn(out) \in Seq(Cell)
    BY <1>1, HoldsOut, TextInType
  <1>6. Branch(node) = BranchOf(node, AsKey)
    BY DEF Branch
  <1> QED
    BY <1>1, <1>2, <1>3, <1>4, <1>5, <1>6

LEMMA LeafAhead ==
    ASSUME Core, PendingInv, TextInv, CallingLeaf
    PROVE  LET w == TextIn(out) \o ClosingQuote
               t == Characters(node) \o ClosingQuote
           IN  /\ w \in Seq(Cell) /\ t \in Seq(Cell)
               /\ Whole(t) \in Outcomes
               /\ Ahead(stack, depth, w, Whole(t))
               /\ \A o \in LeafStarts : Holds(o, w)
  <1> DEFINE q == ClosingQuote
             c == Characters(node)
             w == TextIn(out)
  <1>1. pc = "call" /\ Branch(node) \in LeafKinds
    BY DEF CallingLeaf, Dispatched
  <1>2. /\ node \in Node /\ stack \in Seq(Frame) /\ out \in Buffer /\ depth \in 0..MaxDepth
        /\ AsKey \in BOOLEAN /\ Holds(out, w) /\ w \in Seq(Cell)
        /\ Ahead(stack, depth, w, OutcomeAt(node, depth, AsKey))
        /\ BranchOf(node, AsKey) \in LeafKinds
    BY <1>1, CallFacts
  <1>3. Quotes(node, AsKey) = q
    BY DEF Quotes, ClosingQuote, Quoted
  <1>4. q \in Seq(Cell) /\ c \in Seq(Cell)
    BY <1>2, <1>3, LeafTextTyped
  <1>5. OutcomeAt(node, depth, AsKey) = Whole(q \o c \o q)
    BY <1>2, <1>3, OutcomeOfLeaf
  <1>6. \A o \in LeafStarts : Holds(o, w \o q)
    <2>1. CASE ~Quoted
      <3>1. LeafStarts = {out} /\ q = <<>>
        BY <2>1 DEF LeafStarts, ClosingQuote
      <3>2. w \o q = w
        BY <1>2, <3>1, ConcatEmptySeq
      <3> QED
        BY <1>2, <3>1, <3>2
    <2>2. CASE Quoted
      <3>1. q = <<Quote>> /\ <<Quote>> \in Seq(Cell)
        BY <2>2, PunctuationCells DEF ClosingQuote
      <3>2. \A o \in {out} \cup Reserved(out, Extra) : Holds(o, w)
        BY <1>2, HoldsReserved, ExtraNat
      <3>3. \A o \in {out} \cup Reserved(out, Extra) : Holds(Put(o, <<Quote>>), w \o q)
        BY <3>1, <3>2, HoldsPut
      <3>4. \A o \in LeafStarts : \E p \in {out} \cup Reserved(out, Extra) : o = Put(p, <<Quote>>)
        BY <2>2 DEF LeafStarts
      <3> QED
        BY <3>3, <3>4
    <2> QED
      BY <2>1, <2>2
  <1> HIDE DEF q, c, w
  <1>7. /\ w \o q \in Seq(Cell) /\ c \o q \in Seq(Cell) /\ Whole(c \o q) \in Outcomes
        /\ Whole(q) \in Outcomes
    BY <1>2, <1>4, ConcatProperties, WholeType
  <1>8. q \o c \o q = q \o (c \o q)
    BY <1>4, ConcatAssociative
  <1>9. Whole(q \o c \o q) = Then(Whole(q), Whole(c \o q))
    BY <1>8 DEF Then, Whole, Promise!Then, Promise!Whole
  <1>10. Ahead(stack, depth, w, Then(Whole(q), Whole(c \o q)))
    BY <1>2, <1>5, <1>9
  <1>11. Ahead(stack, depth, w \o q, Whole(c \o q))
    BY <1>2, <1>4, <1>7, <1>10, AheadText
  <1> QED
    BY <1>6, <1>7, <1>11 DEF q, c, w

LEMMA LeavesText ==
    ASSUME Core, PendingInv, TextInv, Leaves
    PROVE  TextInv' /\ Grows
  <1>1. pc = "call" /\ UNCHANGED <<target, root, stack, depth, node>>
    BY DEF Leaves, LookupClears, EncodeLeaf, LeafNoRoom, LeafRaises, Refuse, CallingLeaf, Calling, Dispatched, Frozen
  <1>2. /\ node \in Node /\ stack \in Seq(Frame) /\ out \in Buffer /\ depth \in 0..MaxDepth
        /\ AsKey \in BOOLEAN /\ Holds(out, TextIn(out)) /\ TextIn(out) \in Seq(Cell)
        /\ OutcomeAt(node, depth, AsKey) \in Outcomes
        /\ Ahead(stack, depth, TextIn(out), OutcomeAt(node, depth, AsKey))
        /\ Branch(node) = BranchOf(node, AsKey)
    BY <1>1, CallFacts
  <1> DEFINE w == TextIn(out) \o ClosingQuote
             t == Characters(node) \o ClosingQuote
  <1>3. CallingLeaf =>
           /\ w \in Seq(Cell) /\ t \in Seq(Cell) /\ Whole(t) \in Outcomes
           /\ Ahead(stack, depth, w, Whole(t))
           /\ \A o \in LeafStarts : Holds(o, w)
           /\ LeafRequest(node) \in Nat
    BY LeafAhead, LeafFacts
  <1> HIDE DEF w, t
  <1>4. CASE EncodeLeaf
    <2>1. PICK start \in LeafStarts : \E o \in Reserved(start, LeafRequest(node)) : out' = Put(o, t)
      BY <1>4 DEF EncodeLeaf, t
    <2>2. PICK o \in Reserved(start, LeafRequest(node)) : out' = Put(o, t)
      BY <2>1
    <2>3. CallingLeaf /\ pc' = "return"
      BY <1>4 DEF EncodeLeaf
    <2>4. Holds(start, w)
      BY <1>3, <2>3
    <2>5. Holds(o, w)
      BY <1>2, <1>3, <2>3, <2>4, HoldsReserved
    <2>6. Holds(out', w \o t)
      BY <1>3, <2>2, <2>3, <2>5, HoldsPut
    <2>7. Ahead(stack, depth, w \o t, Nothing)
      BY <1>2, <1>3, <2>3, AheadAll
    <2> QED
      BY <1>1, <2>3, <2>6, <2>7, ToReturn
  <1>5. CASE LeafNoRoom
    <2>1. CallingLeaf /\ pc' = "fail"
      BY <1>5 DEF LeafNoRoom, Fail
    <2>2. CASE \E start \in LeafStarts : NoRoom(start, LeafRequest(node))
      <3>1. Holds(out', w) /\ exc'.type \in {"NoMemory", "Callback"}
        BY <1>2, <1>3, <2>1, <2>2, HoldsNoRoom
      <3> QED
        BY <1>1, <1>2, <1>3, <2>1, <3>1, ToFail
    <2>3. CASE NoRoom(out, Extra)
      <3>1. Holds(out', TextIn(out)) /\ exc'.type \in {"NoMemory", "Callback"}
        BY <1>2, <2>3, HoldsNoRoom
      <3> QED
        BY <1>1, <1>2, <2>1, <3>1, ToFail
    <2> QED
      BY <1>5, <2>2, <2>3 DEF LeafNoRoom
  <1>6. CASE LeafRaises
    <2>1. CallingLeaf /\ pc' = "fail" /\ exc'.type = "Callback"
      BY <1>6 DEF LeafRaises, Fail, Raise
    <2>2. CASE out' \in LeafStarts
      BY <1>1, <1>2, <1>3, <2>1, <2>2, ToFail
    <2>3. CASE out' \in Reserved(out, LeafRequest(node))
      <3>1. Holds(out', TextIn(out))
        BY <1>2, <1>3, <2>1, <2>3, HoldsReserved
      <3> QED
        BY <1>1, <1>2, <2>1, <3>1, ToFail
    <2> QED
      BY <1>6, <2>2, <2>3 DEF LeafRaises
  <1>7. CASE Refuse
    <2>1. /\ BranchOf(node, AsKey) \in {"BigInt", "Refused"} /\ pc' = "fail"
          /\ exc'.type = "Encode" /\ out' = out
      BY <1>2, <1>7 DEF Refuse, Calling, Dispatched, Fail, Raise
    <2>2. OutcomeAt(node, depth, AsKey) = [why |-> "Encode", text |-> <<>>]
      BY <1>2, <2>1, OutcomeOfRefused
    <2>3. OutcomeAt(node, depth, AsKey).why = "Encode"
      BY <2>2
    <2> QED
      BY <1>1, <1>2, <2>1, <2>3, ToFail
  <1>8. CASE LookupClears
    <2>1. pc' = "call" /\ out' = out
      BY <1>8 DEF LookupClears
    <2>2. AsKey' = AsKey
      BY <1>1 DEF AsKey, Top
    <2> QED
      BY <1>1, <1>2, <2>1, <2>2, ToCall
  <1> QED
    BY <1>4, <1>5, <1>6, <1>7, <1>8 DEF Leaves

LEMMA EnterText ==
    ASSUME Core, PendingInv, TextInv, pc = "call", UNCHANGED <<target, root>>,
           NEW how \in Containers, Branch(node) = how, ~(how = "Dict" /\ Obj[node].items = <<>>),
           Enter(how), NEW o \in Reserved(out, Extra), out' = Put(o, <<OpenerOf(node)>>)
    PROVE  TextInv' /\ Grows
  <1> DEFINE f == NewFrame(how, FALSE)
             c == <<OpenerOf(node)>>
             w == TextIn(out)
             e == depth + 1
             x == Following(node, e, 0)
  <1>1. /\ node \in Node /\ stack \in Seq(Frame) /\ out \in Buffer /\ depth \in 0..MaxDepth
        /\ AsKey \in BOOLEAN /\ Holds(out, w) /\ w \in Seq(Cell)
        /\ Ahead(stack, depth, w, OutcomeAt(node, depth, AsKey))
        /\ BranchOf(node, AsKey) = how
        /\ depth \in Nat /\ MaxDepth \in Nat
    BY CallFacts
  <1>2. /\ depth # MaxDepth /\ e \in 0..MaxDepth /\ depth' = e
        /\ stack' = Append(stack, f) /\ pc' = "loop"
    BY <1>1 DEF Enter, TooDeep, Push
  <1>3. OutcomeAt(node, depth, AsKey) = Then(Whole(c), x)
    BY <1>1, <1>2, OutcomeOfContainer
  <1>4. /\ f \in Frame /\ f.how = how /\ f.i = 0 /\ ~f.keyCall /\ f.node = node
        /\ how \notin WrapperKinds /\ how # "Enum"
    BY <1>1 DEF NewFrame, Frame, FrameKinds, Containers, MappingKinds, ListKinds, WrapperKinds
  <1>5. FrameRest(f, e) = x /\ Deeper(f, depth) = e
    BY <1>4 DEF FrameRest, Deeper
  <1>6. FrameRest(f, e) \in Outcomes
    <2>1. Len(Obj[node].items) \in Nat
      BY <1>1, ObjectFacts
    <2> HIDE DEF f, e
    <2>2. f.i <= Len(Obj[f.node].items)
      BY <1>4, <2>1
    <2> QED
      BY <1>2, <1>4, <2>2, FrameRestTyped
  <1>7. c \in Seq(Cell)
    BY PunctuationCells DEF OpenerOf
  <1>8. Holds(out', w \o c)
    <2>1. Holds(o, w)
      BY <1>1, HoldsReserved, ExtraNat
    <2> QED
      BY <1>7, <2>1, HoldsPut
  <1> HIDE DEF f, c, w, e, x
  <1>9. w \o c \in Seq(Cell)
    BY <1>1, <1>7, ConcatProperties
  <1>10. Ahead(stack, depth, w \o c, x)
    BY <1>1, <1>3, <1>5, <1>6, <1>7, AheadText
  <1>11. x = Then(Nothing, FrameRest(f, e)) /\ Nothing \in Outcomes
    BY <1>5, <1>6, NothingBefore, NothingType
  <1>12. Ahead(stack, depth, w \o c, Then(Nothing, FrameRest(f, e)))
    BY <1>10, <1>11
  <1>13. Ahead(stack', depth', w \o c, Nothing)
    BY <1>1, <1>2, <1>4, <1>5, <1>6, <1>9, <1>11, <1>12, AheadPush
  <1>14. stack' # <<>> /\ Top' = f
    <2>1. Len(stack') = Len(stack) + 1 /\ stack'[Len(stack) + 1] = f /\ Len(stack) \in Nat
          /\ stack' \in Seq(Frame)
      BY <1>1, <1>2, <1>4, AppendProperties, LenProperties
    <2> QED
      BY <2>1, EmptySeq DEF Top
  <1>15. Top'.how \in Containers /\ ~Top'.keyCall /\ Separator(Top'.i) = <<>>
    BY <1>4, <1>14 DEF Separator
  <1>16. (w \o c) \o Separator(Top'.i) = w \o c
    BY <1>9, <1>15, ConcatEmptySeq
  <1> QED
    BY <1>2, <1>8, <1>9, <1>13, <1>14, <1>15, <1>16, ToLoop

LEMMA TooDeepText ==
    ASSUME Core, PendingInv, TextInv, pc = "call", UNCHANGED <<target, root>>,
           Deepens(node, AsKey), EnterFails,
           NEW p, Holds(p, TextIn(out)), out'.written = p.written
    PROVE  TextInv' /\ Grows
  <1>1. /\ node \in Node /\ stack \in Seq(Frame) /\ depth \in 0..MaxDepth
        /\ AsKey \in BOOLEAN /\ Pending(exc)
        /\ OutcomeAt(node, depth, AsKey) \in Outcomes
        /\ Ahead(stack, depth, TextIn(out), OutcomeAt(node, depth, AsKey))
        /\ depth \in Nat /\ MaxDepth \in Nat
    BY CallFacts
  <1>2. depth = MaxDepth /\ pc' = "fail" /\ (exc' = NoExc \/ exc'.type = "Callback")
    BY <1>1 DEF Pending, EnterFails, TooDeep, Fail
  <1>3. OutcomeAt(node, depth, AsKey).why = "Recursion"
    BY <1>1, <1>2, OutcomeOfDeep
  <1> QED
    BY <1>1, <1>2, <1>3, ToFail

(* A failure the Python side or the memory is responsible for. *)
LEMMA BreakText ==
    ASSUME Core, PendingInv, TextInv, pc = "call", UNCHANGED <<target, root>>, pc' = "fail",
           exc'.type \in {"Callback", "NoMemory"},
           NEW p, Holds(p, TextIn(out)), out'.written = p.written
    PROVE  TextInv' /\ Grows
  <1>1. /\ stack \in Seq(Frame) /\ OutcomeAt(node, depth, AsKey) \in Outcomes
        /\ Ahead(stack, depth, TextIn(out), OutcomeAt(node, depth, AsKey))
    BY CallFacts
  <1> QED
    BY <1>1, ToFail

LEMMA EntriesText ==
    ASSUME Core, PendingInv, TextInv, Entries
    PROVE  TextInv' /\ Grows
  <1>1. pc = "call" /\ UNCHANGED <<target, root>>
    BY DEF Entries, EncodeEmptyDict, EnterDict, EnterItemsView, EnterDataclass,
           EnterList, EnterIterable, EnterNoRoom, EnterRaises, TakenForView, TakenForViewNoRoom,
           Calling, Dispatched, Frozen
  <1>2. /\ node \in Node /\ stack \in Seq(Frame) /\ out \in Buffer /\ depth \in 0..MaxDepth
        /\ AsKey \in BOOLEAN /\ Holds(out, TextIn(out)) /\ TextIn(out) \in Seq(Cell)
        /\ Ahead(stack, depth, TextIn(out), OutcomeAt(node, depth, AsKey))
        /\ Branch(node) = BranchOf(node, AsKey)
    BY <1>1, CallFacts
  <1>3. \A o \in Reserved(out, Extra) : Holds(o, TextIn(out))
    BY <1>2, HoldsReserved, ExtraNat
  <1>4. \A o, s : Put(o, s).written = o.written
    BY DEF Put
  <1>5. Branch(node) \in Containers => OpenerOf(node) = IF Branch(node) \in MappingKinds THEN "{" ELSE "["
    BY <1>2, BranchIsKind DEF OpenerOf
  <1>6. {"Dict", "ItemsView", "Dataclass", "List", "Iterable"} \subseteq Containers
        /\ {"Dict", "ItemsView", "Dataclass"} \subseteq MappingKinds
        /\ "List" \notin MappingKinds /\ "Iterable" \notin MappingKinds
    BY DEF Containers, MappingKinds, ListKinds
  <1>7. CASE EncodeEmptyDict
    <2>1. /\ pc' = "return" /\ BranchOf(node, AsKey) = "Dict" /\ Obj[node].items = <<>>
          /\ UNCHANGED <<stack, depth>>
      BY <1>2, <1>7 DEF EncodeEmptyDict, Calling, Dispatched
    <2>2. PICK o \in Reserved(out, Extra) : out' = Put(o, <<"{", "}">>)
      BY <1>7 DEF EncodeEmptyDict
    <2>3. <<"{", "}">> \in Seq(Cell)
      BY PunctuationCells
    <2>4. Holds(out', TextIn(out) \o <<"{", "}">>)
      BY <1>3, <2>2, <2>3, HoldsPut
    <2>5. OutcomeAt(node, depth, AsKey) = Whole(<<"{", "}">>)
      BY <1>2, <2>1, OutcomeOfEmpty
    <2>6. Ahead(stack, depth, TextIn(out), Whole(<<"{", "}">>))
      BY <1>2, <2>5
    <2>7. Ahead(stack, depth, TextIn(out) \o <<"{", "}">>, Nothing)
      BY <1>2, <2>3, <2>6, AheadAll
    <2> QED
      BY <1>1, <2>1, <2>4, <2>7, ToReturn
  <1>8. CASE EnterDict
    <2>1. PICK o \in Reserved(out, Extra) : out' = Put(o, <<"{">>)
      BY <1>8 DEF EnterDict
    <2>2. Branch(node) = "Dict" /\ Obj[node].items # <<>> /\ (Enter("Dict") \/ EnterFails)
      BY <1>8 DEF EnterDict, Calling, Dispatched
    <2>3. out' = Put(o, <<OpenerOf(node)>>) /\ out'.written = o.written /\ Deepens(node, AsKey)
      BY <1>2, <1>4, <1>5, <1>6, <2>1, <2>2 DEF Deepens
    <2> QED
      BY <1>1, <1>3, <1>6, <2>2, <2>3, EnterText, TooDeepText
  <1>9. CASE EnterItemsView
    <2>1. PICK o \in Reserved(out, Extra) : out' = Put(o, <<"{">>)
      BY <1>9 DEF EnterItemsView
    <2>2. Branch(node) = "ItemsView" /\ (Enter("ItemsView") \/ EnterFails)
      BY <1>9 DEF EnterItemsView, Calling, Dispatched
    <2>3. out' = Put(o, <<OpenerOf(node)>>) /\ out'.written = o.written /\ Deepens(node, AsKey)
      BY <1>2, <1>4, <1>5, <1>6, <2>1, <2>2 DEF Deepens
    <2> QED
      BY <1>1, <1>3, <1>6, <2>2, <2>3, EnterText, TooDeepText
  <1>10. CASE EnterDataclass
    <2>1. PICK o \in Reserved(out, Extra) : out' = Put(o, <<"{">>)
      BY <1>10 DEF EnterDataclass
    <2>2. Branch(node) = "Dataclass" /\ (Enter("Dataclass") \/ EnterFails)
      BY <1>10 DEF EnterDataclass, Calling, Dispatched
    <2>3. out' = Put(o, <<OpenerOf(node)>>) /\ out'.written = o.written /\ Deepens(node, AsKey)
      BY <1>2, <1>4, <1>5, <1>6, <2>1, <2>2 DEF Deepens
    <2> QED
      BY <1>1, <1>3, <1>6, <2>2, <2>3, EnterText, TooDeepText
  <1>11. CASE EnterList
    <2>1. Branch(node) = "List" /\ Deepens(node, AsKey)
      BY <1>2, <1>11 DEF EnterList, Calling, Dispatched, Deepens, ListKinds
    <2>2. CASE Enter("List") /\ \E o \in Reserved(out, Extra) : out' = Put(o, <<"[">>)
      <3>1. PICK o \in Reserved(out, Extra) : out' = Put(o, <<"[">>)
        BY <2>2
      <3>2. out' = Put(o, <<OpenerOf(node)>>)
        BY <1>5, <1>6, <2>1, <3>1
      <3> QED
        BY <1>1, <1>6, <2>1, <2>2, <3>2, EnterText
    <2>3. CASE EnterFails /\ UNCHANGED out
      BY <1>1, <1>2, <2>1, <2>3, TooDeepText
    <2> QED
      BY <1>11, <2>2, <2>3 DEF EnterList
  <1>12. CASE EnterIterable
    <2>1. PICK o \in Reserved(out, Extra) : out' = Put(o, <<"[">>)
      BY <1>12 DEF EnterIterable
    <2>2. Branch(node) = "Iterable" /\ (Enter("Iterable") \/ EnterFails)
      BY <1>12 DEF EnterIterable, Calling, Dispatched
    <2>3. out' = Put(o, <<OpenerOf(node)>>) /\ out'.written = o.written /\ Deepens(node, AsKey)
      BY <1>2, <1>4, <1>5, <1>6, <2>1, <2>2 DEF Deepens, ListKinds
    <2> QED
      BY <1>1, <1>3, <1>6, <2>2, <2>3, EnterText, TooDeepText
  <1>13. CASE EnterNoRoom
    <2>1. Holds(out', TextIn(out)) /\ exc'.type \in {"NoMemory", "Callback"} /\ pc' = "fail"
      BY <1>2, <1>13, HoldsNoRoom DEF EnterNoRoom, Fail
    <2> QED
      BY <1>1, <2>1, BreakText
  <1>14. CASE EnterRaises
    <2>1. pc' = "fail" /\ exc'.type = "Callback"
      BY <1>14 DEF EnterRaises, Fail, Raise
    <2>2. \E p : Holds(p, TextIn(out)) /\ out'.written = p.written
      BY <1>2, <1>3, <1>4, <1>14 DEF EnterRaises
    <2> QED
      BY <1>1, <2>1, <2>2, BreakText
  <1>15. CASE TakenForView
    <2>1. PICK o \in Reserved(out, Extra) : out' = Put(o, <<"{">>)
      BY <1>15 DEF TakenForView
    <2>2. exc'.type = "Callback" /\ out'.written = o.written /\ Holds(o, TextIn(out))
      BY <1>3, <1>4, <1>15, <2>1 DEF TakenForView, Raise
    <2>3. CASE pc' = "fail"
      BY <1>1, <2>2, <2>3, BreakText
    <2>4. CASE Branch(node) = "ItemsView" /\ Enter("ItemsView")
      <3>1. out' = Put(o, <<OpenerOf(node)>>)
        BY <1>5, <1>6, <2>1, <2>4
      <3> QED
        BY <1>1, <1>6, <2>4, <3>1, EnterText
    <2> QED
      BY <1>15, <2>3, <2>4 DEF TakenForView, Fail
  <1>16. CASE TakenForViewNoRoom
    <2>1. Holds(out', TextIn(out)) /\ exc'.type \in {"NoMemory", "Callback"} /\ pc' = "fail"
      BY <1>2, <1>16, HoldsNoRoom DEF TakenForViewNoRoom, Fail
    <2> QED
      BY <1>1, <2>1, BreakText
  <1> QED
    BY <1>7, <1>8, <1>9, <1>10, <1>11, <1>12, <1>13, <1>14, <1>15, <1>16 DEF Entries

LEMMA WrappersText ==
    ASSUME Core, PendingInv, TextInv, Wrappers
    PROVE  TextInv' /\ Grows
  <1>1. pc = "call" /\ UNCHANGED <<target, root, out>>
    BY DEF Wrappers, CallWrapper, CallEnumValue, UnwrapRaises, Calling, Dispatched, Frozen
  <1>2. /\ node \in Node /\ stack \in Seq(Frame) /\ out \in Buffer /\ depth \in 0..MaxDepth
        /\ AsKey \in BOOLEAN /\ Holds(out, TextIn(out)) /\ TextIn(out) \in Seq(Cell)
        /\ Ahead(stack, depth, TextIn(out), OutcomeAt(node, depth, AsKey))
        /\ Branch(node) = BranchOf(node, AsKey)
        /\ depth \in Nat /\ MaxDepth \in Nat
    BY <1>1, CallFacts
  <1>3. ASSUME NEW how \in WrapperKinds, Unwrap(how), NEW e \in 0..MaxDepth, depth' = e,
               e = IF how = "Enum" THEN depth ELSE depth + 1,
               OutcomeAt(node, depth, AsKey) = OutcomeAt(Obj[node].to, e, AsKey)
        PROVE  TextInv' /\ Grows
    <2> DEFINE f == NewFrame(how, AsKey)
               x == OutcomeAt(Obj[node].to, e, AsKey)
               w == TextIn(out)
    <2>1. /\ stack' = Append(stack, f) /\ pc' = "call" /\ node' = Obj[node].to
          /\ Obj[node].to \in Node /\ how \in FrameKinds
      BY <1>1, <1>2, <1>3, ObjectFacts DEF Unwrap, Push, FrameKinds
    <2>2. f \in Frame /\ f.how = how /\ f.keyCall = AsKey
      BY <1>2, <2>1, NewFrameFacts
    <2>3. Deeper(f, depth) = e /\ FrameRest(f, e) = Nothing
      BY <1>3, <2>2 DEF Deeper, FrameRest
    <2>4. x \in Outcomes
      BY <1>2, <1>3, <2>1, OutcomeTyped
    <2>5. Holds(out', w)
      BY <1>1, <1>2
    <2>6. AsKey' = AsKey
      <3>1. Len(stack') = Len(stack) + 1 /\ stack'[Len(stack) + 1] = f /\ Len(stack) \in Nat
            /\ stack' \in Seq(Frame)
        BY <1>2, <2>1, <2>2, AppendProperties, LenProperties
      <3>2. stack' # <<>> /\ Top' = f
        BY <3>1, EmptySeq DEF Top
      <3>3. AsKey' = (stack' # <<>> /\ Top'.keyCall)
        BY DEF AsKey
      <3>4. AsKey' = Top'.keyCall
        BY <1>2, <2>2, <3>2, <3>3
      <3> QED
        BY <2>2, <3>2, <3>4
    <2>7. x = OutcomeAt(node', depth', AsKey')
      BY <1>3, <2>1, <2>6
    <2> HIDE DEF f, x, w
    <2>8. Then(x, Nothing) = x /\ Nothing \in Outcomes
      BY <2>4, NothingBehind, NothingType
    <2>9. Ahead(stack, depth, w, Then(x, FrameRest(f, e)))
      BY <1>2, <1>3, <2>3, <2>8 DEF w, x
    <2>10. Ahead(stack', depth', w, x)
      BY <1>2, <1>3, <2>1, <2>2, <2>3, <2>4, <2>8, <2>9, AheadPush DEF w
    <2> QED
      BY <1>1, <2>1, <2>5, <2>7, <2>10, ToCall
  <1>4. ASSUME NEW how \in WrapperKinds, CallWrapper(how) PROVE TextInv' /\ Grows
    <2>1. how \in {"ToJson", "Default"} /\ BranchOf(node, AsKey) = how
      BY <1>2, <1>4 DEF CallWrapper, Calling, Dispatched
    <2>2. CASE ~TooDeep /\ depth' = depth + 1 /\ Unwrap(how)
      <3>1. depth # MaxDepth /\ depth + 1 \in 0..MaxDepth /\ how # "Enum"
        BY <1>2, <2>1, <2>2 DEF TooDeep
      <3>2. OutcomeAt(node, depth, AsKey) = OutcomeAt(Obj[node].to, depth + 1, AsKey)
        BY <1>2, <2>1, <3>1, OutcomeOfWrapper
      <3> QED
        BY <1>3, <2>2, <3>1, <3>2
    <2>3. CASE EnterFails
      <3>1. Deepens(node, AsKey)
        BY <2>1 DEF Deepens
      <3> QED
        BY <1>1, <1>2, <2>3, <3>1, TooDeepText
    <2> QED
      BY <1>4, <2>2, <2>3 DEF CallWrapper
  <1>5. CASE CallEnumValue
    <2>1. BranchOf(node, AsKey) = "Enum" /\ Unwrap("Enum") /\ depth' = depth /\ "Enum" \in WrapperKinds
      BY <1>2, <1>5 DEF CallEnumValue, Calling, Dispatched, WrapperKinds
    <2>2. OutcomeAt(node, depth, AsKey) = OutcomeAt(Obj[node].to, depth, AsKey)
      BY <1>2, <2>1, OutcomeOfEnum
    <2> QED
      BY <1>2, <1>3, <2>1, <2>2
  <1>6. CASE UnwrapRaises
    <2>1. pc' = "fail" /\ exc'.type = "Callback"
      BY <1>6 DEF UnwrapRaises, Fail, Raise
    <2> QED
      BY <1>1, <1>2, <2>1, BreakText
  <1> QED
    BY <1>4, <1>5, <1>6 DEF Wrappers

(* What the frame on top owes, and what the ones below it do. *)
LEMMA TopAhead ==
    ASSUME Core, stack # <<>>, pc \in {"loop", "return"}, pc = "loop" => ~Top.keyCall,
           NEW w \in Seq(Cell), Ahead(stack, depth, w, Nothing)
    PROVE  /\ FrameRest(Top, depth) \in Outcomes
           /\ \E e \in Nat : /\ depth = Deeper(Top, e)
                             /\ Ahead(Below, e, w, FrameRest(Top, depth))
  <1>1. /\ stack \in Seq(Frame) /\ depth \in 0..MaxDepth /\ Top \in Frame /\ Below \in Seq(Frame)
        /\ stack = Append(Below, Top)
    BY CoreFacts, TopFacts, StackIsPush
  <1>2. FrameRest(Top, depth) \in Outcomes
    <2>1. Top.how \in Containers => /\ Top.i <= Len(Obj[Top.node].items)
                                    /\ pc # "loop" => Top.i >= 1
      BY TopObject
    <2> QED
      BY <1>1, <2>1, FrameRestTyped
  <1>3. Nothing \in Outcomes /\ Ahead(Append(Below, Top), depth, w, Nothing)
    BY <1>1, NothingType
  <1>4. PICK e : e \in Nat /\ depth = Deeper(Top, e)
                 /\ Ahead(Below, e, w, Then(Nothing, FrameRest(Top, depth)))
    BY <1>1, <1>2, <1>3, AheadPop
  <1>5. Then(Nothing, FrameRest(Top, depth)) = FrameRest(Top, depth)
    BY <1>2, NothingBefore
  <1> QED
    BY <1>2, <1>4, <1>5

(* The frame on top is replaced by f, which waits for x. *)
LEMMA ReplaceAhead ==
    ASSUME Core, stack # <<>>, NEW f \in Frame, f.how = Top.how, stack' = Append(Below, f),
           depth' = depth, NEW e \in Nat, depth = Deeper(Top, e),
           NEW w \in Seq(Cell), NEW x \in Outcomes, FrameRest(f, depth) \in Outcomes,
           Ahead(Below, e, w, Then(x, FrameRest(f, depth)))
    PROVE  Ahead(stack', depth', w, x) /\ AsKey' = f.keyCall
  <1>1. Below \in Seq(Frame)
    BY CoreFacts, TopFacts
  <1>2. depth = Deeper(f, e)
    BY DEF Deeper
  <1>3. Ahead(Append(Below, f), depth, w, x)
    BY <1>1, <1>2, AheadPush
  <1>4. stack' # <<>> /\ Top' = f
    <2>1. /\ Len(stack') = Len(Below) + 1 /\ stack'[Len(Below) + 1] = f /\ Len(Below) \in Nat
          /\ stack' \in Seq(Frame)
      BY <1>1, AppendProperties, LenProperties
    <2> QED
      BY <2>1, EmptySeq DEF Top
  <1>5. f.keyCall \in BOOLEAN
    BY DEF Frame
  <1>6. AsKey' = f.keyCall
    <2>1. AsKey' = (stack' # <<>> /\ Top'.keyCall)
      BY DEF AsKey
    <2> QED
      BY <1>4, <1>5, <2>1
  <1> QED
    BY <1>3, <1>6

LEMMA LoopFacts ==
    ASSUME Core, PendingInv, TextInv, CommaInBuffer, pc = "loop"
    PROVE  /\ stack # <<>> /\ Top.how \in Containers /\ ~Top.keyCall
           /\ Top \in Frame /\ Top.node \in Node /\ Top.i \in Nat /\ Obj[Top.node].kind = Top.how
           /\ Len(Obj[Top.node].items) \in Nat /\ Top.i <= Len(Obj[Top.node].items)
           /\ depth \in 0..MaxDepth /\ Below \in Seq(Frame) /\ stack \in Seq(Frame)
           /\ Holds(out, TextIn(out))
           /\ \E w \in Seq(Cell), e \in Nat :
                 /\ TextIn(out) = w \o Separator(Top.i)
                 /\ Ahead(stack, depth, w, Nothing)
                 /\ depth = e + 1
                 /\ Ahead(Below, e, w, Following(Top.node, depth, Top.i))
                 /\ Holds(IF Top.i = 0 THEN out ELSE Retract(out), w)
  <1>1. stack # <<>> /\ Top.how \in Containers /\ ~Top.keyCall
    BY DEF TextInv
  <1>2. /\ Top \in Frame /\ Top.node \in Node /\ Top.i \in Nat /\ Obj[Top.node].kind = Top.how
        /\ Len(Obj[Top.node].items) \in Nat /\ Top.i <= Len(Obj[Top.node].items)
        /\ depth \in 0..MaxDepth /\ out \in Buffer /\ Below \in Seq(Frame) /\ stack \in Seq(Frame)
    BY <1>1, CoreFacts, TopFacts, TopObject, ObjectFacts
  <1>3. PICK w \in Seq(Cell) :
           TextIn(out) = w \o Separator(Top.i) /\ Ahead(stack, depth, w, Nothing)
    BY DEF TextInv
  <1>4. PICK e \in Nat : depth = Deeper(Top, e) /\ Ahead(Below, e, w, FrameRest(Top, depth))
    BY <1>1, <1>3, TopAhead
  <1>5. Top.how \notin WrapperKinds /\ Top.how # "Enum"
    BY <1>1 DEF Containers, MappingKinds, ListKinds, WrapperKinds
  <1>6. depth = e + 1 /\ FrameRest(Top, depth) = Following(Top.node, depth, Top.i)
    BY <1>1, <1>4, <1>5 DEF Deeper, FrameRest
  <1>7. Holds(out, TextIn(out))
    BY <1>2, HoldsOut
  <1>8. CASE Top.i = 0
    <2>1. w \o Separator(Top.i) = w
      BY <1>8, ConcatEmptySeq DEF Separator
    <2> QED
      BY <1>1, <1>2, <1>3, <1>4, <1>6, <1>7, <1>8, <2>1
  <1>9. CASE Top.i # 0
    <2>1. out.text # <<>> /\ TextIn(out) = w \o <<",">> /\ "," \in Cell
      <3>1. Top.i > 0
        BY <1>2, <1>9
      <3>2. out.text # <<>>
        BY <3>1 DEF CommaInBuffer
      <3>3. Separator(Top.i) = <<",">>
        BY <1>9 DEF Separator
      <3> QED
        BY <1>3, <3>2, <3>3, PunctuationCells
    <2>2. /\ TextIn(Retract(out)) = w /\ Retract(out).written = out.written
          /\ Retract(out) \in Buffer
      BY <1>2, <2>1, RetractText, RetractFacts
    <2>3. Holds(Retract(out), w)
      BY <1>7, <2>2 DEF Holds
    <2> QED
      BY <1>1, <1>2, <1>3, <1>4, <1>6, <1>7, <1>9, <2>3
  <1> QED
    BY <1>8, <1>9

(* The next element follows the text in the buffer, the comma included. *)
LEMMA NextAhead ==
    ASSUME Core, PendingInv, TextInv, CommaInBuffer, pc = "loop", Top.i < Len(Obj[Top.node].items)
    PROVE  LET n == Top.node
               j == Top.i + 1
               x == Element(n, depth, j)
               y == Following(n, depth, j)
           IN  /\ j \in Nat /\ j \in 1..Len(Obj[n].items)
               /\ x \in Outcomes /\ y \in Outcomes
               /\ \E e \in Nat : /\ depth = Deeper(Top, e)
                                 /\ Ahead(Below, e, TextIn(out), Then(x, y))
  <1> DEFINE n == Top.node
             i == Top.i
             d == depth
             x == Element(n, d, i + 1)
             y == Following(n, d, i + 1)
             sep == Separator(i)
  <1>1. /\ n \in Node /\ i \in Nat /\ d \in 0..MaxDepth /\ Top.how # "Enum"
        /\ Below \in Seq(Frame) /\ Len(Obj[n].items) \in Nat
    BY LoopFacts DEF Containers, MappingKinds, ListKinds
  <1>2. PICK w \in Seq(Cell), e \in Nat :
           TextIn(out) = w \o sep /\ depth = e + 1 /\ Ahead(Below, e, w, Following(n, d, i))
    BY LoopFacts
  <1>3. i + 1 \in Nat /\ i + 1 \in 1..Len(Obj[n].items) /\ i + 1 \in 0..Len(Obj[n].items)
    BY <1>1
  <1>4. y \in Outcomes
    BY <1>1, <1>3, OutcomeTyped, FollowingTyped
  <1>5. Following(n, d, i) = IF i = 0 THEN Then(x, y) ELSE Then(Whole(<<",">>), Then(x, y))
    BY <1>1, FollowingNext
  <1>6. x \in Outcomes
    <2>1. /\ Obj[n].items[i + 1] \in Node
          /\ Obj[n].kind \in MappingKinds => Obj[n].keys[i + 1] \in Node
      BY <1>1, <1>3, ElementsFacts
    <2>2. OutcomeAt(Obj[n].items[i + 1], d, FALSE) \in Outcomes
      BY <1>1, <2>1, OutcomeTyped
    <2>3. CASE Obj[n].kind \in MappingKinds
      <3>1. OutcomeAt(Obj[n].keys[i + 1], d, TRUE) \in Outcomes
        BY <1>1, <2>1, <2>3, OutcomeTyped
      <3>2. Whole(<<Quote>>) \in Outcomes /\ Whole(<<Quote, ":">>) \in Outcomes
        BY PunctuationCells, WholeType
      <3> QED
        BY <2>2, <2>3, <3>1, <3>2, ThenType DEF Element, Entry
    <2>4. CASE Obj[n].kind \notin MappingKinds
      BY <2>2, <2>4 DEF Element
    <2> QED
      BY <2>3, <2>4
  <1>7. depth = Deeper(Top, e)
    BY <1>1, <1>2 DEF Deeper
  <1>8. sep \in Seq(Cell) /\ Whole(sep) = IF i = 0 THEN Nothing ELSE Whole(<<",">>)
    BY PunctuationCells DEF Separator, Nothing
  <1> HIDE DEF n, i, d, x, y, sep
  <1>9. Then(x, y) \in Outcomes
    BY <1>4, <1>6, ThenType
  <1>10. Following(n, d, i) = Then(Whole(sep), Then(x, y))
    BY <1>5, <1>8, <1>9, NothingBefore
  <1>11. Ahead(Below, e, w \o sep, Then(x, y))
    BY <1>1, <1>2, <1>8, <1>9, <1>10, AheadText
  <1> QED
    BY <1>2, <1>3, <1>4, <1>6, <1>7, <1>11 DEF n, i, d, x, y

LEMMA NextEntryText ==
    ASSUME Core, PendingInv, TextInv, CommaInBuffer, NextEntry
    PROVE  TextInv' /\ Grows
  <1> DEFINE n == Top.node
             j == Top.i + 1
             d == depth
             K == OutcomeAt(Obj[n].keys[j], d, TRUE)
             V == OutcomeAt(Obj[n].items[j], d, FALSE)
             F == Following(n, d, j)
             WQ == Whole(<<Quote>>)
             WC == Whole(<<Quote, ":">>)
             f == [node |-> n, how |-> Top.how, i |-> j, keyCall |-> TRUE]
  <1>1. pc = "loop" /\ Top.how \in MappingKinds /\ Top.i < Len(Obj[Top.node].items)
    <2>1. pc = "loop" /\ Top.how \in MappingKinds /\ More
      BY DEF NextEntry, Looping
    <2>2. Top.i \in Nat /\ Len(Obj[Top.node].items) \in Nat
      BY <2>1, LoopFacts
    <2> QED
      BY <2>1, <2>2 DEF More, Items
  <1>2. /\ stack # <<>> /\ Top \in Frame /\ n \in Node /\ d \in 0..MaxDepth
        /\ Below \in Seq(Frame) /\ Obj[n].kind \in MappingKinds /\ Holds(out, TextIn(out))
        /\ TextIn(out) \in Seq(Cell)
    BY <1>1, LoopFacts, HoldsText
  <1>3. /\ j \in Nat /\ j \in 1..Len(Obj[n].items) /\ F \in Outcomes
        /\ \E e \in Nat : depth = Deeper(Top, e) /\ Ahead(Below, e, TextIn(out), Then(Entry(n, d, j), F))
    BY <1>1, <1>2, NextAhead DEF Element
  <1>4. PICK e \in Nat : depth = Deeper(Top, e) /\ Ahead(Below, e, TextIn(out), Then(Entry(n, d, j), F))
    BY <1>3
  <1>5. Obj[n].keys[j] \in Node /\ Obj[n].items[j] \in Node
    BY <1>2, <1>3, ElementsFacts
  <1>6. /\ K \in Outcomes /\ V \in Outcomes /\ WQ \in Outcomes /\ WC \in Outcomes
        /\ <<Quote>> \in Seq(Cell)
    BY <1>2, <1>5, OutcomeTyped, PunctuationCells, WholeType
  <1>7. /\ UNCHANGED <<target, root, depth>> /\ pc' = "call" /\ node' = Obj[n].keys[j]
        /\ out' = Put(out, <<Quote>>) /\ stack' = Append(Below, f)
    BY DEF NextEntry, Call, SetTop, Frozen
  <1>8. f \in Frame /\ f.how = Top.how /\ f.keyCall = TRUE
    BY <1>2, <1>3 DEF Frame
  <1>9. FrameRest(f, d) = Then(WC, Then(V, F))
    <2>1. f.how \notin WrapperKinds
      BY <1>1 DEF MappingKinds, WrapperKinds
    <2> QED
      BY <2>1 DEF FrameRest
  <1>10. Entry(n, d, j) = Then(WQ, Then(K, Then(WC, V)))
    BY DEF Entry
  <1>11. Holds(out', TextIn(out) \o <<Quote>>) /\ TextIn(out) \o <<Quote>> \in Seq(Cell)
    <2>1. Holds(out', TextIn(out) \o <<Quote>>)
      BY <1>2, <1>6, <1>7, HoldsPut
    <2> QED
      BY <2>1, HoldsText
  <1>12. d = depth /\ node' = Obj[n].keys[j] /\ K = OutcomeAt(Obj[n].keys[j], d, TRUE)
         /\ WQ = Whole(<<Quote>>)
    BY <1>7
  <1> HIDE DEF n, j, d, K, V, F, WQ, WC, f
  <1>13. Then(WC, V) \in Outcomes /\ Then(V, F) \in Outcomes /\ Then(K, Then(WC, V)) \in Outcomes
         /\ Then(WC, Then(V, F)) \in Outcomes /\ Then(K, Then(WC, Then(V, F))) \in Outcomes
    BY <1>3, <1>6, ThenType
  <1>14. Then(Entry(n, d, j), F) = Then(WQ, Then(K, Then(WC, Then(V, F))))
    <2>1. Then(Then(WQ, Then(K, Then(WC, V))), F) = Then(WQ, Then(Then(K, Then(WC, V)), F))
      BY <1>3, <1>6, <1>13, ThenAssociates
    <2>2. Then(Then(K, Then(WC, V)), F) = Then(K, Then(Then(WC, V), F))
      BY <1>3, <1>6, <1>13, ThenAssociates
    <2>3. Then(Then(WC, V), F) = Then(WC, Then(V, F))
      BY <1>3, <1>6, <1>13, ThenAssociates
    <2> QED
      BY <1>10, <2>1, <2>2, <2>3
  <1>15. Ahead(Below, e, TextIn(out), Then(Whole(<<Quote>>), Then(K, FrameRest(f, d))))
    BY <1>4, <1>9, <1>12, <1>14
  <1>16. Then(K, FrameRest(f, d)) \in Outcomes /\ FrameRest(f, d) \in Outcomes
    BY <1>9, <1>13
  <1>17. Ahead(Below, e, TextIn(out) \o <<Quote>>, Then(K, FrameRest(f, d)))
    BY <1>2, <1>6, <1>15, <1>16, AheadText
  <1>18. Ahead(stack', depth', TextIn(out) \o <<Quote>>, K) /\ AsKey' = TRUE
    BY <1>2, <1>4, <1>6, <1>7, <1>8, <1>11, <1>12, <1>16, <1>17, ReplaceAhead
  <1>19. K = OutcomeAt(node', depth', AsKey')
    BY <1>7, <1>12, <1>18
  <1> QED
    BY <1>7, <1>11, <1>18, <1>19, ToCall

LEMMA NextItemText ==
    ASSUME Core, PendingInv, TextInv, CommaInBuffer, NextItem
    PROVE  TextInv' /\ Grows
  <1> DEFINE n == Top.node
             j == Top.i + 1
             d == depth
             V == OutcomeAt(Obj[n].items[j], d, FALSE)
             F == Following(n, d, j)
             f == [node |-> n, how |-> Top.how, i |-> j, keyCall |-> FALSE]
  <1>1. pc = "loop" /\ Top.how \in ListKinds /\ Top.i < Len(Obj[Top.node].items)
    <2>1. pc = "loop" /\ Top.how \in ListKinds /\ More
      BY DEF NextItem, Looping
    <2>2. Top.i \in Nat /\ Len(Obj[Top.node].items) \in Nat
      BY <2>1, LoopFacts
    <2> QED
      BY <2>1, <2>2 DEF More, Items
  <1>2. /\ stack # <<>> /\ Top \in Frame /\ n \in Node /\ d \in 0..MaxDepth
        /\ Below \in Seq(Frame) /\ Obj[n].kind \notin MappingKinds /\ Holds(out, TextIn(out))
        /\ TextIn(out) \in Seq(Cell)
    BY <1>1, LoopFacts, HoldsText DEF MappingKinds, ListKinds
  <1>3. /\ j \in Nat /\ j \in 1..Len(Obj[n].items) /\ F \in Outcomes /\ V \in Outcomes
        /\ \E e \in Nat : depth = Deeper(Top, e) /\ Ahead(Below, e, TextIn(out), Then(V, F))
    BY <1>1, <1>2, NextAhead DEF Element
  <1>4. PICK e \in Nat : depth = Deeper(Top, e) /\ Ahead(Below, e, TextIn(out), Then(V, F))
    BY <1>3
  <1>5. /\ UNCHANGED <<target, root, depth, out>> /\ pc' = "call" /\ node' = Obj[n].items[j]
        /\ stack' = Append(Below, f)
    BY DEF NextItem, Call, SetTop, Frozen, Items
  <1>6. f \in Frame /\ f.how = Top.how /\ f.keyCall = FALSE
    BY <1>2, <1>3 DEF Frame
  <1>7. FrameRest(f, d) = F
    <2>1. f.how \notin WrapperKinds
      BY <1>1 DEF ListKinds, WrapperKinds
    <2> QED
      BY <2>1 DEF FrameRest
  <1>8. d = depth /\ V = OutcomeAt(Obj[n].items[j], d, FALSE)
    OBVIOUS
  <1> HIDE DEF n, j, d, V, F, f
  <1>9. Ahead(Below, e, TextIn(out), Then(V, FrameRest(f, d))) /\ FrameRest(f, d) \in Outcomes
    BY <1>3, <1>4, <1>7
  <1>10. Ahead(stack', depth', TextIn(out), V) /\ AsKey' = FALSE
    BY <1>2, <1>3, <1>4, <1>5, <1>6, <1>8, <1>9, ReplaceAhead
  <1>11. V = OutcomeAt(node', depth', AsKey') /\ Holds(out', TextIn(out))
    BY <1>2, <1>5, <1>8, <1>10
  <1> QED
    BY <1>5, <1>10, <1>11, ToCall

LEMMA CloseText ==
    ASSUME Core, PendingInv, TextInv, CommaInBuffer, Close
    PROVE  TextInv' /\ Grows
  <1>1. pc = "loop" /\ pc' = "return" /\ UNCHANGED <<target, root>> /\ stack' = Below /\ ~More
        /\ depth' = depth - 1
        /\ out' = Put(IF Items = <<>> THEN out ELSE Retract(out), <<Closer>>)
    BY DEF Close, Looping, Pop, Frozen
  <1>2. /\ Top.node \in Node /\ Top.i \in Nat /\ Obj[Top.node].kind = Top.how
        /\ Len(Obj[Top.node].items) \in Nat /\ Top.i <= Len(Obj[Top.node].items)
        /\ Below \in Seq(Frame) /\ depth \in Nat
    BY <1>1, LoopFacts, CoreFacts
  <1>3. PICK w \in Seq(Cell), e \in Nat :
           /\ depth = e + 1
           /\ Ahead(Below, e, w, Following(Top.node, depth, Top.i))
           /\ Holds(IF Top.i = 0 THEN out ELSE Retract(out), w)
    BY <1>1, LoopFacts
  <1>4. Top.i = Len(Obj[Top.node].items)
    BY <1>1, <1>2 DEF More, Items
  <1>5. Items = <<>> <=> Top.i = 0
    <2>1. Obj[Top.node].items \in Seq(Node)
      BY <1>2, ObjectFacts
    <2> QED
      BY <1>4, <2>1, EmptySeq DEF Items
  <1>6. CloserOf(Top.node) = Closer
    BY <1>2 DEF CloserOf, Closer
  <1>7. Following(Top.node, depth, Top.i) = Whole(<<Closer>>)
    BY <1>2, <1>4, <1>6, FollowingLast
  <1>8. <<Closer>> \in Seq(Cell)
    BY PunctuationCells DEF Closer
  <1>9. Holds(out', w \o <<Closer>>)
    BY <1>1, <1>3, <1>5, <1>8, HoldsPut
  <1>10. Ahead(Below, e, w, Whole(<<Closer>>))
    BY <1>3, <1>7
  <1>11. Ahead(Below, e, w \o <<Closer>>, Nothing)
    BY <1>2, <1>8, <1>10, AheadAll
  <1>12. depth' = e
    BY <1>1, <1>3
  <1> QED
    BY <1>1, <1>9, <1>11, <1>12, ToReturn

LEMMA LoopsText ==
    ASSUME Core, PendingInv, TextInv, CommaInBuffer, Loops
    PROVE  TextInv' /\ Grows
  <1>1. CASE NextRaises \/ BadItem
    <2>1. /\ pc = "loop" /\ pc' = "fail" /\ exc'.type = "Callback"
          /\ UNCHANGED <<target, root, out>>
      BY <1>1 DEF NextRaises, BadItem, Looping, Fail, Raise, Frozen, PendingInv, Pending
    <2>2. stack \in Seq(Frame) /\ Nothing \in Outcomes
      BY CoreFacts, NothingType
    <2>3. PICK w : /\ Ahead(stack, depth, w, Nothing)
                   /\ Holds(IF Top.i = 0 THEN out ELSE Retract(out), w)
      BY <2>1, LoopFacts
    <2>4. \E p : Holds(p, w) /\ out'.written = p.written
      BY <2>1, <2>3 DEF Retract
    <2> QED
      BY <2>1, <2>2, <2>3, <2>4, ToFail
  <1> QED
    BY <1>1, NextEntryText, NextItemText, CloseText DEF Loops

-----------------------------------------------------------------------------

(* A nested call has returned: what the frame on top owes follows. *)
LEMMA ReturnFacts ==
    ASSUME Core, PendingInv, TextInv, pc = "return"
    PROVE  /\ out \in Buffer /\ stack \in Seq(Frame) /\ depth \in 0..MaxDepth
           /\ Holds(out, TextIn(out)) /\ TextIn(out) \in Seq(Cell)
           /\ Ahead(stack, depth, TextIn(out), Nothing) /\ Nothing \in Outcomes
           /\ stack # <<>> =>
                 /\ Top \in Frame /\ Below \in Seq(Frame)
                 /\ FrameRest(Top, depth) \in Outcomes
                 /\ \E e \in Nat : /\ depth = Deeper(Top, e)
                                   /\ Ahead(Below, e, TextIn(out), FrameRest(Top, depth))
  <1>1. out \in Buffer /\ stack \in Seq(Frame) /\ depth \in 0..MaxDepth
    BY CoreFacts
  <1>2. Holds(out, TextIn(out)) /\ TextIn(out) \in Seq(Cell) /\ Nothing \in Outcomes
    BY <1>1, HoldsOut, TextInType, NothingType
  <1>3. Ahead(stack, depth, TextIn(out), Nothing)
    BY DEF TextInv
  <1>4. ASSUME stack # <<>>
        PROVE  /\ Top \in Frame /\ Below \in Seq(Frame)
               /\ FrameRest(Top, depth) \in Outcomes
               /\ \E e \in Nat : /\ depth = Deeper(Top, e)
                                 /\ Ahead(Below, e, TextIn(out), FrameRest(Top, depth))
    BY <1>1, <1>2, <1>3, <1>4, TopFacts, TopAhead
  <1> QED
    BY <1>1, <1>2, <1>3, <1>4

LEMMA KeyDoneText ==
    ASSUME Core, PendingInv, TextInv, KeyDone
    PROVE  TextInv' /\ Grows
  <1> DEFINE n == Top.node
             j == Top.i
             d == depth
             V == OutcomeAt(Obj[n].items[j], d, FALSE)
             F == Following(n, d, j)
             c == <<Quote, ":">>
             w == TextIn(out)
             f == [node |-> n, how |-> Top.how, i |-> j, keyCall |-> FALSE]
  <1>1. /\ pc = "return" /\ stack # <<>> /\ Top.how \in MappingKinds /\ Top.keyCall
        /\ UNCHANGED <<target, root, depth>> /\ pc' = "call" /\ node' = Obj[n].items[j]
        /\ out' = Put(out, c) /\ stack' = Append(Below, f)
    BY DEF KeyDone, Returned, Call, SetTop, Frozen, Items
  <1>2. /\ out \in Buffer /\ d \in 0..MaxDepth /\ Holds(out, w) /\ w \in Seq(Cell)
        /\ Top \in Frame /\ Below \in Seq(Frame)
        /\ \E e \in Nat : depth = Deeper(Top, e) /\ Ahead(Below, e, w, FrameRest(Top, depth))
    BY <1>1, ReturnFacts
  <1>3. PICK e \in Nat : depth = Deeper(Top, e) /\ Ahead(Below, e, w, FrameRest(Top, depth))
    BY <1>2
  <1>4. Top.how \in Containers /\ Top.how \notin WrapperKinds
    BY <1>1 DEF Containers, MappingKinds, WrapperKinds
  <1>5. n \in Node /\ j \in Nat /\ j \in 1..Len(Obj[n].items) /\ j \in 0..Len(Obj[n].items)
    <2>1. n \in Node /\ j \in Nat /\ j >= 1 /\ j <= Len(Obj[n].items)
      BY <1>1, <1>4, TopObject
    <2>2. Len(Obj[n].items) \in Nat
      BY <2>1, ObjectFacts
    <2> QED
      BY <2>1, <2>2
  <1>6. Obj[n].items[j] \in Node
    BY <1>5, ElementsFacts
  <1>7. V \in Outcomes /\ F \in Outcomes
    BY <1>2, <1>5, <1>6, OutcomeTyped, FollowingTyped
  <1>8. c \in Seq(Cell)
    BY PunctuationCells
  <1>9. FrameRest(Top, d) = Then(Whole(c), Then(V, F)) /\ FrameRest(f, d) = F
    BY <1>1, <1>4 DEF FrameRest
  <1>10. f \in Frame /\ f.how = Top.how /\ f.keyCall = FALSE
    BY <1>2, <1>5 DEF Frame
  <1>11. d = depth /\ node' = Obj[n].items[j] /\ V = OutcomeAt(Obj[n].items[j], d, FALSE)
    BY <1>1
  <1> HIDE DEF n, j, d, V, F, c, w, f
  <1>12. Then(V, F) \in Outcomes
    BY <1>7, ThenType
  <1>13. Ahead(Below, e, w \o c, Then(V, F))
    BY <1>2, <1>3, <1>8, <1>9, <1>11, <1>12, AheadText
  <1>14. Holds(out', w \o c) /\ w \o c \in Seq(Cell)
    BY <1>1, <1>2, <1>8, HoldsPut, ConcatProperties
  <1>15. Ahead(stack', depth', w \o c, V) /\ AsKey' = FALSE
    BY <1>1, <1>2, <1>3, <1>7, <1>9, <1>10, <1>11, <1>13, <1>14, ReplaceAhead
  <1>16. V = OutcomeAt(node', depth', AsKey')
    BY <1>1, <1>11, <1>15
  <1> QED
    BY <1>1, <1>14, <1>15, <1>16, ToCall

LEMMA ReturnsText ==
    ASSUME Core, PendingInv, TextInv, Returns
    PROVE  TextInv' /\ Grows
  <1>1. CASE FieldRaises
    <2>1. /\ pc = "return" /\ pc' = "fail" /\ exc'.type = "Callback" /\ UNCHANGED <<target, root>>
          /\ out' = Put(out, <<Quote, ":">>)
      BY <1>1 DEF FieldRaises, Returned, Fail, Raise, Frozen
    <2>2. out'.written = out.written
      BY <2>1 DEF Put
    <2> QED
      BY <2>1, <2>2, ReturnFacts, ToFail
  <1>2. CASE ItemDone
    <2>1. /\ pc = "return" /\ pc' = "loop" /\ stack # <<>> /\ Top.how \in Containers
          /\ ~Top.keyCall /\ UNCHANGED <<target, root, stack, depth>>
          /\ out' = Put(out, <<",">>)
      BY <1>2 DEF ItemDone, Returned, Separated, Frozen, Containers
    <2>2. /\ Ahead(stack, depth, TextIn(out), Nothing) /\ TextIn(out) \in Seq(Cell)
          /\ Holds(out, TextIn(out)) /\ out \in Buffer
      BY <2>1, ReturnFacts
    <2>3. Top.i # 0
      <3>1. Top.i \in Nat /\ Top.i >= 1
        BY <2>1, TopObject
      <3> QED
        BY <3>1
    <2>4. Separator(Top.i) = <<",">> /\ <<",">> \in Seq(Cell)
      BY <2>3, PunctuationCells DEF Separator
    <2>5. Holds(out', TextIn(out) \o <<",">>)
      BY <2>1, <2>2, <2>4, HoldsPut
    <2>6. Top' = Top
      BY <2>1 DEF Top
    <2> QED
      BY <2>1, <2>2, <2>4, <2>5, <2>6, ToLoop
  <1>3. CASE WrapperDone
    <2>1. /\ pc = "return" /\ pc' = "return" /\ stack # <<>> /\ Top.how \in WrapperKinds
          /\ stack' = Below /\ UNCHANGED <<target, root, out>>
          /\ depth' = IF Top.how = "Enum" THEN depth ELSE depth - 1
      BY <1>3 DEF WrapperDone, Returned, Pop, Frozen
    <2>2. PICK e \in Nat : depth = Deeper(Top, e) /\ Ahead(Below, e, TextIn(out), FrameRest(Top, depth))
      BY <2>1, ReturnFacts
    <2>3. FrameRest(Top, depth) = Nothing
      BY <2>1 DEF FrameRest
    <2>4. depth' = e
      BY <2>1, <2>2 DEF Deeper
    <2>5. Holds(out', TextIn(out))
      BY <2>1, ReturnFacts
    <2> QED
      BY <2>1, <2>2, <2>3, <2>4, <2>5, ToReturn
  <1>4. CASE CallFailed
    <2>1. /\ pc = "fail" /\ pc' = "fail" /\ UNCHANGED <<target, root, out>>
          /\ exc' = exc \/ (exc = NoExc /\ exc'.type = "Recursion")
      BY <1>4 DEF CallFailed, RecursionOccured, Frozen
    <2>2. Begins(out.written, Asked.text) /\ Explained /\ out \in Buffer
      BY <2>1, CoreFacts DEF TextInv
    <2>3. Asked' = Asked /\ out' = out /\ target' = target
      BY <2>1 DEF Asked
    <2>4. Explained'
      BY <2>1, <2>2, <2>3 DEF Explained, NoExc
    <2>5. Grows
      BY <2>2, <2>3, TextInType, BeginsFacts DEF Grows
    <2> QED
      BY <2>1, <2>2, <2>3, <2>4, <2>5 DEF TextInv
  <1> QED
    BY <1>1, <1>2, <1>3, <1>4, KeyDoneText DEF Returns

LEMMA EndsText ==
    ASSUME Core, PendingInv, TextInv, Ends
    PROVE  TextInv' /\ Grows
  <1>1. CASE Finish
    <2>1. /\ pc = "return" /\ pc' = "returned" /\ stack = <<>> /\ UNCHANGED <<target, root>>
          /\ out' = IF target = "file" THEN Flushed(out) ELSE out
      BY <1>1 DEF Finish, Frozen
    <2>2. /\ out \in Buffer /\ Holds(out, TextIn(out)) /\ TextIn(out) \in Seq(Cell)
          /\ Ahead(<<>>, depth, TextIn(out), Nothing)
      BY <2>1, ReturnFacts
    <2>3. Asked = Whole(TextIn(out)) /\ Asked' = Asked
      BY <2>1, <2>2, AheadEnds DEF Asked
    <2>4. target \in {"memory", "file"}
      BY DEF Core, TypeOK
    <2>5. CASE target = "file"
      <3>1. Holds(out', TextIn(out)) /\ out'.written = TextIn(out)
        BY <2>1, <2>2, <2>5, HoldsFlushed
      <3> QED
        BY <2>1, <2>3, <2>5, <3>1 DEF TextInv, Grows, Holds
    <2>6. CASE target = "memory"
      <3>1. out' = out /\ out.written = <<>> /\ out.text \in Seq(Cell)
        BY <2>1, <2>2, <2>6, TextInType DEF TextInv
      <3>2. TextIn(out) = out.text
        BY <3>1, ConcatEmptySeq DEF TextIn
      <3> QED
        BY <2>1, <2>2, <2>3, <2>6, <3>1, <3>2 DEF TextInv, Grows, Holds
    <2> QED
      BY <2>4, <2>5, <2>6
  <1>2. CASE FinishFails
    <2>1. /\ pc = "return" /\ pc' = "raised" /\ UNCHANGED <<target, root, out, stack, depth>>
          /\ exc'.type \in {"Callback", "NoMemory"}
      BY <1>2 DEF FinishFails, Raise, Frozen
    <2>2. /\ out \in Buffer /\ stack \in Seq(Frame) /\ Nothing \in Outcomes
          /\ Holds(out, TextIn(out)) /\ Ahead(stack, depth, TextIn(out), Nothing)
          /\ TextIn(out) \in Seq(Cell)
      BY <2>1, ReturnFacts
    <2>3. Asked' = Asked /\ out' = out /\ target' = target
      BY <2>1 DEF Asked
    <2>4. Begins(out.written, TextIn(out)) /\ out.written \in Seq(Cell)
      BY <2>2, TextInType
    <2>5. Begins(out.written, Asked.text)
      <3>1. PICK u \in Seq(Cell) : Asked.text = TextIn(out) \o u
        BY <2>2, AheadBegins DEF Begins
      <3> DEFINE v == TextIn(out) \o u
                 q == out.written
                 t == TextIn(out)
      <3>2. v \in Seq(Cell) /\ Begins(t, v) /\ q \in Seq(Cell) /\ Begins(q, t) /\ Asked.text = v
        BY <2>2, <2>4, <3>1, ConcatProperties, BeginsFacts
      <3>3. t \in Seq(Cell)
        BY <2>2
      <3> HIDE DEF v, q, t
      <3>4. Begins(q, v)
        BY <3>2, <3>3, BeginsFacts
      <3> QED
        BY <3>2, <3>4 DEF q
    <2>6. Explained'
      BY <2>1 DEF Explained, NoExc
    <2>7. Grows
      BY <2>3, <2>4, BeginsFacts DEF Grows
    <2> QED
      BY <2>1, <2>3, <2>5, <2>6, <2>7 DEF TextInv
  <1>3. CASE ReturnNull
    <2>1. /\ pc = "fail" /\ pc' = "raised" /\ UNCHANGED <<target, root, out, exc>>
      BY <1>3 DEF ReturnNull, Frozen
    <2>2. Asked' = Asked /\ out' = out /\ target' = target /\ exc' = exc
      BY <2>1 DEF Asked
    <2>3. Explained'
      BY <2>1, <2>2 DEF TextInv, Explained
    <2>4. Grows
      BY <2>2, CoreFacts, TextInType, BeginsFacts DEF Grows
    <2> QED
      BY <2>1, <2>2, <2>3, <2>4 DEF TextInv
  <1> QED
    BY <1>1, <1>2, <1>3 DEF Ends

LEMMA TextNext ==
    ASSUME Core, PendingInv, TextInv, CommaInBuffer, [Next]_vars
    PROVE  TextInv' /\ Grows
  <1>1. CASE UNCHANGED vars
    <2>1. /\ UNCHANGED <<target, root, out, stack, depth, pc, node, exc, refs>>
      BY <1>1 DEF vars
    <2>2. Asked' = Asked /\ AsKey' = AsKey /\ Top' = Top
      BY <2>1 DEF Asked, AsKey, Top
    <2>3. TextInv'
      BY <2>1, <2>2 DEF TextInv, Ahead, Explained
    <2>4. Grows
      BY <2>1, CoreFacts, TextInType, BeginsFacts DEF Grows
    <2> QED
      BY <2>3, <2>4
  <1> QED
    BY <1>1, LeavesText, EntriesText, WrappersText, LoopsText, ReturnsText, EndsText
       DEF Next, Over

-----------------------------------------------------------------------------
(* What the caller has seen is always the beginning of the text asked for.  *)

HandedInv ==
    Handed \in Seq(Cell) /\ Begins(Handed, Asked.text) /\ Asked.text \in Seq(Cell)

LEMMA HandedBegins ==
    ASSUME Core, PendingInv, TextInv, CommaInBuffer
    PROVE  HandedInv
  <1>1. out \in Buffer /\ stack \in Seq(Frame) /\ root \in Node /\ 0 \in 0..MaxDepth
        /\ target \in {"memory", "file"}
    BY ObjectAssumption DEF Core, TypeOK
  <1>2. Asked \in Outcomes /\ Asked.text \in Seq(Cell)
    BY <1>1, OutcomeTyped DEF Asked, Outcomes
  <1>3. out.written \in Seq(Cell) /\ out.text \in Seq(Cell) /\ Begins(out.written, TextIn(out))
        /\ TextIn(out) \in Seq(Cell)
    BY <1>1, TextInType
  <1>4. pc = "returned" => Asked.text = Handed
    BY <1>1 DEF TextInv, Handed, Whole, Promise!Whole
  <1>5. ASSUME NEW w \in Seq(Cell), NEW d, NEW x \in Outcomes, Ahead(stack, d, w, x),
               Begins(out.written, w)
        PROVE  Begins(out.written, Asked.text)
    <2>1. Begins(w, Asked.text)
      BY <1>1, <1>5, AheadBegins
    <2> QED
      BY <1>2, <1>3, <1>5, <2>1, BeginsFacts
  <1>6. pc # "returned" => Begins(out.written, Asked.text)
    <2>1. CASE pc = "call"
      <3>1. /\ Ahead(stack, depth, TextIn(out), OutcomeAt(node, depth, AsKey))
            /\ OutcomeAt(node, depth, AsKey) \in Outcomes
        BY <2>1, CallFacts
      <3> QED
        BY <1>3, <1>5, <3>1
    <2>2. CASE pc = "loop"
      <3>1. PICK w \in Seq(Cell) : /\ Ahead(stack, depth, w, Nothing)
                                   /\ Holds(IF Top.i = 0 THEN out ELSE Retract(out), w)
        BY <2>2, LoopFacts
      <3>2. Begins(out.written, w)
        <4>1. Retract(out).written = out.written
          BY DEF Retract
        <4> QED
          BY <3>1, <4>1, HoldsText
      <3> QED
        BY <1>5, <3>1, <3>2, NothingType
    <2>3. CASE pc = "return"
      BY <1>3, <1>5, <2>3, ReturnFacts
    <2>4. CASE pc \in {"fail", "raised"}
      BY <2>4 DEF TextInv
    <2> QED
      BY <2>1, <2>2, <2>3, <2>4 DEF Core, TypeOK
  <1>7. CASE pc = "returned"
    <2>1. Handed \in Seq(Cell)
      BY <1>3, <1>7 DEF Handed
    <2> QED
      BY <1>2, <1>4, <1>7, <2>1, BeginsFacts DEF HandedInv
  <1>8. CASE pc # "returned"
    <2>1. Handed = out.written \/ Handed = <<>>
      BY <1>8 DEF Handed
    <2>2. Begins(<<>>, Asked.text) /\ <<>> \in Seq(Cell)
      BY <1>2, BeginsFacts, EmptySeq
    <2> QED
      BY <1>2, <1>3, <1>6, <1>8, <2>1, <2>2 DEF HandedInv
  <1> QED
    BY <1>7, <1>8

(* Init and the steps of the encoder are those of EncodeCall. *)
LEMMA CallInitKept ==
    ASSUME Init
    PROVE  Promise!CallInit
  BY DEF Init, Promise!CallInit, Handed, Verdict

LEMMA StepOfCall ==
    ASSUME HandedInv, Core', TextInv', HandedInv', NullMeansException', Grows, Next
    PROVE  [Promise!CallNext]_(Promise!callVars)
  <1>1. root' = root
    BY DEF Next, Leaves, LookupClears, EncodeLeaf, LeafNoRoom, LeafRaises, Refuse, Entries, EncodeEmptyDict,
           EnterDict, EnterItemsView, EnterDataclass, EnterList, EnterIterable, EnterNoRoom,
           EnterRaises, TakenForView, TakenForViewNoRoom, Wrappers, CallWrapper, CallEnumValue, UnwrapRaises, Loops, NextEntry,
           NextItem, NextRaises, BadItem, Close, Returns, KeyDone, FieldRaises, ItemDone,
           WrapperDone, CallFailed, Ends, Finish, FinishFails, ReturnNull, Over, Frozen, vars
  <1>2. target' = target
    BY DEF Next, Leaves, LookupClears, EncodeLeaf, LeafNoRoom, LeafRaises, Refuse, Entries, EncodeEmptyDict,
           EnterDict, EnterItemsView, EnterDataclass, EnterList, EnterIterable, EnterNoRoom,
           EnterRaises, TakenForView, TakenForViewNoRoom, Wrappers, CallWrapper, CallEnumValue, UnwrapRaises, Loops, NextEntry,
           NextItem, NextRaises, BadItem, Close, Returns, KeyDone, FieldRaises, ItemDone,
           WrapperDone, CallFailed, Ends, Finish, FinishFails, ReturnNull, Over, Frozen, vars
  <1>3. Promise!TextOf(root) = Asked /\ Asked' = Asked
    BY <1>1 DEF Promise!TextOf, Asked, OutcomeAt, Outcome
  <1>4. /\ Handed \in Seq(Cell) /\ Begins(Handed, Asked.text) /\ Asked.text \in Seq(Cell)
        /\ Handed' \in Seq(Cell) /\ Begins(Handed', Asked.text)
    <2>1. Handed' \in Seq(Cell) /\ Begins(Handed', Asked'.text)
      BY DEF HandedInv
    <2> QED
      BY <1>3, <2>1 DEF HandedInv
  <1>5. CASE pc \in {"returned", "raised"}
    <2>1. UNCHANGED vars
      BY <1>5 DEF Next, Leaves, LookupClears, EncodeLeaf, LeafNoRoom, LeafRaises, Refuse, CallingLeaf, Entries,
             EncodeEmptyDict, EnterDict, EnterItemsView, EnterDataclass, EnterList,
             EnterIterable, EnterNoRoom, EnterRaises, TakenForView, TakenForViewNoRoom, Calling, Dispatched, Wrappers, CallWrapper,
             CallEnumValue, UnwrapRaises, Loops, NextEntry, NextItem, NextRaises, BadItem,
             Close, Looping, Returns, KeyDone, FieldRaises, ItemDone, WrapperDone, Returned,
             CallFailed, Ends, Finish, FinishFails, ReturnNull, Over
    <2> QED
      BY <2>1 DEF vars, Promise!callVars, Handed, Verdict
  <1>6. CASE pc \notin {"returned", "raised"} /\ pc' \notin {"returned", "raised"}
    <2>1. Verdict = "running" /\ Verdict' = "running"
      BY <1>6 DEF Verdict
    <2>2. Begins(Handed, Handed')
      <3>1. CASE target = "file"
        BY <1>2, <3>1 DEF Handed, Grows
      <3>2. CASE target # "file"
        <4>1. Handed = <<>> /\ Handed' = <<>>
          BY <1>2, <1>6, <3>2 DEF Handed
        <4> QED
          BY <4>1, EmptySeq, BeginsFacts
      <3> QED
        BY <3>1, <3>2
    <2>3. Promise!IsPrefix(Handed, Handed') /\ Promise!IsPrefix(Handed', Asked.text)
      BY <1>4, <2>2, BeginsFacts
    <2> QED
      BY <1>1, <1>3, <2>1, <2>3 DEF Promise!CallNext, Promise!Send, Promise!Sends
  <1>7. CASE pc \notin {"returned", "raised"} /\ pc' = "returned"
    <2>1. Verdict = "running" /\ Verdict' = "ok"
      BY <1>7 DEF Verdict
    <2>2. Asked.why = "none" /\ Handed' = Asked.text
      <3>1. Asked = Whole(IF target = "file" THEN out'.written ELSE out'.text)
        BY <1>2, <1>3, <1>7 DEF TextInv
      <3>2. Handed' = IF target = "file" THEN out'.written ELSE out'.text
        BY <1>2, <1>7 DEF Handed
      <3> QED
        BY <3>1, <3>2 DEF Whole, Promise!Whole
    <2> QED
      BY <1>1, <1>3, <2>1, <2>2 DEF Promise!CallNext, Promise!Return
  <1>8. CASE pc \notin {"returned", "raised"} /\ pc' = "raised"
    <2>1. Verdict = "running" /\ Verdict' = exc'.type
      BY <1>8 DEF Verdict
    <2>2. UNCHANGED out
      BY <1>8 DEF Next, Leaves, LookupClears, EncodeLeaf, LeafNoRoom, LeafRaises, Refuse, Entries, EncodeEmptyDict,
           EnterDict, EnterItemsView, EnterDataclass, EnterList, EnterIterable, EnterNoRoom,
           EnterRaises, TakenForView, TakenForViewNoRoom, Enter, EnterFails, Wrappers, CallWrapper, CallEnumValue, UnwrapRaises,
           Unwrap, Calling, CallingLeaf, Dispatched, Fail, Call, Loops, NextEntry, NextItem, NextRaises,
           BadItem, Close, Returns, KeyDone, FieldRaises, ItemDone, WrapperDone, Returned,
           CallFailed, Ends, Finish, FinishFails, ReturnNull, Over
    <2>3. Handed' = Handed
      BY <1>2, <1>8, <2>2 DEF Handed
    <2>4. exc' # NoExc /\ exc' \in Exceptions
      BY <1>8 DEF NullMeansException, Core, TypeOK
    <2>5. exc'.type \in {"NoMemory", "Callback", "Encode", "Recursion"}
      BY <1>8, <2>4 DEF TextInv, Explained, Exceptions
    <2>6. exc'.type \in {"Encode", "Recursion"} => Asked.why = exc'.type
      BY <1>3, <1>8 DEF TextInv, Explained
    <2>7. CASE exc'.type \in {"Encode", "Recursion"}
      BY <1>1, <1>3, <2>1, <2>3, <2>6, <2>7 DEF Promise!CallNext, Promise!Refuse
    <2>8. CASE exc'.type \in {"NoMemory", "Callback"}
      BY <1>1, <2>1, <2>3, <2>8 DEF Promise!CallNext, Promise!Break
    <2> QED
      BY <2>5, <2>7, <2>8
  <1> QED
    BY <1>5, <1>6, <1>7, <1>8

(* Whatever is flushed, retracted, grown or reported on the way, the caller *)
(* of dumps, dumpb or dump sees a call that keeps the promise of EncodeCall:*)
(* the full text and only then success, a beginning of it in the file at    *)
(* any time, and a refusal only of an object that is to be refused, for the *)
(* reason it is to be refused for.                                          *)
THEOREM PromiseKept == Spec => ImplementsCall
  <1> DEFINE I == Core /\ PendingInv /\ TextInv /\ CommaInBuffer
  <1>1. Init => I
    BY CoreInit, PendingInit, TextInit DEF Init, CommaInBuffer
  <1>2. I /\ [Next]_vars => I'
    BY CoreNext, PendingNext, TextNext, CommaNext
  <1>3. I => HandedInv /\ NullMeansException
    BY HandedBegins DEF Core, SomeoneReports, NullMeansException, PendingInv
  <1>4. /\ I /\ HandedInv /\ I' /\ HandedInv' /\ NullMeansException' /\ [Next]_vars
        => [Promise!CallNext]_(Promise!callVars)
    <2>1. ASSUME I, HandedInv, I', HandedInv', NullMeansException', Next
          PROVE  [Promise!CallNext]_(Promise!callVars)
      BY <2>1, TextNext, StepOfCall
    <2>2. ASSUME UNCHANGED vars PROVE UNCHANGED Promise!callVars
      BY <2>2 DEF vars, Promise!callVars, Handed, Verdict
    <2> QED
      BY <2>1, <2>2
  <1>5. Init => Promise!CallInit
    BY CallInitKept
  <1> QED
    BY <1>1, <1>2, <1>3, <1>4, <1>5, PTL DEF Spec, ImplementsCall, Promise!CallSpec
=====
