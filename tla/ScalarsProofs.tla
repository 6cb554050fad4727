---------------------------- MODULE ScalarsProofs ----------------------------
(***************************************************************************)
(* For every set of inputs, width of the ints and size of floatBuffer: the *)
(* readers of numbers, strings and dates stay within the text, and a       *)
(* number is read as it is written.                                        *)
(***************************************************************************)
EXTENDS Scalars, SequenceLemmas

-----------------------------------------------------------------------------
(* The text. *)

LEMMA MaxUnicodeFacts == MaxUnicode \in Nat /\ 255 < MaxUnicode
  BY SMT DEF MaxUnicode

LEMMA WidestIs ==
    ASSUME NEW kind
    PROVE  Widest(kind) \in Nat /\ Widest(kind) <= MaxUnicode
  <1>1. CASE kind = "ucs4"
    BY <1>1, SMT DEF Widest, MaxUnicode
  <1>2. CASE kind = "ucs2"
    BY <1>2, SMT DEF Widest, MaxUnicode
  <1>3. CASE kind # "ucs4" /\ kind # "ucs2"
    BY <1>3, SMT DEF Widest, MaxUnicode
  <1> QED
    BY <1>1, <1>2, <1>3

(* A character that is not NUL is one of the text. *)
LEMMA TextFacts ==
    ASSUME input \in Inputs
    PROVE  /\ Text \in Seq(0..MaxUnicode) /\ Len(Text) \in Nat /\ End \in Nat \ {0}
           /\ \A i : At(i) \in 0..MaxUnicode
           /\ \A i : At(i) # NUL => i \in 1..Len(Text)
           /\ \A i : IsDigit(i) => i \in 1..Len(Text)
  <1>1. Text \in Seq(0..MaxUnicode)
    <2>1. Text \in Seq(0..Widest(input.kind)) /\ input.kind \in {"ucs1", "ucs2", "ucs4", "bytes"}
      BY InputAssumption DEF Text
    <2>2. Widest(input.kind) \in Nat /\ Widest(input.kind) <= MaxUnicode
      BY <2>1, WidestIs
    <2>3. 0..Widest(input.kind) \subseteq 0..MaxUnicode
      BY <2>2, MaxUnicodeFacts
    <2> QED
      BY <2>1, <2>3, SeqMonotonic
  <1>2. Len(Text) \in Nat /\ End \in Nat \ {0}
    BY <1>1, LenProperties DEF End
  <1>3. ASSUME NEW i PROVE At(i) \in 0..MaxUnicode /\ (At(i) # NUL => i \in 1..Len(Text))
    BY <1>1, <1>2, ElementOfSeq, MaxUnicodeFacts DEF At, NUL
  <1> QED
    BY <1>1, <1>2, <1>3 DEF IsDigit, Digits, NUL

(* A stretch of characters that all lack a property ends at the first that  *)
(* has it, and at the end of the text if there is none.                     *)
LEMMA StretchEnds ==
    ASSUME input \in Inputs, NEW i \in 1..End, NEW S \in SUBSET (i..End), End \in S
    PROVE  \E j \in i..End : j \in S /\ \A k \in i..(j - 1) : k \notin S
  <1>1. End \in Nat \ {0} /\ i \in Nat
    BY TextFacts
  <1>2. PICK j \in S : \A k \in S : j <= k
    BY <1>1, LeastNumber
  <1>3. j \in i..End
    OBVIOUS
  <1>4. \A k \in i..(j - 1) : k \notin S
    BY <1>1, <1>2, <1>3
  <1> QED
    BY <1>2, <1>3, <1>4

LEMMA DigitsEnd ==
    ASSUME input \in Inputs, NEW i \in 1..End
    PROVE  /\ AfterDigits(i) \in i..End
           /\ ~IsDigit(AfterDigits(i))
           /\ \A k \in i..(AfterDigits(i) - 1) : IsDigit(k)
  <1> DEFINE P(j) == ~IsDigit(j) /\ \A k \in i..(j - 1) : IsDigit(k)
  <1>1. End \in i..End /\ ~IsDigit(End)
    BY TextFacts DEF IsDigit, At, End, Digits, NUL
  <1>2. \E j \in i..End : P(j)
    <2> DEFINE S == {j \in i..End : ~IsDigit(j)}
    <2>1. PICK j \in i..End : j \in S /\ \A k \in i..(j - 1) : k \notin S
      <3>1. S \in SUBSET (i..End) /\ End \in S
        BY <1>1
      <3> HIDE DEF S
      <3> QED
        BY <3>1, StretchEnds
    <2>2. \A k \in i..(j - 1) : k \in i..End
      BY TextFacts, <2>1
    <2> QED
      BY <2>1, <2>2
  <1>3. AfterDigits(i) = CHOOSE j \in i..End : P(j)
    BY DEF AfterDigits
  <1> HIDE DEF P
  <1>4. AfterDigits(i) \in i..End /\ P(AfterDigits(i))
    BY <1>2, <1>3
  <1> QED
    BY <1>4 DEF P

LEMMA SliceEnds ==
    ASSUME input \in Inputs, NEW i \in 1..End, NEW stops
    PROVE  /\ SliceEnd(i, stops) \in i..End
           /\ SliceEnd(i, stops) = End \/ At(SliceEnd(i, stops)) \in stops
           /\ \A k \in i..(SliceEnd(i, stops) - 1) : At(k) \notin stops
  <1> DEFINE P(j) == /\ j = End \/ At(j) \in stops
                     /\ \A k \in i..(j - 1) : At(k) \notin stops
  <1>1. End \in i..End
    BY TextFacts
  <1>2. \E j \in i..End : P(j)
    <2> DEFINE S == {j \in i..End : j = End \/ At(j) \in stops}
    <2>1. PICK j \in i..End : j \in S /\ \A k \in i..(j - 1) : k \notin S
      <3>1. S \in SUBSET (i..End) /\ End \in S
        BY <1>1
      <3> HIDE DEF S
      <3> QED
        BY <3>1, StretchEnds
    <2>2. \A k \in i..(j - 1) : k \in i..End
      BY TextFacts, <2>1
    <2> QED
      BY <2>1, <2>2
  <1>3. SliceEnd(i, stops) = CHOOSE j \in i..End : P(j)
    BY DEF SliceEnd
  <1> HIDE DEF P
  <1>4. SliceEnd(i, stops) \in i..End /\ P(SliceEnd(i, stops))
    BY <1>2, <1>3
  <1> QED
    BY <1>4 DEF P

(* A stretch of the text. *)
LEMMA Stretch ==
    ASSUME input \in Inputs, NEW i \in 1..End, NEW j \in i..End
    PROVE  /\ SubSeq(Text, i, j - 1) \in Seq(0..MaxUnicode)
           /\ Len(SubSeq(Text, i, j - 1)) = j - i
           /\ \A k \in 1..(j - i) : SubSeq(Text, i, j - 1)[k] = At(i + k - 1)
  <1>1. /\ Text \in Seq(0..MaxUnicode) /\ Len(Text) \in Nat /\ End = Len(Text) + 1
        /\ \A k : At(k) \in 0..MaxUnicode
    BY TextFacts DEF End
  <1>2. \A k \in i..(j - 1) : Text[k] \in 0..MaxUnicode /\ Text[k] = At(k)
    BY <1>1 DEF At
  <1>3. /\ SubSeq(Text, i, j - 1) \in Seq(0..MaxUnicode)
        /\ Len(SubSeq(Text, i, j - 1)) = IF i <= j - 1 THEN j - 1 - i + 1 ELSE 0
        /\ \A k \in 1..(j - 1 - i + 1) : SubSeq(Text, i, j - 1)[k] = Text[i + k - 1]
    BY <1>1, <1>2, SubSeqProperties
  <1> QED
    BY <1>1, <1>2, <1>3

-----------------------------------------------------------------------------
(* The inductive invariant of the types: TypeOK, the inputs, the flags and  *)
(* the labels.                                                              *)
NumberLabels == {"number", "int", "big", "point", "fraction", "exponent", "power", "float"}
StringLabels == {"string", "ascii", "read"}
FloatChars == {Minus, Dot, LowerE} \cup Digits

TypeInv ==
    /\ TypeOK
    /\ input \in Inputs
    /\ pc \in {"value", "done"} \cup NumberLabels \cup StringLabels
    /\ negative \in BOOLEAN
    /\ external \in BOOLEAN

(* The input does not change. *)
LEMMA SameText ==
    ASSUME input' = input
    PROVE  /\ Text' = Text /\ End' = End
           /\ \A i : At(i)' = At(i)
           /\ \A i : IsDigit(i)' = IsDigit(i)
  BY DEF Text, End, At, IsDigit

LEMMA WrappedRange ==
    ASSUME NEW n \in Int, NEW max \in Nat
    PROVE  Wrapped(n, max) \in -(max + 1)..max
  <1>1. (n + max + 1) % (2 * (max + 1)) \in 0..(2 * (max + 1) - 1)
    OBVIOUS
  <1> QED
    BY <1>1 DEF Wrapped

LEMMA WrappedExact ==
    ASSUME NEW max \in Nat, NEW n \in -(max + 1)..max
    PROVE  Wrapped(n, max) = n
  <1>1. (n + max + 1) % (2 * (max + 1)) = n + max + 1
    OBVIOUS
  <1> QED
    BY <1>1 DEF Wrapped

LEMMA WrappedPast ==
    ASSUME NEW max \in Nat, NEW n \in Int
    PROVE  /\ n \in (max + 1)..(2 * max + 1) => Wrapped(n, max) = n - 2 * (max + 1)
           /\ n \in -(2 * max + 2)..-(max + 2) => Wrapped(n, max) = n + 2 * (max + 1)
  <1>1. ASSUME n \in (max + 1)..(2 * max + 1)
        PROVE  (n + max + 1) % (2 * (max + 1)) = n - max - 1
    BY <1>1
  <1>2. ASSUME n \in -(2 * max + 2)..-(max + 2)
        PROVE  (n + max + 1) % (2 * (max + 1)) = n + 3 * max + 3
    BY <1>2
  <1> QED
    BY <1>1, <1>2 DEF Wrapped

(* What TypeInv says of the number reader, and what a step that stays in it *)
(* has to show.                                                             *)
LEMMA NumberTypes ==
    ASSUME TypeInv
    PROVE  /\ cursor \in 1..End /\ cursor \in Nat /\ End \in Nat
           /\ intValue \in Int /\ negative \in BOOLEAN /\ external \in BOOLEAN
           /\ floatData \in Seq(FloatChars)
           /\ pc # "done" => result = Unread
  BY TextFacts, NumberAssumption DEF TypeInv, TypeOK, FloatChars

LEMMA FloatTexts ==
    ASSUME NEW data \in Seq(FloatChars), NEW minus \in BOOLEAN, external \in BOOLEAN
    PROVE  /\ WithPoint(data) \in Seq(FloatChars)
           /\ WithMark(data, minus) \in Seq(FloatChars)
           /\ \A ch \in FloatChars : Append(data, ch) \in Seq(FloatChars)
  <1>1. Dot \in FloatChars /\ LowerE \in FloatChars /\ Minus \in FloatChars
    BY DEF FloatChars
  <1>2. /\ \A ch \in FloatChars : Append(data, ch) \in Seq(FloatChars)
        /\ data \o <<LowerE, Minus>> \in Seq(FloatChars)
    BY <1>1
  <1> QED
    BY <1>1, <1>2 DEF WithPoint, WithMark

(* What the label says of the character at the cursor. *)
LabelOK(label, ch) ==
    /\ label \in {"int", "big", "fraction", "power"} => ch \in Digits
    /\ label = "point" => ch = Dot
    /\ label = "exponent" => ch \in ExponentMarks

LEMMA NumberStepType ==
    ASSUME TypeInv, input' = input, external' = external, UNCHANGED stringVars,
           negative' \in BOOLEAN,
           intValue' \in -(IntMax + 1)..IntMax,
           floatData' \in Seq(FloatChars),
           cursor' \in 1..End,
           pc' \in NumberLabels \cup {"done"},
           pc' = "done" <=> result' # Unread,
           LabelOK(pc', At(cursor'))
    PROVE  TypeInv'
  <1>1. /\ cursor' \in 1..End'
        /\ intValue' \in -(IntMax + 1)..IntMax
        /\ floatData' \in Seq({Minus, Dot, LowerE} \cup Digits)
        /\ pc' \notin {"ascii", "read", "string"}
    BY SameText DEF FloatChars, NumberLabels
  <1>2. /\ pc' \in {"int", "big", "fraction", "power"} => IsDigit(cursor)'
        /\ pc' = "point" => At(cursor)' = Dot
        /\ pc' = "exponent" => At(cursor)' \in ExponentMarks
    BY DEF LabelOK, IsDigit, At, Text
  <1>3. strBuffer' \in Seq(0..MaxUnicode)
    BY DEF TypeInv, TypeOK, stringVars
  <1>4. TypeOK'
    BY <1>1, <1>2, <1>3 DEF TypeOK
  <1> QED
    BY <1>4 DEF TypeInv

LEMMA ContinuationLabel ==
    ASSUME NEW ch
    PROVE  /\ Continuation(ch) \in {"point", "exponent", "float"}
           /\ LabelOK(Continuation(ch), ch)
  BY DEF Continuation, LabelOK, ExponentMarks, Dot, LowerE, UpperE

LEMMA ReadNumberType == TypeInv /\ ReadNumber /\ UNCHANGED stringVars => TypeInv'
  <1> SUFFICES ASSUME TypeInv, ReadNumber, UNCHANGED stringVars PROVE TypeInv'
    OBVIOUS
  <1> DEFINE minus == At(cursor) = Minus
             i == IF minus THEN cursor + 1 ELSE cursor
             sign == IF minus /\ external THEN <<Minus>> ELSE <<>>
             next == Continuation(At(i + 1))
             infinity == <<73, 110, 102, 105, 110, 105, 116, 121>>
             nan == <<78, 97, 78>>
  <1>1. /\ cursor \in 1..End /\ cursor \in Nat /\ End = Len(Text) + 1 /\ Len(Text) \in Nat
        /\ pc = "number" => result = Unread
        /\ input \in Inputs
        /\ \A j : At(j) # NUL => j \in 1..Len(Text)
    BY NumberTypes, TextFacts DEF TypeInv, End
  <1>2. i \in 1..End
    BY <1>1 DEF Minus, NUL
  <1>3. /\ sign \in Seq(FloatChars)
        /\ Append(sign, Zero) \in Seq(FloatChars)
    <2>1. Minus \in FloatChars /\ Zero \in FloatChars
      BY DEF FloatChars, Digits, Zero
    <2>2. sign = <<>> \/ sign = <<Minus>>
      OBVIOUS
    <2>3. sign \in Seq(FloatChars)
      BY <2>1, <2>2
    <2> HIDE DEF sign
    <2> QED
      BY <2>1, <2>3, AppendProperties
  <1>4. /\ negative' \in BOOLEAN /\ input' = input /\ external' = external
        /\ intValue' \in -(IntMax + 1)..IntMax
        /\ floatData' \in Seq(FloatChars)
        /\ pc = "number"
    <2>1. floatData' = sign \/ floatData' = Append(sign, Zero)
      BY DEF ReadNumber
    <2> HIDE DEF sign
    <2> QED
      BY <1>3, <2>1 DEF ReadNumber, TypeInv, TypeOK
  <1>5. /\ cursor' \in 1..End
        /\ pc' \in NumberLabels \cup {"done"}
        /\ pc' = "done" <=> result' # Unread
        /\ LabelOK(pc', At(cursor'))
    <2> HIDE DEF i
    <2>1. CASE At(i) \in 49..57 /\ cursor' = i /\ pc' = "int" /\ UNCHANGED result
      BY <1>1, <1>2, <1>4, <2>1 DEF LabelOK, Digits, NumberLabels
    <2>2. CASE At(i) = Zero /\ next # "float" /\ cursor' = i + 1 /\ pc' = next /\ UNCHANGED result
      <3>1. i + 1 \in 1..End
        BY <1>1, <1>2, <2>2 DEF Zero, NUL
      <3> QED
        BY <1>1, <1>4, <2>2, <3>1, ContinuationLabel DEF NumberLabels
    <2>3. CASE At(i) = Zero /\ Done([kind |-> "int", value |-> 0], i + 1)
      <3>1. i + 1 \in 1..End
        BY <1>1, <1>2, <2>3 DEF Zero, NUL
      <3> QED
        BY <2>3, <3>1 DEF Done, Unread, LabelOK
    <2>4. CASE Reads(i, infinity) /\ Done([kind |-> "infinity", negative |-> negative'], i + 8)
      <3>1. At(i + 7) = 121
        <4>1. Len(infinity) = 8 /\ infinity[8] = 121 /\ 8 \in 1..Len(infinity)
          OBVIOUS
        <4>2. At(i + 8 - 1) = 121
          BY <2>4, <4>1 DEF Reads
        <4> QED
          BY <4>2, <1>2, <1>1
      <3>2. i + 8 \in 1..End
        BY <1>1, <1>2, <3>1 DEF NUL
      <3> QED
        BY <2>4, <3>2 DEF Done, Unread, LabelOK
    <2>5. CASE Reads(i, nan) /\ Done([kind |-> "nan"], i + 3)
      <3>1. At(i + 2) = 78
        <4>1. Len(nan) = 3 /\ nan[3] = 78 /\ 3 \in 1..Len(nan)
          OBVIOUS
        <4>2. At(i + 3 - 1) = 78
          BY <2>5, <4>1 DEF Reads
        <4> QED
          BY <4>2, <1>2, <1>1
      <3>2. i + 3 \in 1..End
        BY <1>1, <1>2, <3>1 DEF NUL
      <3> QED
        BY <2>5, <3>2 DEF Done, Unread, LabelOK
    <2>6. CASE Done(Error(IF i >= End THEN "end" ELSE "number"), i)
      BY <1>2, <2>6 DEF Done, Unread, Error, LabelOK
    <2> QED
      BY <2>1, <2>2, <2>3, <2>4, <2>5, <2>6 DEF ReadNumber, i
  <1> QED
    BY <1>4, <1>5, NumberStepType

LEMMA IntDigitType == TypeInv /\ IntDigit /\ UNCHANGED stringVars => TypeInv'
  <1> SUFFICES ASSUME TypeInv, IntDigit, UNCHANGED stringVars PROVE TypeInv'
    OBVIOUS
  <1> DEFINE n == Wrapped(intValue * 10 + Convert(negative, cursor), IntMax)
             next == At(cursor + 1)
  <1>1. /\ cursor \in 1..End /\ End = Len(Text) + 1 /\ Len(Text) \in Nat
        /\ input \in Inputs
        /\ pc = "int" /\ result = Unread
        /\ At(cursor) \in Digits /\ At(cursor) \in FloatChars
        /\ \A j : At(j) # NUL => j \in 1..Len(Text)
    BY NumberTypes, TextFacts DEF TypeInv, TypeOK, IntDigit, End, IsDigit, FloatChars
  <1>2. cursor + 1 \in 1..End
    BY <1>1 DEF Digits, NUL
  <1>3. n \in -(IntMax + 1)..IntMax
    <2>1. Convert(negative, cursor) \in Int
      BY <1>1, NumberAssumption DEF Convert, Digit, Zero, Digits
    <2>2. intValue * 10 + Convert(negative, cursor) \in Int
      BY <2>1, NumberTypes
    <2> QED
      BY <2>2, NumberAssumption, WrappedRange
  <1>4. Append(floatData, At(cursor)) \in Seq(FloatChars)
    BY <1>1, NumberTypes, FloatTexts
  <1>5. /\ negative' \in BOOLEAN /\ input' = input /\ external' = external
        /\ intValue' \in -(IntMax + 1)..IntMax
        /\ floatData' \in Seq(FloatChars)
    BY <1>3, <1>4, NumberTypes DEF IntDigit
  <1>6. /\ cursor' = cursor + 1
        /\ pc' \in NumberLabels \cup {"done"}
        /\ pc' = "done" <=> result' # Unread
        /\ LabelOK(pc', At(cursor'))
    <2> HIDE DEF n
    <2>1. CASE next \in Digits /\ Consume(IF IsOk(n) THEN "int" ELSE "big")
      BY <1>1, <2>1 DEF Consume, LabelOK, NumberLabels
    <2>2. CASE next \notin Digits /\ Consume(Continuation(next))
      BY <1>1, <2>2, ContinuationLabel DEF Consume, NumberLabels
    <2>3. CASE Consume("float")
      BY <1>1, <2>3 DEF Consume, LabelOK, NumberLabels
    <2>4. CASE Done([kind |-> "int", value |-> n], cursor + 1)
      BY <2>4 DEF Done, Unread, LabelOK
    <2> QED
      BY <2>1, <2>2, <2>3, <2>4 DEF IntDigit, n
  <1> QED
    BY <1>2, <1>5, <1>6, NumberStepType

LEMMA BigDigitType == TypeInv /\ BigDigit /\ UNCHANGED stringVars => TypeInv'
  <1> SUFFICES ASSUME TypeInv, BigDigit, UNCHANGED stringVars PROVE TypeInv'
    OBVIOUS
  <1>1. /\ cursor \in 1..End /\ End = Len(Text) + 1 /\ Len(Text) \in Nat
        /\ input \in Inputs
        /\ pc = "big" /\ result = Unread
        /\ At(cursor) \in Digits /\ At(cursor) \in FloatChars
        /\ \A j : At(j) # NUL => j \in 1..Len(Text)
    BY NumberTypes, TextFacts DEF TypeInv, TypeOK, BigDigit, End, IsDigit, FloatChars
  <1>2. cursor + 1 \in 1..End
    BY <1>1 DEF Digits, NUL
  <1>3. Append(floatData, At(cursor)) \in Seq(FloatChars)
    BY <1>1, NumberTypes, FloatTexts
  <1>4. /\ negative' \in BOOLEAN /\ input' = input /\ external' = external
        /\ intValue' \in -(IntMax + 1)..IntMax
        /\ floatData' \in Seq(FloatChars)
    BY <1>3, NumberTypes DEF BigDigit, TypeInv, TypeOK
  <1>5. /\ cursor' = cursor + 1 /\ result' = Unread
        /\ pc' \in NumberLabels
        /\ LabelOK(pc', At(cursor'))
    BY <1>1, ContinuationLabel DEF BigDigit, Consume, LabelOK, NumberLabels, IsDigit
  <1> QED
    BY <1>2, <1>4, <1>5, NumberStepType DEF NumberLabels

LEMMA PointType == TypeInv /\ Point /\ UNCHANGED stringVars => TypeInv'
  <1> SUFFICES ASSUME TypeInv, Point, UNCHANGED stringVars PROVE TypeInv'
    OBVIOUS
  <1>1. /\ cursor \in 1..End /\ End = Len(Text) + 1 /\ Len(Text) \in Nat
        /\ input \in Inputs
        /\ pc = "point" /\ result = Unread
        /\ At(cursor) = Dot
        /\ \A j : At(j) # NUL => j \in 1..Len(Text)
    BY NumberTypes, TextFacts DEF TypeInv, TypeOK, Point, End
  <1>2. cursor + 1 \in 1..End
    BY <1>1 DEF Dot, NUL
  <1>3. WithPoint(floatData) \in Seq(FloatChars)
    BY NumberTypes, FloatTexts
  <1>4. /\ negative' \in BOOLEAN /\ input' = input /\ external' = external
        /\ intValue' \in -(IntMax + 1)..IntMax
        /\ floatData' \in Seq(FloatChars)
    BY <1>3, NumberTypes DEF Point, TypeInv, TypeOK
  <1>5. /\ cursor' = cursor + 1
        /\ pc' \in NumberLabels \cup {"done"}
        /\ pc' = "done" <=> result' # Unread
        /\ LabelOK(pc', At(cursor'))
    BY <1>1 DEF Point, Consume, Done, Unread, Error, LabelOK, NumberLabels, IsDigit
  <1> QED
    BY <1>2, <1>4, <1>5, NumberStepType

LEMMA FractionDigitType == TypeInv /\ FractionDigit /\ UNCHANGED stringVars => TypeInv'
  <1> SUFFICES ASSUME TypeInv, FractionDigit, UNCHANGED stringVars PROVE TypeInv'
    OBVIOUS
  <1>1. /\ cursor \in 1..End /\ End = Len(Text) + 1 /\ Len(Text) \in Nat
        /\ input \in Inputs
        /\ pc = "fraction" /\ result = Unread
        /\ At(cursor) \in Digits /\ At(cursor) \in FloatChars
        /\ \A j : At(j) # NUL => j \in 1..Len(Text)
    BY NumberTypes, TextFacts DEF TypeInv, TypeOK, FractionDigit, End, IsDigit, FloatChars
  <1>2. cursor + 1 \in 1..End
    BY <1>1 DEF Digits, NUL
  <1>3. Append(floatData, At(cursor)) \in Seq(FloatChars)
    BY <1>1, NumberTypes, FloatTexts
  <1>4. /\ negative' \in BOOLEAN /\ input' = input /\ external' = external
        /\ intValue' \in -(IntMax + 1)..IntMax
        /\ floatData' \in Seq(FloatChars)
    BY <1>3, NumberTypes DEF FractionDigit, TypeInv, TypeOK
  <1>5. /\ cursor' = cursor + 1 /\ result' = Unread
        /\ pc' \in NumberLabels
        /\ LabelOK(pc', At(cursor'))
    BY <1>1 DEF FractionDigit, Consume, LabelOK, NumberLabels, IsDigit
  <1> QED
    BY <1>2, <1>4, <1>5, NumberStepType DEF NumberLabels

LEMMA ExponentType == TypeInv /\ Exponent /\ UNCHANGED stringVars => TypeInv'
  <1> SUFFICES ASSUME TypeInv, Exponent, UNCHANGED stringVars PROVE TypeInv'
    OBVIOUS
  <1> DEFINE minus == At(cursor + 1) = Minus
             i == IF At(cursor + 1) \in {Minus, Plus} THEN cursor + 2 ELSE cursor + 1
  <1>1. /\ cursor \in 1..End /\ End = Len(Text) + 1 /\ Len(Text) \in Nat
        /\ input \in Inputs
        /\ pc = "exponent" /\ result = Unread
        /\ At(cursor) # NUL
        /\ \A j : At(j) # NUL => j \in 1..Len(Text)
    BY NumberTypes, TextFacts
       DEF TypeInv, TypeOK, Exponent, End, ExponentMarks, LowerE, UpperE, NUL
  <1>2. i \in 1..End
    BY <1>1 DEF Minus, Plus, NUL
  <1>3. WithMark(floatData, minus) \in Seq(FloatChars)
    <2>1. minus \in BOOLEAN
      OBVIOUS
    <2> HIDE DEF minus
    <2> QED
      BY <2>1, NumberTypes, FloatTexts
  <1>4. /\ negative' \in BOOLEAN /\ input' = input /\ external' = external
        /\ intValue' \in -(IntMax + 1)..IntMax
        /\ floatData' \in Seq(FloatChars)
    BY <1>3, NumberTypes DEF Exponent, TypeInv, TypeOK
  <1>5. /\ cursor' = i
        /\ pc' \in NumberLabels \cup {"done"}
        /\ pc' = "done" <=> result' # Unread
        /\ LabelOK(pc', At(cursor'))
    <2>1. \/ IsDigit(i) /\ cursor' = i /\ pc' = "power" /\ UNCHANGED result
          \/ Done(Error("number"), i)
      BY DEF Exponent
    <2> HIDE DEF i
    <2> QED
      BY <1>1, <2>1 DEF Done, Unread, Error, LabelOK, NumberLabels, IsDigit
  <1> QED
    BY <1>2, <1>4, <1>5, NumberStepType

LEMMA ExponentDigitType == TypeInv /\ ExponentDigit /\ UNCHANGED stringVars => TypeInv'
  <1> SUFFICES ASSUME TypeInv, ExponentDigit, UNCHANGED stringVars PROVE TypeInv'
    OBVIOUS
  <1>1. /\ cursor \in 1..End /\ End = Len(Text) + 1 /\ Len(Text) \in Nat
        /\ input \in Inputs
        /\ pc = "power" /\ result = Unread
        /\ At(cursor) \in Digits /\ At(cursor) \in FloatChars
        /\ \A j : At(j) # NUL => j \in 1..Len(Text)
    BY NumberTypes, TextFacts DEF TypeInv, TypeOK, ExponentDigit, End, IsDigit, FloatChars
  <1>2. cursor + 1 \in 1..End
    BY <1>1 DEF Digits, NUL
  <1>3. Append(floatData, At(cursor)) \in Seq(FloatChars)
    BY <1>1, NumberTypes, FloatTexts
  <1>4. /\ negative' \in BOOLEAN /\ input' = input /\ external' = external
        /\ intValue' \in -(IntMax + 1)..IntMax
        /\ floatData' \in Seq(FloatChars)
    BY <1>3, NumberTypes DEF ExponentDigit, TypeInv, TypeOK
  <1>5. /\ cursor' = cursor + 1 /\ result' = Unread
        /\ pc' \in NumberLabels
        /\ LabelOK(pc', At(cursor'))
    BY <1>1 DEF ExponentDigit, Consume, LabelOK, NumberLabels, IsDigit
  <1> QED
    BY <1>2, <1>4, <1>5, NumberStepType DEF NumberLabels

LEMMA MakeFloatType == TypeInv /\ MakeFloat /\ UNCHANGED stringVars => TypeInv'
  <1> SUFFICES ASSUME TypeInv, MakeFloat, UNCHANGED stringVars PROVE TypeInv'
    OBVIOUS
  <1>1. /\ negative' \in BOOLEAN /\ input' = input /\ external' = external
        /\ intValue' \in -(IntMax + 1)..IntMax
        /\ floatData' \in Seq(FloatChars)
        /\ cursor' \in 1..End
    BY NumberTypes DEF MakeFloat, Done, TypeInv, TypeOK, numberVars
  <1>2. pc' = "done" /\ result' # Unread
    BY DEF MakeFloat, Done, Make, Unread
  <1> QED
    BY <1>1, <1>2, NumberStepType DEF LabelOK

-----------------------------------------------------------------------------
(* Strings. *)

LEMMA StringTypes ==
    ASSUME TypeInv
    PROVE  /\ cursor \in 1..End /\ End = Len(Text) + 1 /\ Len(Text) \in Nat
           /\ input \in Inputs
           /\ \A j : At(j) # NUL => j \in 1..Len(Text)
           /\ pc # "done" => result = Unread
           /\ strBuffer \in Seq(0..MaxUnicode)
  BY TextFacts, NumberTypes DEF TypeInv, TypeOK, End

LEMMA StringStepType ==
    ASSUME TypeInv, input' = input, UNCHANGED numberVars,
           cursor' \in 1..End,
           strBuffer' \in Seq(0..MaxUnicode),
           pc' \in {"ascii", "read", "done"},
           pc' # "done" => cursor' > 1,
           pc' = "done" <=> result' # Unread
    PROVE  TypeInv'
  <1>1. /\ cursor' \in 1..End'
        /\ intValue' \in -(IntMax + 1)..IntMax
        /\ floatData' \in Seq({Minus, Dot, LowerE} \cup Digits)
    BY SameText DEF TypeInv, TypeOK, numberVars
  <1>2. TypeOK'
    BY <1>1 DEF TypeOK
  <1> QED
    BY <1>2 DEF TypeInv, numberVars, StringLabels

(* Positions, without mention of the sequence. *)
LEMMA Positions ==
    ASSUME input \in Inputs
    PROVE  /\ End \in Nat
           /\ \A i : At(i) # NUL => i \in Nat /\ 1 <= i /\ i < End
  BY TextFacts DEF End

(* What four hexadecimal digits can say. *)
IsCodeUnit(n) == n \in Nat /\ n <= 65535
IsHexValue(n) == n \in Nat /\ n <= 15

LEMMA HexDigit ==
    ASSUME NEW ch, IsHex(ch)
    PROVE  ch # NUL /\ IsHexValue(Hex(ch))
  BY DEF IsHexValue, IsHex, Hex, Digits, Zero, NUL

LEMMA HexValue ==
    ASSUME NEW a, NEW b, NEW c, NEW d,
           IsHexValue(a), IsHexValue(b), IsHexValue(c), IsHexValue(d)
    PROVE  IsCodeUnit(a * 4096 + b * 256 + c * 16 + d)
  <1> DEFINE value == a * 4096 + b * 256 + c * 16 + d
  <1>1. value \in Int /\ value <= 65535
    BY SMT DEF IsHexValue
  <1>2. value >= 0
    BY SMT DEF IsHexValue
  <1> QED
    BY <1>1, <1>2, SMT DEF IsCodeUnit

(* The hexadecimal digits behind the `u' at i. *)
LEMMA UnicodeEscapeFacts ==
    ASSUME input \in Inputs, NEW i \in Nat, i < End
    PROVE  /\ UnicodeEscape(i).ok \in BOOLEAN
           /\ UnicodeEscape(i).next \in (i + 1)..End
           /\ UnicodeEscape(i).ok => /\ UnicodeEscape(i).next = i + 5
                                     /\ IsCodeUnit(UnicodeEscape(i).char)
  <1> DEFINE hex(k) == Hex(At(i + k))
             char == hex(1) * 4096 + hex(2) * 256 + hex(3) * 16 + hex(4)
             wrong == {k \in 1..4 : ~IsHex(At(i + k)) /\ \A l \in 1..(k - 1) : IsHex(At(i + l))}
  <1>1. End \in Nat /\ \A j : At(j) # NUL => j \in Nat /\ 1 <= j /\ j < End
    BY Positions
  <1>2. CASE wrong = {}
    <2>1. \A k \in 1..4 : IsHex(At(i + k))
      <3> DEFINE bad == {k \in 1..4 : ~IsHex(At(i + k))}
      <3>1. SUFFICES ASSUME bad # {} PROVE FALSE
        OBVIOUS
      <3>2. PICK k \in bad : \A l \in bad : k <= l
        <4>1. bad \in SUBSET Nat
          OBVIOUS
        <4> HIDE DEF bad
        <4> QED
          BY <3>1, <4>1, LeastNumber
      <3>3. \A l \in 1..(k - 1) : IsHex(At(i + l))
        BY <3>2
      <3> QED
        BY <1>2, <3>2, <3>3
    <2>2. /\ IsHexValue(hex(1)) /\ IsHexValue(hex(2)) /\ IsHexValue(hex(3)) /\ IsHexValue(hex(4))
          /\ At(i + 4) # NUL
      <3> IsHex(At(i + 1)) /\ IsHex(At(i + 2)) /\ IsHex(At(i + 3)) /\ IsHex(At(i + 4))
        BY <2>1
      <3> QED
        BY HexDigit
    <2>3. UnicodeEscape(i) = Escaped(char, i + 5)
      BY <1>2 DEF UnicodeEscape
    <2>4. i + 5 \in (i + 1)..End
      BY <1>1, <2>2
    <2>5. IsCodeUnit(char)
      BY <2>2, HexValue
    <2> HIDE DEF char
    <2> QED
      BY ONLY <2>3, <2>4, <2>5 DEF Escaped
  <1>3. CASE wrong # {}
    <2> DEFINE k == CHOOSE k \in wrong : TRUE
    <2>1. k \in wrong
      BY <1>3
    <2>2. k \in 1..4 /\ \A l \in 1..(k - 1) : IsHex(At(i + l))
      BY <2>1
    <2>3. UnicodeEscape(i) = BadEscape(IF At(i + k) = NUL THEN "end" ELSE "escape", i + k)
      BY <1>3 DEF UnicodeEscape
    <2> HIDE DEF k, wrong
    <2>4. i + k \in (i + 1)..End
      <3>1. CASE k = 1
        BY <1>1, <3>1
      <3>2. CASE k > 1
        <4>1. At(i + (k - 1)) # NUL
          BY HexDigit, <2>2, <3>2
        <4> QED
          BY <1>1, <2>2, <3>2, <4>1
      <3> QED
        BY <2>2, <3>1, <3>2
    <2> QED
      BY ONLY <2>3, <2>4 DEF BadEscape
  <1> QED
    BY <1>2, <1>3

LEMMA IsCharacter ==
    ASSUME NEW n \in Nat, n <= 1114111
    PROVE  n \in 0..MaxUnicode
  <1>1. MaxUnicode \in Nat /\ n <= MaxUnicode
    BY SMT DEF MaxUnicode
  <1> QED
    BY <1>1

LEMMA CodeUnitIsCharacter ==
    ASSUME NEW n, IsCodeUnit(n)
    PROVE  n \in 0..MaxUnicode
  <1>1. n \in Nat /\ n <= 1114111
    BY SMT DEF IsCodeUnit
  <1> QED
    BY <1>1, IsCharacter

LEMMA Halves ==
    ASSUME NEW n
    PROVE  /\ IsHigh(n) => n \in Nat /\ 55296 <= n /\ n <= 56319
           /\ IsLow(n) => n \in Nat /\ 56320 <= n /\ n <= 57343
  <1>1. IsHigh(n) => n \in Nat /\ 55296 <= n /\ n <= 56319
    BY SMT DEF IsHigh
  <1>2. IsLow(n) => n \in Nat /\ 56320 <= n /\ n <= 57343
    BY SMT DEF IsLow
  <1> QED
    BY ONLY <1>1, <1>2

LEMMA PairIsCharacter ==
    ASSUME NEW high, NEW low, IsHigh(high), IsLow(low)
    PROVE  Pair(high, low) \in 0..MaxUnicode
  <1>1. Pair(high, low) \in Nat /\ Pair(high, low) <= 1114111
    BY Halves, SMT DEF Pair
  <1> QED
    BY <1>1, IsCharacter

LEMMA SimpleIsCharacter ==
    ASSUME NEW ch \in DOMAIN Simple
    PROVE  ch # NUL /\ Simple[ch] \in 0..MaxUnicode
  <1>1. ch # NUL /\ Simple[ch] \in 0..255
    BY DEF Simple, Quote, Backslash, NUL
  <1> QED
    BY <1>1, MaxUnicodeFacts

(* What a sequence for a character is read to: the character, or an error,  *)
(* and a position in the text.                                              *)
ReadsWell(r, i) ==
    /\ r.ok \in BOOLEAN
    /\ r.next \in i..End
    /\ r.ok => r.char \in 0..MaxUnicode

LEMMA SecondHalfFacts ==
    ASSUME input \in Inputs, NEW i \in Nat, NEW j \in i..End,
           NEW high, IsHigh(high)
    PROVE  ReadsWell(SecondHalf(high, j), i)
  <1> DEFINE low == UnicodeEscape(j + 1)
  <1>1. End \in Nat /\ \A k : At(k) # NUL => k \in Nat /\ 1 <= k /\ k < End
    BY Positions
  <1>2. ASSUME NEW what, NEW at \in i..End PROVE ReadsWell(BadEscape(what, at), i)
    BY <1>2 DEF ReadsWell, BadEscape
  <1>3. CASE At(j) # Backslash
    <2>1. SecondHalf(high, j) = BadEscape("high", j)
      BY <1>3 DEF SecondHalf
    <2> QED
      BY <1>2, <2>1
  <1>4. CASE At(j) = Backslash /\ At(j + 1) # LowerU
    <2>1. SecondHalf(high, j) = BadEscape("high", j + 1)
      BY <1>4 DEF SecondHalf
    <2>2. j + 1 \in i..End
      BY <1>1, <1>4 DEF Backslash, NUL
    <2> QED
      BY <1>2, <2>1, <2>2
  <1>5. CASE At(j) = Backslash /\ At(j + 1) = LowerU
    <2>1. j + 1 \in Nat /\ j + 1 < End
      BY <1>1, <1>5 DEF LowerU, NUL
    <2>2. /\ low.ok \in BOOLEAN /\ low.next \in (j + 1 + 1)..End
          /\ low.ok => low.next = j + 1 + 5 /\ IsCodeUnit(low.char)
      BY <2>1, UnicodeEscapeFacts
    <2>3. CASE ~low.ok
      <3>1. SecondHalf(high, j) = low
        BY <1>5, <2>3 DEF SecondHalf
      <3> HIDE DEF low
      <3> QED
        BY <1>1, <2>2, <2>3, <3>1 DEF ReadsWell
    <2>4. CASE low.ok /\ IsLow(low.char)
      <3>1. SecondHalf(high, j) = Escaped(Pair(high, low.char), j + 6)
        BY <1>5, <2>4 DEF SecondHalf
      <3> HIDE DEF low
      <3>2. Pair(high, low.char) \in 0..MaxUnicode
        BY <2>4, PairIsCharacter
      <3>3. j + 6 \in i..End
        BY <1>1, <2>2, <2>4
      <3> QED
        BY <3>1, <3>2, <3>3 DEF ReadsWell, Escaped
    <2>5. CASE low.ok /\ ~IsLow(low.char)
      <3>1. SecondHalf(high, j) = BadEscape("high", j + 5)
        BY <1>5, <2>5 DEF SecondHalf
      <3>2. j + 5 \in i..End
        <4> HIDE DEF low
        <4> QED
          BY <1>1, <2>2, <2>5
      <3> QED
        BY <1>2, <3>1, <3>2
    <2> QED
      BY <2>2, <2>3, <2>4, <2>5
  <1> QED
    BY <1>3, <1>4, <1>5

LEMMA EscapeFacts ==
    ASSUME input \in Inputs, NEW i \in Nat, i < End
    PROVE  ReadsWell(EscapeAt(i), i)
  <1> DEFINE ch == At(i + 1)
             first == UnicodeEscape(i + 1)
  <1>1. End \in Nat /\ \A j : At(j) # NUL => j \in Nat /\ 1 <= j /\ j < End
    BY Positions
  <1>2. ASSUME NEW what, NEW at \in i..End PROVE ReadsWell(BadEscape(what, at), i)
    BY <1>2 DEF ReadsWell, BadEscape
  <1>3. ASSUME NEW char \in 0..MaxUnicode, NEW at \in i..End
        PROVE  ReadsWell(Escaped(char, at), i)
    BY <1>3 DEF ReadsWell, Escaped
  <1>4. ASSUME ch = LowerU
        PROVE  /\ ReadsWell(first, i)
               /\ first.ok => first.next = i + 6
    <2>1. i + 1 \in Nat /\ i + 1 < End
      BY <1>1, <1>4 DEF LowerU, NUL
    <2>2. /\ first.ok \in BOOLEAN /\ first.next \in (i + 1 + 1)..End
          /\ first.ok => first.next = i + 1 + 5 /\ IsCodeUnit(first.char)
      BY <2>1, UnicodeEscapeFacts
    <2> HIDE DEF first
    <2> QED
      BY <1>1, <2>1, <2>2, CodeUnitIsCharacter DEF ReadsWell
  <1>5. CASE ch \in DOMAIN Simple
    <2>1. EscapeAt(i) = Escaped(Simple[ch], i + 2)
      <3>1. ch # LowerU
        BY <1>5 DEF Simple, LowerU, Quote, Backslash
      <3> QED
        BY <1>5, <3>1 DEF EscapeAt
    <2>2. Simple[ch] \in 0..MaxUnicode /\ ch # NUL
      BY <1>5, SimpleIsCharacter
    <2>3. i + 2 \in i..End
      BY <1>1, <2>2
    <2> QED
      BY <1>3, <2>1, <2>2, <2>3
  <1>6. CASE ch \notin DOMAIN Simple /\ ch = LowerU /\ ~(first.ok /\ IsHigh(first.char))
    <2>1. EscapeAt(i) = Single(first)
      BY <1>6 DEF EscapeAt
    <2>2. ReadsWell(first, i) /\ (first.ok => first.next - 1 \in i..End)
      BY <1>1, <1>4, <1>6 DEF ReadsWell
    <2> HIDE DEF first, ch
    <2> QED
      BY <1>2, <2>1, <2>2 DEF Single
  <1>7. CASE ch \notin DOMAIN Simple /\ ch = LowerU /\ first.ok /\ IsHigh(first.char)
    <2>1. i + 6 \in i..End
      <3>1. ReadsWell(first, i) /\ first.next = i + 6
        BY <1>4, <1>7
      <3> QED
        BY <3>1 DEF ReadsWell
    <2>2. EscapeAt(i) = SecondHalf(first.char, i + 6)
      BY <1>7 DEF EscapeAt
    <2> HIDE DEF first
    <2>3. ReadsWell(SecondHalf(first.char, i + 6), i)
      BY <1>7, <2>1, SecondHalfFacts
    <2> QED
      BY <2>2, <2>3
  <1>8. CASE ch \notin DOMAIN Simple /\ ch # LowerU
    <2>1. EscapeAt(i) = BadEscape(IF ch = NUL THEN "end" ELSE "invalid", i + 1)
      BY <1>8 DEF EscapeAt
    <2>2. i + 1 \in i..End
      BY <1>1
    <2> QED
      BY <1>2, <2>1, <2>2
  <1> QED
    BY <1>5, <1>6, <1>7, <1>8

(* The bits of a byte. *)
LEMMA ByteParts ==
    ASSUME NEW b \in Nat
    PROVE  /\ b % 64 \in Nat /\ b % 64 <= 63
           /\ b % 32 \in Nat /\ b % 32 <= 31
           /\ b % 16 \in Nat /\ b % 16 <= 15
           /\ b % 8 \in Nat /\ b % 8 <= 7
  OBVIOUS

LEMMA Utf8Facts ==
    ASSUME input \in Inputs, NEW i \in Nat, i < End, At(i) >= 128
    PROVE  ReadsWell(Utf8At(i), i)
  <1>1. /\ End \in Nat /\ \A j : At(j) # NUL => j \in Nat /\ 1 <= j /\ j < End
        /\ \A j : At(j) \in Nat
    BY Positions, TextFacts, MaxUnicodeFacts
  <1>2. ASSUME NEW j, Cont(j) PROVE At(j) # NUL
    BY <1>2 DEF Cont, NUL
  <1>3. ASSUME NEW char \in Nat, char <= 1114111, NEW at \in i..End
        PROVE  ReadsWell(Escaped(char, at), i)
    <2>1. char \in 0..MaxUnicode
      BY <1>3, IsCharacter
    <2> QED
      BY <1>3, <2>1 DEF ReadsWell, Escaped
  <1>4. CASE At(i) \in 192..223 /\ Cont(i + 1)
    <2>1. Utf8At(i) = Escaped(Char2(i), i + 2)
      BY <1>4 DEF Utf8At
    <2>2. Char2(i) \in Nat /\ Char2(i) <= 1114111
      BY <1>1, ByteParts, SMT DEF Char2, Part
    <2>3. i + 2 \in i..End
      BY <1>1, <1>2, <1>4
    <2> QED
      BY <1>3, <2>1, <2>2, <2>3
  <1>5. CASE /\ At(i) \in 224..239 /\ Cont(i + 1) /\ Cont(i + 2)
             /\ ~IsHigh(Char3(i)) /\ ~IsLow(Char3(i))
    <2>1. Utf8At(i) = Escaped(Char3(i), i + 3)
      BY <1>5 DEF Utf8At
    <2>2. Char3(i) \in Nat /\ Char3(i) <= 1114111
      BY <1>1, ByteParts, SMT DEF Char3, Part
    <2>3. i + 3 \in i..End
      BY <1>1, <1>2, <1>5
    <2> QED
      BY <1>3, <2>1, <2>2, <2>3
  <1>6. CASE /\ At(i) \in 240..244 /\ Cont(i + 1) /\ Cont(i + 2) /\ Cont(i + 3)
             /\ Char4(i) <= MaxUnicode
    <2>1. Utf8At(i) = Escaped(Char4(i), i + 4)
      BY <1>6 DEF Utf8At
    <2>2. Char4(i) \in Nat /\ Char4(i) <= 1114111
      <3>1. Char4(i) \in Nat
        BY <1>1, ByteParts, SMT DEF Char4, Part
      <3> QED
        BY <1>6, <3>1, SMT DEF MaxUnicode
    <2>3. i + 4 \in i..End
      BY <1>1, <1>2, <1>6
    <2> QED
      BY <1>3, <2>1, <2>2, <2>3
  <1>7. CASE Utf8At(i) = BadEscape("utf8", i)
    BY <1>1, <1>7 DEF ReadsWell, BadEscape
  <1> QED
    BY <1>4, <1>5, <1>6, <1>7 DEF Utf8At

LEMMA ReadStringType == TypeInv /\ ReadString /\ UNCHANGED numberVars => TypeInv'
  <1> SUFFICES ASSUME TypeInv, ReadString, UNCHANGED numberVars PROVE TypeInv'
    OBVIOUS
  <1>1. /\ cursor \in 1..End /\ End \in Nat /\ pc = "string" /\ result = Unread
        /\ cursor > 1
        /\ \A j : At(j) # NUL => j \in Nat /\ 1 <= j /\ j < End
        /\ strBuffer' \in Seq(0..MaxUnicode)
    BY Positions, StringTypes DEF TypeInv, TypeOK, ReadString, stringVars
  <1>2. /\ cursor' \in 1..End
        /\ pc' \in {"ascii", "read", "done"}
        /\ pc' # "done" => cursor' > 1
        /\ pc' = "done" <=> result' # Unread
    <2>1. ASSUME NEW r \in ReadDate(cursor),
                 Done([kind |-> "moment", moment |-> r.moment], r.next + 1)
          PROVE  cursor' \in 1..End /\ pc' = "done" /\ result' # Unread
      <3>1. At(r.next) # NUL
        BY <2>1 DEF ReadDate, Quote, NUL
      <3>2. r.next + 1 \in 1..End
        BY <1>1, <3>1
      <3> QED
        BY <2>1, <3>2 DEF Done, Unread
    <2>2. CASE pc' = (IF Narrow THEN "ascii" ELSE "read") /\ UNCHANGED <<cursor, result>>
      BY <1>1, <2>2
    <2> QED
      BY <2>1, <2>2 DEF ReadString
  <1> QED
    BY <1>1, <1>2, StringStepType DEF ReadString

LEMMA ReadAsciiType == TypeInv /\ ReadAscii /\ UNCHANGED numberVars => TypeInv'
  <1> SUFFICES ASSUME TypeInv, ReadAscii, UNCHANGED numberVars PROVE TypeInv'
    OBVIOUS
  <1> DEFINE i == SliceEnd(cursor, NotAscii)
  <1>1. /\ cursor \in 1..End /\ End \in Nat /\ pc = "ascii" /\ result = Unread
        /\ cursor > 1 /\ input \in Inputs
        /\ \A j : At(j) # NUL => j \in Nat /\ 1 <= j /\ j < End
        /\ strBuffer \in Seq(0..MaxUnicode)
    BY Positions, StringTypes DEF TypeInv, TypeOK, ReadAscii
  <1>2. i \in cursor..End
    BY <1>1, SliceEnds
  <1> HIDE DEF i
  <1>3. /\ cursor' \in 1..End
        /\ strBuffer' \in Seq(0..MaxUnicode)
        /\ pc' \in {"ascii", "read", "done"}
        /\ pc' # "done" => cursor' > 1
        /\ pc' = "done" <=> result' # Unread
    <2>1. CASE At(i) = Quote /\ Done([kind |-> "str", text |-> SubSeq(Text, cursor, i - 1)], i + 1)
               /\ UNCHANGED strBuffer
      <3>1. i + 1 \in 1..End
        BY <1>1, <2>1 DEF Quote, NUL
      <3> QED
        BY <1>1, <2>1, <3>1 DEF Done, Unread
    <2>2. CASE strBuffer' = AsciiPrefix(i) /\ cursor' = i /\ pc' = "read" /\ UNCHANGED result
      <3>1. strBuffer' \in Seq(0..MaxUnicode)
        BY <1>1, <1>2, <2>2, Stretch DEF AsciiPrefix
      <3> QED
        BY <1>1, <1>2, <2>2, <3>1
    <2>3. CASE Done(Error("memory"), cursor) /\ UNCHANGED strBuffer
      BY <1>1, <2>3 DEF Done, Error, Unread
    <2> QED
      BY <2>1, <2>2, <2>3 DEF ReadAscii, i
  <1> QED
    BY <1>3, StringStepType DEF ReadAscii

(* A step that ends the string, and one that appends to it and goes on. *)
LEMMA StringDoneType ==
    ASSUME TypeInv, input' = input, UNCHANGED <<numberVars, strBuffer>>,
           NEW value, value # Unread, NEW at \in 1..End, Done(value, at)
    PROVE  TypeInv'
  BY StringTypes, StringStepType DEF Done

LEMMA TakeType ==
    ASSUME TypeInv, input' = input, UNCHANGED numberVars, pc = "read",
           NEW chars, NEW next \in cursor..End, Take(chars, next),
           chars \in Seq(0..MaxUnicode)
    PROVE  TypeInv'
  <1>1. /\ cursor \in 1..End /\ cursor > 1 /\ result = Unread
        /\ strBuffer \in Seq(0..MaxUnicode)
    BY StringTypes DEF TypeInv, TypeOK
  <1>2. strBuffer' \in Seq(0..MaxUnicode)
    BY <1>1, ConcatProperties DEF Take
  <1> QED
    BY <1>1, <1>2, StringStepType DEF Take

LEMMA ReadingTypes ==
    ASSUME TypeInv, pc = "read"
    PROVE  /\ cursor \in 1..End /\ cursor \in Nat /\ End \in Nat /\ input \in Inputs
           /\ strBuffer \in Seq(0..MaxUnicode)
  BY StringTypes

LEMMA ReadEscapeType == TypeInv /\ ReadEscape /\ UNCHANGED numberVars => TypeInv'
  <1> SUFFICES ASSUME TypeInv, ReadEscape, UNCHANGED numberVars PROVE TypeInv'
    OBVIOUS
  <1> DEFINE esc == EscapeAt(cursor)
  <1>1. /\ pc = "read" /\ cursor < End /\ input' = input
    BY DEF ReadEscape, AtEscape, Reading
  <1>2. ReadsWell(esc, cursor)
    BY <1>1, ReadingTypes, EscapeFacts
  <1>3. \/ esc.ok /\ Take(<<esc.char>>, esc.next)
        \/ Done(Error(esc.what), esc.next) /\ UNCHANGED <<strBuffer, maxchar>>
    BY DEF ReadEscape
  <1> HIDE DEF esc
  <1>4. CASE esc.ok /\ Take(<<esc.char>>, esc.next)
    <2>1. <<esc.char>> \in Seq(0..MaxUnicode) /\ esc.next \in cursor..End
      BY <1>2, <1>4 DEF ReadsWell
    <2> QED
      BY <1>1, <1>4, <2>1, TakeType
  <1>5. CASE Done(Error(esc.what), esc.next) /\ UNCHANGED <<strBuffer, maxchar>>
    <2>1. esc.next \in 1..End /\ Error(esc.what) # Unread
      BY <1>1, <1>2, ReadingTypes DEF ReadsWell, Error, Unread
    <2> QED
      BY <1>1, <1>5, <2>1, StringDoneType
  <1> QED
    BY <1>3, <1>4, <1>5

LEMMA ReadUtf8Type == TypeInv /\ ReadUtf8 /\ UNCHANGED numberVars => TypeInv'
  <1> SUFFICES ASSUME TypeInv, ReadUtf8, UNCHANGED numberVars PROVE TypeInv'
    OBVIOUS
  <1> DEFINE char == IF At(cursor) < 128 THEN Escaped(At(cursor), cursor + 1)
                     ELSE Utf8At(cursor)
  <1>1. /\ pc = "read" /\ cursor < End /\ input' = input
    BY DEF ReadUtf8, AtText, Reading
  <1>2. ReadsWell(char, cursor)
    <2>1. CASE At(cursor) < 128
      <3>1. At(cursor) \in 0..MaxUnicode /\ cursor + 1 \in cursor..End
        BY <1>1, ReadingTypes, TextFacts
      <3> QED
        BY <2>1, <3>1 DEF ReadsWell, Escaped
    <2>2. CASE ~(At(cursor) < 128)
      <3>1. At(cursor) >= 128
        BY <1>1, <2>2, ReadingTypes, TextFacts, MaxUnicodeFacts
      <3> QED
        BY <1>1, <2>2, <3>1, ReadingTypes, Utf8Facts
    <2> QED
      BY <2>1, <2>2
  <1>3. \/ char.ok /\ Take(<<char.char>>, char.next)
        \/ Done(Error(char.what), char.next) /\ UNCHANGED <<strBuffer, maxchar>>
    BY DEF ReadUtf8
  <1> HIDE DEF char
  <1>4. CASE char.ok /\ Take(<<char.char>>, char.next)
    <2>1. <<char.char>> \in Seq(0..MaxUnicode) /\ char.next \in cursor..End
      BY <1>2, <1>4 DEF ReadsWell
    <2> QED
      BY <1>1, <1>4, <2>1, TakeType
  <1>5. CASE Done(Error(char.what), char.next) /\ UNCHANGED <<strBuffer, maxchar>>
    <2>1. char.next \in 1..End /\ Error(char.what) # Unread
      BY <1>1, <1>2, ReadingTypes DEF ReadsWell, Error, Unread
    <2> QED
      BY <1>1, <1>5, <2>1, StringDoneType
  <1> QED
    BY <1>3, <1>4, <1>5

LEMMA ReadSliceType == TypeInv /\ ReadSlice /\ UNCHANGED numberVars => TypeInv'
  <1> SUFFICES ASSUME TypeInv, ReadSlice, UNCHANGED numberVars PROVE TypeInv'
    OBVIOUS
  <1> DEFINE next == SliceEnd(cursor, Special)
  <1>1. /\ pc = "read" /\ input' = input
        /\ Take(SubSeq(Text, cursor, next - 1), next)
    BY DEF ReadSlice, AtText, Reading
  <1>2. next \in cursor..End
    BY <1>1, ReadingTypes, SliceEnds
  <1> HIDE DEF next
  <1>3. SubSeq(Text, cursor, next - 1) \in Seq(0..MaxUnicode)
    BY <1>1, <1>2, ReadingTypes, Stretch
  <1> QED
    BY <1>1, <1>2, <1>3, TakeType

LEMMA StringEndType ==
    ASSUME TypeInv, EndString \/ NoMemory \/ EndMissing, UNCHANGED numberVars
    PROVE  TypeInv'
  <1>1. CASE EndString
    <2>1. cursor + 1 \in 1..End /\ NewString(maxchar) # Unread
      BY <1>1, ReadingTypes DEF EndString, AtQuote, Reading, NewString, Error, Unread
    <2>2. Error("memory") # Unread
      BY DEF Error, Unread
    <2> QED
      BY <1>1, <2>1, <2>2, StringDoneType DEF EndString, stringVars
  <1>2. CASE NoMemory \/ EndMissing
    <2>1. Error("memory") # Unread /\ Error("end") # Unread /\ cursor \in 1..End
      BY <1>2, ReadingTypes DEF NoMemory, EndMissing, Reading, Error, Unread
    <2> QED
      BY <1>2, <2>1, StringDoneType DEF NoMemory, EndMissing, stringVars
  <1> QED
    BY <1>1, <1>2

-----------------------------------------------------------------------------
LEMMA WordFacts ==
    ASSUME NEW w \in Words
    PROVE  /\ Len(w.word) \in Nat /\ Len(w.word) >= 1 /\ w.word[Len(w.word)] # NUL
           /\ w.value # "none"
  <1>1. CASE w = [word |-> <<116, 114, 117, 101>>, value |-> "true"]
    <2>1. w.word = <<116, 114, 117, 101>> /\ w.value = "true"
      BY <1>1
    <2>2. Len(w.word) = 4 /\ w.word[4] = 101
      BY <2>1
    <2> QED
      BY <2>1, <2>2 DEF NUL
  <1>2. CASE w = [word |-> <<102, 97, 108, 115, 101>>, value |-> "false"]
    <2>1. w.word = <<102, 97, 108, 115, 101>> /\ w.value = "false"
      BY <1>2
    <2>2. Len(w.word) = 5 /\ w.word[5] = 101
      BY <2>1
    <2> QED
      BY <2>1, <2>2 DEF NUL
  <1>3. CASE w = [word |-> <<110, 117, 108, 108>>, value |-> "null"]
    <2>1. w.word = <<110, 117, 108, 108>> /\ w.value = "null"
      BY <1>3
    <2>2. Len(w.word) = 4 /\ w.word[4] = 108
      BY <2>1
    <2> QED
      BY <2>1, <2>2 DEF NUL
  <1> QED
    BY <1>1, <1>2, <1>3 DEF Words

LEMMA ReadWordType == TypeInv /\ ReadWord => TypeInv'
  <1> SUFFICES ASSUME TypeInv, ReadWord PROVE TypeInv'
    OBVIOUS
  <1>1. /\ cursor \in 1..End /\ End \in Nat /\ pc = "value"
        /\ \A j : At(j) # NUL => j \in Nat /\ 1 <= j /\ j < End
    BY Positions, StringTypes DEF ReadWord
  <1>2. /\ cursor' \in 1..End
        /\ pc' = "done" /\ result' # Unread
    <2>1. PICK w \in Words :
             IF Reads(cursor, w.word) THEN Done([kind |-> w.value], cursor + Len(w.word))
             ELSE Done(Error("word"), cursor)
      BY DEF ReadWord
    <2>2. CASE Reads(cursor, w.word)
      <3>1. /\ Len(w.word) \in Nat /\ Len(w.word) >= 1 /\ w.word[Len(w.word)] # NUL
            /\ w.value # "none"
        BY WordFacts
      <3>2. At(cursor + Len(w.word) - 1) # NUL
        BY <2>2, <3>1 DEF Reads
      <3>3. cursor + Len(w.word) \in 1..End
        BY <1>1, <3>1, <3>2
      <3> QED
        BY <2>1, <2>2, <3>1, <3>3 DEF Done, Unread
    <2>3. CASE ~Reads(cursor, w.word)
      BY <1>1, <2>1, <2>3 DEF Done, Unread, Error
    <2> QED
      BY <2>2, <2>3
  <1> QED
    BY <1>2 DEF ReadWord, TypeInv, TypeOK, numberVars, stringVars, Text, End

LEMMA ReadValueType == TypeInv /\ ReadValue => TypeInv'
  <1> SUFFICES ASSUME TypeInv, ReadValue PROVE TypeInv'
    OBVIOUS
  <1>1. /\ cursor \in 1..End /\ End \in Nat /\ pc = "value" /\ result = Unread
        /\ \A j : At(j) # NUL => j \in Nat /\ 1 <= j /\ j < End
    BY Positions, StringTypes DEF ReadValue
  <1>2. /\ cursor' \in 1..End
        /\ pc' \in {"value", "string", "number"}
        /\ pc' = "string" => cursor' > 1
        /\ result' = Unread
    BY <1>1 DEF ReadValue, Quote, NUL
  <1> QED
    BY <1>2 DEF ReadValue, TypeInv, TypeOK, numberVars, stringVars, Text, End,
                NumberLabels, StringLabels

LEMMA InitType == Init => TypeInv
  <1> SUFFICES ASSUME Init PROVE TypeInv
    OBVIOUS
  <1>1. 1 \in 1..End
    BY TextFacts DEF Init
  <1>2. 0 \in -(IntMax + 1)..IntMax
    BY NumberAssumption
  <1>3. floatData \in Seq(FloatChars) /\ strBuffer \in Seq(0..MaxUnicode)
    BY DEF Init, NumberInit, StringInit
  <1>4. TypeOK
    BY <1>1, <1>2, <1>3 DEF Init, NumberInit, TypeOK, FloatChars
  <1> QED
    BY <1>4 DEF Init, NumberInit, TypeInv

LEMMA NextType == TypeInv /\ [Next]_vars => TypeInv'
  <1> SUFFICES ASSUME TypeInv, [Next]_vars PROVE TypeInv'
    OBVIOUS
  <1>1. CASE ReadValue
    BY <1>1, ReadValueType
  <1>2. CASE ReadWord
    BY <1>2, ReadWordType
  <1>3. CASE NumberNext /\ UNCHANGED stringVars
    BY <1>3, ReadNumberType, IntDigitType, BigDigitType, PointType, FractionDigitType,
       ExponentType, ExponentDigitType, MakeFloatType DEF NumberNext
  <1>4. CASE StringNext /\ UNCHANGED numberVars
    BY <1>4, ReadStringType, ReadAsciiType, ReadEscapeType, ReadUtf8Type, ReadSliceType,
       StringEndType DEF StringNext
  <1>5. CASE UNCHANGED vars
    BY <1>5 DEF vars, inputVars, numberVars, stringVars, TypeInv, TypeOK, Text, End, At, IsDigit
  <1> QED
    BY <1>1, <1>2, <1>3, <1>4, <1>5 DEF Next

LEMMA TypeInvariance == Spec => []TypeInv
  BY InitType, NextType, PTL DEF Spec

(* No reader leaves the text, whatever the input is and wherever it ends:   *)
(* each of them stops at the terminator, which none of them steps over, and *)
(* is at a character it expects.                                            *)
THEOREM ReadersInText == Spec => []TypeOK
  BY TypeInvariance, PTL DEF TypeInv

-----------------------------------------------------------------------------
(* What a text of digits is worth.  value of ValueOf is the one function f  *)
(* with Values(f, digits, Len(digits)).                                     *)
Values(f, digits, n) ==
    f = [i \in 0..n |-> IF i = 0 THEN 0 ELSE 10 * f[i - 1] + digits[i] - Zero]

LEMMA ValuesAt ==
    ASSUME NEW f, NEW digits, NEW n \in Nat, Values(f, digits, n), NEW i \in 1..n
    PROVE  f[i] = 10 * f[i - 1] + digits[i] - Zero
  BY DEF Values

LEMMA ValuesExist ==
    ASSUME NEW digits, NEW n \in Nat
    PROVE  \E f : Values(f, digits, n)
  <1> DEFINE S == {m \in Nat : ~\E f : Values(f, digits, m)}
  <1> SUFFICES ASSUME S # {} PROVE FALSE
    OBVIOUS
  <1>1. PICK k \in S : \A m \in S : k <= m
    BY LeastNumber
  <1>2. k \in Nat /\ ~\E f : Values(f, digits, k)
    BY <1>1
  <1>3. k # 0
    <2>1. Values([i \in 0..0 |-> 0], digits, 0)
      BY DEF Values
    <2> QED
      BY <1>2, <2>1
  <1>4. k - 1 \in Nat /\ k - 1 \notin S
    BY <1>1, <1>2, <1>3
  <1>5. PICK f : Values(f, digits, k - 1)
    BY <1>4
  <1> DEFINE h == [i \in 0..k |-> IF i = k THEN 10 * f[k - 1] + digits[k] - Zero ELSE f[i]]
  <1>6. \A i \in 0..(k - 1) : h[i] = f[i]
    BY <1>2, <1>3
  <1>7. \A i \in 0..k : h[i] = IF i = 0 THEN 0 ELSE 10 * h[i - 1] + digits[i] - Zero
    <2> SUFFICES ASSUME NEW i \in 0..k
                 PROVE  h[i] = IF i = 0 THEN 0 ELSE 10 * h[i - 1] + digits[i] - Zero
      OBVIOUS
    <2>1. CASE i = 0
      BY <1>2, <1>3, <1>5, <2>1 DEF Values
    <2>2. CASE i # 0
      <3>1. i - 1 \in 0..(k - 1) /\ h[i - 1] = f[i - 1]
        <4>1. i - 1 \in 0..(k - 1)
          BY <1>2, <2>2
        <4> HIDE DEF h
        <4> QED
          BY <1>6, <4>1
      <3>2. CASE i = k
        BY <2>2, <3>1, <3>2
      <3>3. CASE i # k
        <4>1. i \in 0..(k - 1)
          BY <1>2, <3>3
        <4>2. f[i] = 10 * f[i - 1] + digits[i] - Zero
          BY <1>5, <2>2, <4>1 DEF Values
        <4> QED
          BY <1>6, <2>2, <3>1, <4>1, <4>2
      <3> QED
        BY <3>2, <3>3
    <2> QED
      BY <2>1, <2>2
  <1>8. Values(h, digits, k)
    <2>1. h = [i \in 0..k |-> h[i]]
      OBVIOUS
    <2> HIDE DEF h
    <2> QED
      BY <1>7, <2>1 DEF Values
  <1> QED
    BY <1>2, <1>8

(* The worth of the first digits does not depend on those behind them. *)
LEMMA ValuesAgree ==
    ASSUME NEW a, NEW b, NEW n \in Nat, NEW m \in Nat, n <= m,
           \A i \in 1..n : a[i] = b[i],
           NEW f, Values(f, a, n), NEW h, Values(h, b, m)
    PROVE  f[n] = h[n]
  <1> DEFINE S == {i \in 0..n : f[i] # h[i]}
  <1> SUFFICES ASSUME S # {} PROVE FALSE
    OBVIOUS
  <1>1. PICK k \in S : \A i \in S : k <= i
    <2>1. S \in SUBSET Nat
      OBVIOUS
    <2> HIDE DEF S
    <2> QED
      BY <2>1, LeastNumber
  <1>2. k \in 0..n /\ k \in 0..m
    BY <1>1
  <1>3. /\ f[k] = IF k = 0 THEN 0 ELSE 10 * f[k - 1] + a[k] - Zero
        /\ h[k] = IF k = 0 THEN 0 ELSE 10 * h[k - 1] + b[k] - Zero
    BY <1>2 DEF Values
  <1>4. k # 0 => f[k - 1] = h[k - 1]
    BY <1>1, <1>2
  <1> QED
    BY <1>1, <1>2, <1>3, <1>4

LEMMA ValueIs ==
    ASSUME NEW digits, Len(digits) \in Nat
    PROVE  \E f : Values(f, digits, Len(digits)) /\ ValueOf(digits) = f[Len(digits)]
  <1> DEFINE c == CHOOSE f : Values(f, digits, Len(digits))
  <1>1. Values(c, digits, Len(digits))
    BY ValuesExist
  <1>2. ValueOf(digits) = c[Len(digits)]
    BY DEF ValueOf, Values
  <1> QED
    BY <1>1, <1>2

LEMMA ValueOfNone == ValueOf(<<>>) = 0
  <1>1. PICK f : Values(f, <<>>, 0) /\ ValueOf(<<>>) = f[0]
    <2>1. Len(<<>>) = 0
      OBVIOUS
    <2> QED
      BY <2>1, ValueIs
  <1> QED
    BY <1>1 DEF Values

LEMMA ValueOfMore ==
    ASSUME NEW digits \in Seq(Int), NEW ch \in Int
    PROVE  ValueOf(Append(digits, ch)) = 10 * ValueOf(digits) + ch - Zero
  <1> DEFINE n == Len(digits)
             more == Append(digits, ch)
  <1>1. /\ n \in Nat /\ Len(more) = n + 1 /\ more[n + 1] = ch
        /\ \A i \in 1..n : digits[i] = more[i]
    BY LenProperties, AppendProperties
  <1>2. PICK f : Values(f, digits, n) /\ ValueOf(digits) = f[n]
    BY <1>1, ValueIs
  <1>3. PICK h : Values(h, more, n + 1) /\ ValueOf(more) = h[n + 1]
    <2>1. Len(more) \in Nat /\ Len(more) = n + 1
      BY <1>1
    <2>2. \E h : Values(h, more, Len(more)) /\ ValueOf(more) = h[Len(more)]
      <3> HIDE DEF more
      <3> QED
        BY ONLY <2>1, ValueIs
    <2> QED
      BY <2>1, <2>2
  <1> HIDE DEF n, more
  <1>4. f[n] = h[n]
    BY ONLY <1>1, <1>2, <1>3, ValuesAgree, n + 1 \in Nat, n <= n + 1
  <1>5. h[n + 1] = 10 * h[n] + more[n + 1] - Zero
    <2> DEFINE m == n + 1
    <2>1. m \in Nat /\ m \in 1..m /\ m - 1 = n /\ Values(h, more, m)
      BY <1>1, <1>3
    <2> HIDE DEF m
    <2>2. h[m] = 10 * h[m - 1] + more[m] - Zero
      BY ONLY <2>1, ValuesAt
    <2> QED
      BY <2>1, <2>2 DEF m
  <1> QED
    BY <1>1, <1>2, <1>3, <1>4, <1>5 DEF more

-----------------------------------------------------------------------------
(* The characters from i up to, but not with, the one at j. *)
Between(i, j) == SubSeq(Text, i, j - 1)

LEMMA BetweenFacts ==
    ASSUME input \in Inputs, NEW i \in 1..End, NEW j \in i..End
    PROVE  Between(i, j) \in Seq(Int) /\ Len(Between(i, j)) = j - i
  <1>1. Between(i, j) \in Seq(0..MaxUnicode) /\ Len(Between(i, j)) = j - i
    BY Stretch DEF Between
  <1>2. 0..MaxUnicode \subseteq Int
    BY MaxUnicodeFacts
  <1> QED
    BY <1>1, <1>2, SeqMonotonic

LEMMA BetweenNone ==
    ASSUME input \in Inputs, NEW i \in 1..End
    PROVE  Between(i, i) = <<>>
  <1>1. i \in Int /\ i - 1 \in Int /\ i - 1 < i
    BY TextFacts
  <1> QED
    BY <1>1, SubSeqEmpty DEF Between

LEMMA BetweenMore ==
    ASSUME input \in Inputs, NEW i \in 1..End, NEW j \in i..End, j < End
    PROVE  /\ j + 1 \in i..End
           /\ At(j) \in Int
           /\ Between(i, j + 1) = Append(Between(i, j), At(j))
  <1>1. /\ Text \in Seq(0..MaxUnicode) /\ Len(Text) \in Nat /\ End = Len(Text) + 1
        /\ \A k : At(k) \in 0..MaxUnicode
    BY TextFacts DEF End
  <1>2. i \in 1..(Len(Text) + 1) /\ j \in i..Len(Text) /\ j + 1 - 1 = j /\ j + 1 \in i..End
    BY <1>1
  <1>3. SubSeq(Text, i, j) = Append(SubSeq(Text, i, j - 1), Text[j])
    BY <1>1, <1>2, LongerStretch
  <1>4. At(j) = Text[j]
    BY <1>2 DEF At
  <1> QED
    BY <1>1, <1>2, <1>3, <1>4, MaxUnicodeFacts DEF Between

(* What the digits from i up to j are worth. *)
Worth(i, j) == ValueOf(Between(i, j))

LEMMA WorthNone ==
    ASSUME input \in Inputs, NEW i \in 1..End
    PROVE  Worth(i, i) = 0
  BY BetweenNone, ValueOfNone DEF Worth

LEMMA WorthMore ==
    ASSUME input \in Inputs, NEW i \in 1..End, NEW j \in i..End, j < End
    PROVE  Worth(i, j + 1) = 10 * Worth(i, j) + At(j) - Zero
  BY BetweenFacts, BetweenMore, ValueOfMore DEF Worth

LEMMA WorthIsNat ==
    ASSUME input \in Inputs, NEW i \in 1..End, NEW j \in i..End,
           \A k \in i..(j - 1) : IsDigit(k)
    PROVE  Worth(i, j) \in Nat
  <1> DEFINE S == {n \in i..j : ~(Worth(i, n) \in Nat)}
  <1> SUFFICES ASSUME S # {} PROVE FALSE
    BY TextFacts
  <1>1. End \in Nat /\ S \in SUBSET Nat
    BY TextFacts
  <1>2. PICK m \in S : \A n \in S : m <= n
    <2> HIDE DEF S
    <2> QED
      BY <1>1, LeastNumber
  <1>3. m # i
    BY <1>2, WorthNone
  <1>4. m - 1 \in i..End /\ m - 1 < End /\ m - 1 \in i..(j - 1) /\ m - 1 \notin S
    BY <1>1, <1>2, <1>3
  <1>5. Worth(i, m - 1) \in Nat
    BY <1>1, <1>4
  <1>6. Worth(i, m - 1 + 1) = 10 * Worth(i, m - 1) + At(m - 1) - Zero
    BY <1>4, WorthMore
  <1>7. At(m - 1) \in Nat /\ At(m - 1) >= Zero
    BY <1>4 DEF IsDigit, Digits, Zero
  <1>8. Worth(i, m) \in Nat
    <2>1. m - 1 + 1 = m
      BY <1>2
    <2> QED
      BY <1>5, <1>6, <1>7, <2>1 DEF Zero
  <1> QED
    BY <1>2, <1>8

(* More digits are worth more. *)
LEMMA WorthGrows ==
    ASSUME input \in Inputs, NEW i \in 1..End, NEW j \in i..End,
           \A k \in i..(j - 1) : IsDigit(k), NEW m \in i..j
    PROVE  Worth(i, m) <= Worth(i, j)
  <1> DEFINE S == {n \in m..j : ~(Worth(i, m) <= Worth(i, n))}
  <1> SUFFICES ASSUME S # {} PROVE FALSE
    BY TextFacts
  <1>1. End \in Nat /\ S \in SUBSET Nat
    BY TextFacts
  <1>2. PICK n \in S : \A l \in S : n <= l
    <2> HIDE DEF S
    <2> QED
      BY <1>1, LeastNumber
  <1>3. ASSUME NEW l \in i..j PROVE Worth(i, l) \in Nat
    <2>1. l \in i..End /\ \A k \in i..(l - 1) : IsDigit(k)
      BY <1>1
    <2> QED
      BY <2>1, WorthIsNat
  <1>4. n # m
    BY <1>2, <1>3
  <1>5. /\ n - 1 \in i..End /\ n - 1 < End /\ n - 1 \in i..(j - 1) /\ n - 1 \in i..j
        /\ n - 1 \in m..j /\ n - 1 \notin S
    BY <1>1, <1>2, <1>4
  <1>6. Worth(i, m) <= Worth(i, n - 1)
    BY <1>5
  <1>7. Worth(i, n - 1 + 1) = 10 * Worth(i, n - 1) + At(n - 1) - Zero
    BY <1>5, WorthMore
  <1>8. At(n - 1) \in Nat /\ At(n - 1) >= Zero
    BY <1>5 DEF IsDigit, Digits, Zero
  <1>9. Worth(i, m) <= Worth(i, n)
    <2>1. n - 1 + 1 = n
      BY <1>2
    <2>2. Worth(i, m) \in Nat /\ Worth(i, n - 1) \in Nat
      BY <1>3, <1>5
    <2> QED
      BY <1>6, <1>7, <1>8, <2>1, <2>2 DEF Zero
  <1> QED
    BY <1>2, <1>9

-----------------------------------------------------------------------------
(* The inductive invariant of the number reader: at every label, what has   *)
(* been read is what is written up to the cursor.                           *)

(* What NumberIsRead speaks of. *)
Exact ==
    /\ BeginsNumber(At(1))
    /\ ~WrapsEarly /\ ~WideNegative /\ ~MarkDropped /\ ~PowerTooBig

(* The value of the digits is not to be trusted. *)
Unsigned == input.kind = "ucs4" /\ Signed

SignText == IF external /\ Signed THEN <<Minus>> ELSE <<>>
PointText == IF external THEN <<Dot>> ELSE <<>>
MarkText ==
    IF external THEN IF PowerNegative THEN <<LowerE, Minus>> ELSE <<LowerE>> ELSE <<>>

(* What floatBuffer holds once the int, and the fraction, have been read. *)
IntBuffer == SignText \o IntText
Mantissa == IntBuffer \o (IF HasPoint THEN PointText \o FractionText ELSE <<>>)

(* The exponent that stands for n fraction digits. *)
ScaleOf(n) == IF external THEN 0 ELSE -n

Negated(minus, n) == IF minus THEN -n ELSE n

AtStart == cursor = 1 /\ intValue = 0 /\ exponent = 0 /\ e = 0

InDigits ==
    /\ negative = Signed /\ exponent = 0 /\ e = 0
    /\ At(IntFirst) \in 49..57
    /\ cursor \in IntFirst..(IntEnd - 1)
    /\ floatData = SignText \o Between(IntFirst, cursor)

AtInt ==
    /\ InDigits
    /\ ~Unsigned => /\ Worth(IntFirst, cursor) <= Limit \div 10
                    /\ intValue = Negated(Signed, Worth(IntFirst, cursor))

AtBig ==
    /\ InDigits
    /\ ~Unsigned => ~(Worth(IntFirst, cursor) <= Limit \div 10)

AtPoint ==
    /\ negative = Signed /\ exponent = 0 /\ e = 0
    /\ IsDigit(IntFirst)
    /\ cursor = IntEnd
    /\ floatData = IntBuffer

AtFraction ==
    /\ negative = Signed /\ e = 0
    /\ IsDigit(IntFirst) /\ HasPoint /\ IsDigit(IntEnd + 1)
    /\ cursor \in (IntEnd + 1)..(FractionEnd - 1)
    /\ floatData = IntBuffer \o (PointText \o Between(IntEnd + 1, cursor))
    /\ exponent = ScaleOf(cursor - (IntEnd + 1))

AtExponent ==
    /\ negative = Signed /\ e = 0
    /\ IsDigit(IntFirst) /\ (HasPoint => IsDigit(IntEnd + 1))
    /\ cursor = FractionEnd
    /\ floatData = Mantissa
    /\ exponent = ScaleOf(Len(FractionText))

AtPower ==
    /\ negative = Signed /\ eNegative = PowerNegative
    /\ IsNumber /\ HasExponent
    /\ cursor \in PowerFirst..(NumberEnd - 1)
    /\ exponent = ScaleOf(Len(FractionText))
    /\ IF external
       THEN floatData = (Mantissa \o MarkText) \o Between(PowerFirst, cursor) /\ e = 0
       ELSE /\ floatData = Mantissa /\ HasRoom(floatData)
            /\ e = Negated(PowerNegative, Worth(PowerFirst, cursor))

AtFloat ==
    /\ negative = Signed
    /\ \/ IsDigit(cursor) /\ ~HasRoom(floatData)
       \/ /\ IsNumber /\ ~Fits /\ cursor = NumberEnd
          /\ IF external THEN floatData = TextMeant
             ELSE floatData = IntText \o FractionText /\ exponent = Power - Len(FractionText)

NumberInv ==
    Exact =>
        /\ pc \notin StringLabels
        /\ pc \in {"value", "number"} => AtStart
        /\ pc = "int" => AtInt
        /\ pc = "big" => AtBig
        /\ pc = "point" => AtPoint
        /\ pc = "fraction" => AtFraction
        /\ pc = "exponent" => AtExponent
        /\ pc = "power" => AtPower
        /\ pc = "float" => AtFloat
        /\ NumberIsRead

(* Where the parts of the text are. *)
LEMMA IntPlace ==
    ASSUME input \in Inputs
    PROVE  /\ IntFirst \in 1..End /\ IntEnd \in IntFirst..End
           /\ \A k \in IntFirst..(IntEnd - 1) : IsDigit(k)
           /\ IsDigit(IntFirst) => IntFirst < IntEnd
           /\ At(IntFirst) \in 49..57 => ~IsDigit(IntEnd)
           /\ At(IntFirst) = Zero => IntEnd = IntFirst + 1
  <1>1. End \in Nat /\ \A j : At(j) # NUL => j \in Nat /\ 1 <= j /\ j < End
    BY Positions
  <1>2. End >= 1
    BY TextFacts
  <1>3. IntFirst \in 1..End
    BY <1>1, <1>2 DEF IntFirst, Signed, Minus, NUL
  <1>4. CASE At(IntFirst) = Zero
    <2>1. IntEnd = IntFirst + 1
      BY <1>4 DEF IntEnd
    <2>2. IntFirst < End
      BY <1>1, <1>4 DEF Zero, NUL
    <2>3. IsDigit(IntFirst)
      BY <1>4 DEF IsDigit, Digits, Zero
    <2> QED
      BY <1>1, <1>3, <1>4, <2>1, <2>2, <2>3 DEF Zero
  <1>5. CASE At(IntFirst) # Zero
    <2>1. IntEnd = AfterDigits(IntFirst)
      BY <1>5 DEF IntEnd
    <2>2. /\ IntEnd \in IntFirst..End /\ ~IsDigit(IntEnd)
          /\ \A k \in IntFirst..(IntEnd - 1) : IsDigit(k)
      BY <1>3, <2>1, DigitsEnd
    <2>3. IsDigit(IntFirst) => IntFirst < IntEnd
      BY <1>1, <1>3, <2>2
    <2> QED
      BY <1>3, <1>5, <2>2, <2>3
  <1> QED
    BY <1>4, <1>5

LEMMA FractionPlace ==
    ASSUME input \in Inputs
    PROVE  /\ FractionEnd \in IntEnd..End
           /\ HasPoint => /\ IntEnd + 1 \in 1..End /\ FractionEnd \in (IntEnd + 1)..End
                          /\ ~IsDigit(FractionEnd)
                          /\ \A k \in (IntEnd + 1)..(FractionEnd - 1) : IsDigit(k)
                          /\ IsDigit(IntEnd + 1) => IntEnd + 1 < FractionEnd
           /\ ~HasPoint => FractionEnd = IntEnd
  <1>1. End \in Nat /\ \A j : At(j) # NUL => j \in Nat /\ 1 <= j /\ j < End
    BY Positions
  <1>2. IntEnd \in 1..End
    BY <1>1, IntPlace
  <1>3. CASE HasPoint
    <2>1. IntEnd + 1 \in 1..End
      BY <1>1, <1>2, <1>3 DEF HasPoint, Dot, NUL
    <2>2. FractionEnd = AfterDigits(IntEnd + 1)
      BY <1>3 DEF FractionEnd
    <2>3. /\ FractionEnd \in (IntEnd + 1)..End /\ ~IsDigit(FractionEnd)
          /\ \A k \in (IntEnd + 1)..(FractionEnd - 1) : IsDigit(k)
      BY <2>1, <2>2, DigitsEnd
    <2>4. IsDigit(IntEnd + 1) => IntEnd + 1 < FractionEnd
      BY <1>1, <1>2, <2>3
    <2> QED
      BY <1>2, <1>3, <2>1, <2>3, <2>4
  <1>4. CASE ~HasPoint
    BY <1>2, <1>4 DEF FractionEnd
  <1> QED
    BY <1>3, <1>4

LEMMA PowerPlace ==
    ASSUME input \in Inputs, HasExponent
    PROVE  /\ FractionEnd < End
           /\ PowerFirst \in 1..End /\ NumberEnd \in PowerFirst..End
           /\ ~IsDigit(NumberEnd)
           /\ \A k \in PowerFirst..(NumberEnd - 1) : IsDigit(k)
           /\ IsDigit(PowerFirst) => PowerFirst < NumberEnd
  <1>1. End \in Nat /\ \A j : At(j) # NUL => j \in Nat /\ 1 <= j /\ j < End
    BY Positions
  <1>2. FractionEnd \in Nat /\ FractionEnd < End
    BY <1>1 DEF HasExponent, ExponentMarks, LowerE, UpperE, NUL
  <1>3. PowerFirst \in 1..End
    BY <1>1, <1>2 DEF PowerFirst, Plus, Minus, NUL
  <1>4. NumberEnd = AfterDigits(PowerFirst)
    BY DEF NumberEnd
  <1>5. /\ NumberEnd \in PowerFirst..End /\ ~IsDigit(NumberEnd)
        /\ \A k \in PowerFirst..(NumberEnd - 1) : IsDigit(k)
    BY <1>3, <1>4, DigitsEnd
  <1>6. IsDigit(PowerFirst) => PowerFirst < NumberEnd
    BY <1>1, <1>3, <1>5
  <1> QED
    BY <1>2, <1>3, <1>5, <1>6

(* The parts themselves. *)
LEMMA Parts ==
    ASSUME input \in Inputs
    PROVE  /\ IntText = Between(IntFirst, IntEnd)
           /\ FractionText = IF HasPoint THEN Between(IntEnd + 1, FractionEnd) ELSE <<>>
           /\ PowerText = IF HasExponent THEN Between(PowerFirst, NumberEnd) ELSE <<>>
           /\ IntText \in Seq(Int) /\ Len(IntText) = IntEnd - IntFirst
           /\ FractionText \in Seq(Int)
           /\ Len(FractionText) = IF HasPoint THEN FractionEnd - (IntEnd + 1) ELSE 0
           /\ PowerText \in Seq(Int)
           /\ Len(PowerText) = IF HasExponent THEN NumberEnd - PowerFirst ELSE 0
  <1>1. /\ IntText = Between(IntFirst, IntEnd)
        /\ FractionText = IF HasPoint THEN Between(IntEnd + 1, FractionEnd) ELSE <<>>
        /\ PowerText = IF HasExponent THEN Between(PowerFirst, NumberEnd) ELSE <<>>
    BY DEF IntText, FractionText, PowerText, Between
  <1>2. IntText \in Seq(Int) /\ Len(IntText) = IntEnd - IntFirst
    BY <1>1, IntPlace, BetweenFacts
  <1>3. /\ FractionText \in Seq(Int)
        /\ Len(FractionText) = IF HasPoint THEN FractionEnd - (IntEnd + 1) ELSE 0
    <2>1. CASE HasPoint
      BY <1>1, <2>1, FractionPlace, BetweenFacts
    <2>2. CASE ~HasPoint
      BY <1>1, <2>2
    <2> QED
      BY <2>1, <2>2
  <1>4. /\ PowerText \in Seq(Int)
        /\ Len(PowerText) = IF HasExponent THEN NumberEnd - PowerFirst ELSE 0
    <2>1. CASE HasExponent
      BY <1>1, <2>1, PowerPlace, BetweenFacts
    <2>2. CASE ~HasExponent
      BY <1>1, <2>2
    <2> QED
      BY <2>1, <2>2
  <1> QED
    BY <1>1, <1>2, <1>3, <1>4

LEMMA Buffers ==
    ASSUME input \in Inputs
    PROVE  /\ SignText \in Seq(Int) /\ PointText \in Seq(Int) /\ MarkText \in Seq(Int)
           /\ IntBuffer \in Seq(Int)
           /\ Mantissa \in Seq(Int)
           /\ Len(IntBuffer) = Len(SignText) + Len(IntText)
  <1>1. Minus \in Int /\ Dot \in Int /\ LowerE \in Int
    BY DEF Minus, Dot, LowerE
  <1>2. SignText \in Seq(Int) /\ PointText \in Seq(Int)
    BY <1>1 DEF SignText, PointText
  <1>3. MarkText \in Seq(Int)
    BY <1>1 DEF MarkText
  <1>4. IntBuffer \in Seq(Int) /\ Len(IntBuffer) = Len(SignText) + Len(IntText)
    BY <1>2, Parts, ConcatProperties DEF IntBuffer
  <1>5. Mantissa \in Seq(Int)
    BY <1>2, <1>4, Parts DEF Mantissa
  <1> QED
    BY <1>2, <1>3, <1>4, <1>5

(* The input, and what it means, does not change. *)
LEMMA SameMeaning ==
    ASSUME input' = input, external' = external
    PROVE  /\ (Exact <=> Exact') /\ Signed' = Signed /\ IntFirst' = IntFirst
           /\ IntEnd' = IntEnd /\ (HasPoint <=> HasPoint') /\ FractionEnd' = FractionEnd
           /\ (HasExponent <=> HasExponent') /\ PowerFirst' = PowerFirst
           /\ NumberEnd' = NumberEnd /\ PowerNegative' = PowerNegative
           /\ (IsNumber <=> IsNumber')
           /\ FractionText' = FractionText
           /\ SignText' = SignText /\ PointText' = PointText /\ MarkText' = MarkText
           /\ IntBuffer' = IntBuffer /\ Mantissa' = Mantissa
           /\ TextMeant' = TextMeant /\ IntText' = IntText /\ Power' = Power
           /\ (IsInt <=> IsInt') /\ IntMeant' = IntMeant
           /\ (Fits <=> Fits') /\ Limit' = Limit /\ (Unsigned <=> Unsigned')
           /\ \A i : At(i)' = At(i) /\ (IsDigit(i) <=> IsDigit(i)')
           /\ \A i, j : Between(i, j)' = Between(i, j) /\ Worth(i, j)' = Worth(i, j)
  <1>1. /\ Text' = Text /\ End' = End
        /\ \A i : At(i)' = At(i) /\ (IsDigit(i) <=> IsDigit(i)')
    BY DEF Text, End, At, IsDigit
  <1>2. \A i : AfterDigits(i)' = AfterDigits(i)
    BY DEF AfterDigits, IsDigit, At, Text, End
  <1>3. Signed' = Signed /\ IntFirst' = IntFirst
    BY DEF Signed, IntFirst, At, Text
  <1>4. IntEnd' = IntEnd
    <2>1. AfterDigits(IntFirst)' = AfterDigits(IntFirst)
      BY DEF AfterDigits, IsDigit, At, Text, End, IntFirst, Signed
    <2> QED
      BY <1>3, <2>1 DEF IntEnd, At, Text
  <1>5. (HasPoint <=> HasPoint') /\ FractionEnd' = FractionEnd
    BY DEF HasPoint, FractionEnd, IntEnd, IntFirst, Signed, AfterDigits, IsDigit, At, Text, End
  <1>6. (HasExponent <=> HasExponent') /\ PowerFirst' = PowerFirst
    BY DEF HasExponent, PowerFirst, HasPoint, FractionEnd, IntEnd, IntFirst, Signed,
           AfterDigits, IsDigit, At, Text, End
  <1>7. NumberEnd' = NumberEnd /\ PowerNegative' = PowerNegative
    BY SMTT(30) DEF NumberEnd, PowerNegative, HasExponent, PowerFirst, HasPoint, FractionEnd, IntEnd,
           IntFirst, Signed, AfterDigits, IsDigit, At, Text, End
  <1>8. IsNumber <=> IsNumber'
    BY <1>3, <1>4, <1>5, <1>6 DEF IsNumber, IsDigit, At, Text
  <1>9. IntText' = IntText /\ FractionText' = FractionText /\ PowerText' = PowerText
    BY <1>1, <1>3, <1>4, <1>5, <1>6, <1>7 DEF IntText, FractionText, PowerText
  <1>10. /\ SignText' = SignText /\ PointText' = PointText /\ MarkText' = MarkText
         /\ IntBuffer' = IntBuffer /\ Mantissa' = Mantissa
    BY <1>3, <1>5, <1>7, <1>9 DEF SignText, PointText, MarkText, IntBuffer, Mantissa
  <1>11. TextMeant' = TextMeant
    BY <1>3, <1>5, <1>6, <1>7, <1>9 DEF TextMeant
  <1>12. Power' = Power
    BY <1>7, <1>9 DEF Power, ValueOf
  <1>13. \A i, j : Between(i, j)' = Between(i, j) /\ Worth(i, j)' = Worth(i, j)
    BY DEF Between, Worth, ValueOf, Text
  <1>14. WrapsEarly <=> WrapsEarly'
    BY DEF WrapsEarly, Limit, ValueOf, IntText, IntEnd, IntFirst, Signed, AfterDigits, IsDigit,
           At, Text, End
  <1>15. (MarkDropped <=> MarkDropped') /\ (PowerTooBig <=> PowerTooBig')
    <2>1. ValueOf(PowerText)' = ValueOf(PowerText)
      BY <1>9 DEF ValueOf
    <2> QED
      BY <1>6, <1>7, <1>9, <1>11, <2>1 DEF MarkDropped, PowerTooBig
  <1>16. /\ (IsInt <=> IsInt') /\ IntMeant' = IntMeant
         /\ (Fits <=> Fits') /\ Limit' = Limit /\ (Unsigned <=> Unsigned')
    <2>1. ValueOf(IntText)' = ValueOf(IntText)
      BY <1>9 DEF ValueOf
    <2>2. Limit' = Limit /\ (Unsigned <=> Unsigned')
      BY <1>3 DEF Limit, Unsigned
    <2>3. (IsInt <=> IsInt') /\ IntMeant' = IntMeant
      BY <1>3, <1>5, <1>6, <2>1 DEF IsInt, IntMeant
    <2> QED
      BY <2>1, <2>2, <2>3 DEF Fits
  <1>17. WideNegative <=> WideNegative'
    BY <1>3, <1>16 DEF WideNegative, At, Text
  <1>18. Exact <=> Exact'
    BY <1>1, <1>14, <1>15, <1>17 DEF Exact, At, Text
  <1> QED
    BY <1>1, <1>3, <1>4, <1>5, <1>6, <1>7, <1>8, <1>9, <1>10, <1>11, <1>12, <1>13, <1>16, <1>18

LEMMA NextPlaces ==
    ASSUME input' = input, external' = external
    PROVE  /\ Between(IntFirst, cursor)' = Between(IntFirst, cursor')
           /\ Between(IntEnd + 1, cursor)' = Between(IntEnd + 1, cursor')
           /\ Between(PowerFirst, cursor)' = Between(PowerFirst, cursor')
           /\ Worth(IntFirst, cursor)' = Worth(IntFirst, cursor')
           /\ Worth(PowerFirst, cursor)' = Worth(PowerFirst, cursor')
           /\ At(IntFirst)' = At(IntFirst) /\ (IsDigit(IntFirst)' <=> IsDigit(IntFirst))
           /\ (IsDigit(IntEnd + 1)' <=> IsDigit(IntEnd + 1))
           /\ (IsDigit(cursor)' <=> IsDigit(cursor'))
  <1>1. /\ Text' = Text /\ IntFirst' = IntFirst /\ IntEnd' = IntEnd /\ PowerFirst' = PowerFirst
    BY SameMeaning, SameText
  <1>2. /\ Between(IntFirst, cursor)' = Between(IntFirst, cursor')
        /\ Between(IntEnd + 1, cursor)' = Between(IntEnd + 1, cursor')
        /\ Between(PowerFirst, cursor)' = Between(PowerFirst, cursor')
    BY <1>1 DEF Between
  <1>3. /\ Worth(IntFirst, cursor)' = Worth(IntFirst, cursor')
        /\ Worth(PowerFirst, cursor)' = Worth(PowerFirst, cursor')
    BY <1>2 DEF Worth
  <1>4. /\ At(IntFirst)' = At(IntFirst) /\ (IsDigit(IntFirst)' <=> IsDigit(IntFirst))
        /\ (IsDigit(IntEnd + 1)' <=> IsDigit(IntEnd + 1))
        /\ (IsDigit(cursor)' <=> IsDigit(cursor'))
    BY <1>1 DEF At, IsDigit
  <1> QED
    BY <1>2, <1>3, <1>4

(* The invariant at each label, of the next state. *)
LEMMA NextInt ==
    ASSUME input' = input, external' = external,
           negative' = Signed, exponent' = 0, e' = 0,
           At(IntFirst) \in 49..57,
           cursor' \in IntFirst..(IntEnd - 1),
           floatData' = SignText \o Between(IntFirst, cursor')
    PROVE  /\ InDigits'
           /\ (~Unsigned => /\ Worth(IntFirst, cursor') <= Limit \div 10
                            /\ intValue' = Negated(Signed, Worth(IntFirst, cursor')))
              => AtInt'
           /\ (~Unsigned => ~(Worth(IntFirst, cursor') <= Limit \div 10)) => AtBig'
  <1>1. InDigits'
    BY SameMeaning, NextPlaces DEF InDigits
  <1> QED
    BY <1>1, SameMeaning, NextPlaces DEF AtInt, AtBig, Negated

LEMMA NextPoint ==
    ASSUME input' = input, external' = external,
           negative' = Signed, exponent' = 0, e' = 0,
           IsDigit(IntFirst), cursor' = IntEnd, floatData' = IntBuffer
    PROVE  AtPoint'
  BY SameMeaning, NextPlaces DEF AtPoint

LEMMA NextFraction ==
    ASSUME input' = input, external' = external,
           negative' = Signed, e' = 0,
           IsDigit(IntFirst), HasPoint, IsDigit(IntEnd + 1),
           cursor' \in (IntEnd + 1)..(FractionEnd - 1),
           floatData' = IntBuffer \o (PointText \o Between(IntEnd + 1, cursor')),
           exponent' = ScaleOf(cursor' - (IntEnd + 1))
    PROVE  AtFraction'
  BY SameMeaning, NextPlaces DEF AtFraction, ScaleOf

LEMMA NextExponent ==
    ASSUME input' = input, external' = external,
           negative' = Signed, e' = 0,
           IsDigit(IntFirst), HasPoint => IsDigit(IntEnd + 1),
           cursor' = FractionEnd,
           floatData' = Mantissa,
           exponent' = ScaleOf(Len(FractionText))
    PROVE  AtExponent'
  BY SameMeaning, NextPlaces DEF AtExponent, ScaleOf

LEMMA NextPower ==
    ASSUME input' = input, external' = external,
           negative' = Signed, eNegative' = PowerNegative,
           IsNumber, HasExponent,
           cursor' \in PowerFirst..(NumberEnd - 1),
           exponent' = ScaleOf(Len(FractionText)),
           external => /\ floatData' = (Mantissa \o MarkText) \o Between(PowerFirst, cursor')
                       /\ e' = 0,
           ~external => /\ floatData' = Mantissa /\ HasRoom(floatData')
                        /\ e' = Negated(PowerNegative, Worth(PowerFirst, cursor'))
    PROVE  AtPower'
  BY SameMeaning, NextPlaces DEF AtPower, ScaleOf, HasRoom, Negated

LEMMA NextFloat ==
    ASSUME input' = input, external' = external, negative' = Signed,
           \/ IsDigit(cursor') /\ ~HasRoom(floatData')
           \/ /\ IsNumber /\ ~Fits /\ cursor' = NumberEnd
              /\ external => floatData' = TextMeant
              /\ ~external => /\ floatData' = IntText \o FractionText
                              /\ exponent' = Power - Len(FractionText)
    PROVE  AtFloat'
  BY SameMeaning, NextPlaces DEF AtFloat, HasRoom

(* What may be read in the end. *)
LEMMA NextRefused ==
    ASSUME input' = input, external' = external,
           result'.kind = "error", ~IsNumber \/ Len(TextMeant) > MaxDigits
    PROVE  NumberIsRead'
  BY SameMeaning DEF NumberIsRead

LEMMA NextIntRead ==
    ASSUME input' = input, external' = external,
           result' = [kind |-> "int", value |-> IntMeant], IsInt, cursor' = NumberEnd
    PROVE  NumberIsRead'
  BY SameMeaning DEF NumberIsRead, Meant

LEMMA NextName ==
    ASSUME input' = input, external' = external,
           result'.kind \in {"infinity", "nan"}, ~IsNumber
    PROVE  NumberIsRead'
  BY SameMeaning DEF NumberIsRead, Meant

LEMMA NextText ==
    ASSUME input' = input, external' = external,
           result'.kind = "text", result'.text = TextMeant, cursor' = NumberEnd, ~Fits
    PROVE  NumberIsRead'
  BY SameMeaning DEF NumberIsRead, Meant

LEMMA NextFloatRead ==
    ASSUME input' = input, external' = external,
           result'.kind = "float", result'.negative = Signed,
           result'.digits = IntText \o FractionText,
           result'.exponent = Power - Len(FractionText),
           cursor' = NumberEnd, ~Fits
    PROVE  NumberIsRead'
  BY SameMeaning DEF NumberIsRead, Meant, FloatMeant

LEMMA NextCutShort ==
    ASSUME input' = input, external' = external,
           result'.kind # "error", IsDigit(cursor'), ~HasRoom(floatData')
    PROVE  NumberIsRead'
  BY SameMeaning, NextPlaces DEF NumberIsRead, HasRoom

(* What a step to each label has to show. *)
LEMMA StepReads ==
    ASSUME NumberInv, input' = input, external' = external,
           Exact =>
               \/ pc' \in {"value", "number"} /\ AtStart'
               \/ pc' = "int" /\ AtInt'
               \/ pc' = "big" /\ AtBig'
               \/ pc' = "point" /\ AtPoint'
               \/ pc' = "fraction" /\ AtFraction'
               \/ pc' = "exponent" /\ AtExponent'
               \/ pc' = "power" /\ AtPower'
               \/ pc' = "float" /\ AtFloat'
               \/ pc' = "done" /\ NumberIsRead'
    PROVE  NumberInv'
  <1> SUFFICES ASSUME Exact'
               PROVE  /\ pc' \notin StringLabels
                      /\ pc' \in {"value", "number"} => AtStart'
                      /\ pc' = "int" => AtInt'
                      /\ pc' = "big" => AtBig'
                      /\ pc' = "point" => AtPoint'
                      /\ pc' = "fraction" => AtFraction'
                      /\ pc' = "exponent" => AtExponent'
                      /\ pc' = "power" => AtPower'
                      /\ pc' = "float" => AtFloat'
                      /\ NumberIsRead'
    BY DEF NumberInv
  <1>1. Exact
    BY SameMeaning
  <1>2. pc' # "done" => NumberIsRead'
    BY DEF NumberIsRead, NumberText
  <1> HIDE DEF AtStart, AtInt, AtBig, AtPoint, AtFraction, AtExponent, AtPower, AtFloat,
               NumberIsRead
  <1> QED
    BY <1>1, <1>2, Zenon DEF StringLabels

LEMMA Negatives == \A n \in Int : -n = 0 - n /\ (n = 0 => -n = 0)
  <1>1. \A n \in Int : 0 - n = -n
    OBVIOUS
  <1>2. \A n \in Int : n = 0 => 0 - n = 0
    OBVIOUS
  <1> QED
    BY <1>1, <1>2, Zenon

LEMMA NegatedIs ==
    ASSUME NEW minus, NEW n \in Int
    PROVE  /\ minus => Negated(minus, n) = 0 - n
           /\ ~minus => Negated(minus, n) = n
           /\ n = 0 => Negated(minus, n) = 0
  BY Negatives, Zenon DEF Negated

LEMMA ScaleIs ==
    ASSUME NEW n \in Int
    PROVE  /\ external => ScaleOf(n) = 0
           /\ ~external => ScaleOf(n) = 0 - n
           /\ n = 0 => ScaleOf(n) = 0
  BY Negatives, Zenon DEF ScaleOf

LEMMA ContinuationIs ==
    ASSUME NEW ch
    PROVE  /\ Continuation(ch) = "point" => ch = Dot
           /\ Continuation(ch) = "exponent" => ch # Dot /\ ch \in ExponentMarks
           /\ Continuation(ch) = "float" => ch # Dot /\ ch \notin ExponentMarks
  BY DEF Continuation, ExponentMarks, Dot, LowerE, UpperE

LEMMA Limits == Limit \in Nat /\ Limit >= 10 /\ Limit \div 10 \in Nat /\ 10 * (Limit \div 10) <= Limit
  <1>1. IntMax \in Nat /\ IntMax > 9
    BY NumberAssumption
  <1>2. Limit = IntMax + 1 \/ Limit = IntMax
    BY DEF Limit
  <1> QED
    BY <1>1, <1>2

LEMMA NoPower ==
    ASSUME ~HasExponent
    PROVE  PowerText = <<>> /\ ~PowerNegative /\ Power = 0
  <1>1. PowerText = <<>> /\ ~PowerNegative
    BY DEF PowerText, PowerNegative
  <1> QED
    BY <1>1, ValueOfNone DEF Power

(* Behind the integer part. *)
LEMMA AfterInt ==
    ASSUME input \in Inputs, external \in BOOLEAN, input' = input, external' = external,
           negative' = Signed, exponent' = 0, e' = 0,
           IsDigit(IntFirst), cursor' = IntEnd, floatData' = IntBuffer,
           pc' = Continuation(At(IntEnd)), pc' = "float" => ~Fits
    PROVE  \/ pc' = "point" /\ AtPoint'
           \/ pc' = "exponent" /\ AtExponent'
           \/ pc' = "float" /\ AtFloat'
  <1>1. CASE pc' = "point"
    BY <1>1, NextPoint
  <1>2. ASSUME pc' # "point"
        PROVE  ~HasPoint /\ FractionEnd = IntEnd /\ FractionText = <<>> /\ Len(FractionText) = 0
    <2>1. ~HasPoint
      BY <1>2, ContinuationLabel, ContinuationIs DEF HasPoint
    <2> QED
      BY <2>1, FractionPlace, Parts
  <1>3. CASE pc' = "exponent"
    <2>1. Mantissa = IntBuffer
      BY <1>2, <1>3, Buffers, ConcatEmptySeq DEF Mantissa
    <2>2. ScaleOf(Len(FractionText)) = 0
      <3>1. Len(FractionText) \in Int
        BY <1>2, <1>3
      <3> QED
        BY <1>2, <1>3, <3>1, ScaleIs, Zenon
    <2> QED
      BY <1>2, <1>3, <2>1, <2>2, NextExponent
  <1>4. CASE pc' = "float"
    <2>1. At(IntEnd) \notin ExponentMarks
      BY <1>4, ContinuationIs
    <2>2. ~HasExponent /\ NumberEnd = IntEnd
      BY <1>2, <1>4, <2>1 DEF HasExponent, NumberEnd
    <2>3. IsNumber
      BY <1>2, <1>4, <2>2 DEF IsNumber
    <2>4. external => floatData' = TextMeant
      <3> SUFFICES ASSUME external PROVE IntBuffer = TextMeant
        OBVIOUS
      <3>1. SignText = IF Signed THEN <<Minus>> ELSE <<>>
        BY DEF SignText
      <3>2. TextMeant = (((IntBuffer \o <<>>) \o <<>>) \o <<>>) \o <<>>
        BY <1>2, <1>4, <2>2, <3>1, NoPower DEF TextMeant, IntBuffer
      <3> QED
        BY <3>2, Buffers, ConcatEmptySeq
    <2>5. ~external => /\ floatData' = IntText \o FractionText
                       /\ exponent' = Power - Len(FractionText)
      <3> SUFFICES ASSUME ~external
                   PROVE  IntBuffer = IntText \o FractionText /\ 0 = Power - Len(FractionText)
        OBVIOUS
      <3>1. SignText = <<>>
        BY DEF SignText
      <3>2. IntBuffer = IntText /\ IntText \o FractionText = IntText
        BY <1>2, <1>4, <3>1, Parts, ConcatEmptySeq DEF IntBuffer
      <3>3. Power = 0 /\ Len(FractionText) = 0
        BY <1>2, <1>4, <2>2, NoPower
      <3>4. 0 = 0 - 0
        OBVIOUS
      <3> QED
        BY <3>2, <3>3, <3>4
    <2> QED
      BY <1>4, <2>2, <2>3, <2>4, <2>5, NextFloat
  <1> QED
    BY <1>1, <1>3, <1>4, ContinuationLabel

(* ReadNumber *)
LEMMA ReadNumberReads ==
    ASSUME TypeInv, NumberInv, ReadNumber
    PROVE  NumberInv'
  <1> DEFINE minus == At(cursor) = Minus
             i == IF minus THEN cursor + 1 ELSE cursor
             sign == IF minus /\ external THEN <<Minus>> ELSE <<>>
             next == Continuation(At(i + 1))
  <1> SUFFICES ASSUME Exact
               PROVE  \/ pc' = "int" /\ AtInt'
                      \/ pc' = "point" /\ AtPoint'
                      \/ pc' = "exponent" /\ AtExponent'
                      \/ pc' = "float" /\ AtFloat'
                      \/ pc' = "done" /\ NumberIsRead'
    BY StepReads DEF ReadNumber
  <1>1. /\ AtStart /\ input \in Inputs /\ input' = input /\ external' = external
        /\ intValue' = intValue /\ exponent' = exponent /\ e' = e
    BY DEF NumberInv, ReadNumber, TypeInv
  <1>2. /\ minus = Signed /\ i = IntFirst /\ sign = SignText
    BY <1>1 DEF AtStart, Signed, IntFirst, SignText
  <1>3. negative' = Signed
    BY <1>2 DEF ReadNumber
  <1> HIDE DEF minus, sign, next
  <1>4. CASE At(i) \in 49..57 /\ floatData' = sign /\ cursor' = i /\ pc' = "int"
    <2>1. At(IntFirst) \in 49..57 /\ cursor' = IntFirst /\ floatData' = SignText
      BY <1>2, <1>4
    <2>2. cursor' \in IntFirst..(IntEnd - 1)
      <3>1. IsDigit(IntFirst)
        BY <2>1 DEF IsDigit, Digits
      <3> QED
        BY <1>1, <2>1, <3>1, IntPlace, Positions
    <2>3. floatData' = SignText \o Between(IntFirst, cursor')
      BY <1>1, <2>1, IntPlace, BetweenNone, Buffers, ConcatEmptySeq
    <2>4. /\ Worth(IntFirst, cursor') <= Limit \div 10
          /\ intValue' = Negated(Signed, Worth(IntFirst, cursor'))
      <3>1. Worth(IntFirst, cursor') = 0
        BY <1>1, <2>1, IntPlace, WorthNone
      <3>2. 0 <= Limit \div 10
        BY Limits
      <3>3. Negated(Signed, 0) = 0
        <4>1. 0 \in Int
          OBVIOUS
        <4> QED
          BY <4>1, NegatedIs, Zenon
      <3> QED
        BY <1>1, <3>1, <3>2, <3>3 DEF AtStart
    <2>5. exponent' = 0 /\ e' = 0
      BY <1>1 DEF AtStart
    <2> QED
      BY <1>1, <1>3, <1>4, <2>1, <2>2, <2>3, <2>4, <2>5, NextInt
  <1>5. CASE /\ At(i) = Zero /\ next # "float"
             /\ floatData' = Append(sign, Zero) /\ cursor' = i + 1 /\ pc' = next
    <2>1. At(IntFirst) = Zero /\ IsDigit(IntFirst) /\ cursor' = IntEnd
      BY <1>1, <1>2, <1>5, IntPlace DEF IsDigit, Digits, Zero
    <2>2. floatData' = IntBuffer
      <3>1. IntText = <<Zero>>
        <4>1. Between(IntFirst, IntFirst + 1) = Append(Between(IntFirst, IntFirst), At(IntFirst))
          <5>1. IntFirst < End
            BY <1>1, <2>1, Positions DEF Zero, NUL
          <5>2. IntFirst \in 1..End /\ IntFirst \in IntFirst..End
            BY <1>1, IntPlace
          <5> QED
            BY <1>1, <5>1, <5>2, BetweenMore
        <4>2. Between(IntFirst, IntFirst) = <<>>
          BY <1>1, IntPlace, BetweenNone
        <4>3. IntText = Between(IntFirst, IntFirst + 1)
          BY <1>1, <2>1, IntPlace, Parts
        <4> QED
          BY <2>1, <4>1, <4>2, <4>3
      <3>2. Append(SignText, Zero) = SignText \o <<Zero>>
        BY <1>1, Buffers, AppendIsConcat DEF Zero
      <3> QED
        BY <1>2, <1>5, <3>1, <3>2 DEF IntBuffer
    <2>3. exponent' = 0 /\ e' = 0
      BY <1>1 DEF AtStart
    <2>4. next = Continuation(At(IntEnd))
      BY <1>1, <1>2, <2>1, IntPlace DEF next
    <2>5. external \in BOOLEAN /\ pc' = Continuation(At(IntEnd)) /\ pc' # "float"
      BY <1>5, <2>4 DEF TypeInv
    <2>6. \/ pc' = "point" /\ AtPoint'
          \/ pc' = "exponent" /\ AtExponent'
          \/ pc' = "float" /\ AtFloat'
      BY <1>1, <1>3, <2>1, <2>2, <2>3, <2>5, AfterInt
    <2> QED
      BY <2>6
  <1>6. CASE At(i) = Zero /\ next = "float" /\ Done([kind |-> "int", value |-> 0], i + 1)
    <2>1. At(IntFirst) = Zero /\ cursor' = IntEnd
      BY <1>1, <1>2, <1>6, IntPlace DEF Done
    <2>2. ~HasPoint /\ ~HasExponent /\ NumberEnd = IntEnd
      <3>1. next = Continuation(At(IntEnd))
        BY <1>1, <1>2, <2>1, IntPlace DEF next
      <3>2. At(IntEnd) # Dot /\ At(IntEnd) \notin ExponentMarks
        BY <1>6, <3>1, ContinuationIs
      <3> QED
        BY <3>2 DEF HasPoint, FractionEnd, HasExponent, NumberEnd
    <2>3. IntMeant = 0
      <3>1. ValueOf(IntText) = 0
        <4>1. /\ IntFirst \in 1..End /\ IntFirst \in IntFirst..End /\ IntFirst < End
          BY <1>1, <2>1, IntPlace, Positions DEF Zero, NUL
        <4>2. Worth(IntFirst, IntFirst + 1) = 10 * Worth(IntFirst, IntFirst) + Zero - Zero
          BY <1>1, <2>1, <4>1, WorthMore
        <4>3. ValueOf(IntText) = Worth(IntFirst, IntFirst + 1)
          BY <1>1, <2>1, IntPlace, Parts DEF Worth
        <4> QED
          BY <1>1, <4>1, <4>2, <4>3, WorthNone DEF Zero
      <3>2. 0 \in Int
        OBVIOUS
      <3> QED
        BY <3>1, <3>2, Negatives, Zenon DEF IntMeant
    <2>4. pc' = "done" /\ result' = [kind |-> "int", value |-> IntMeant] /\ IsInt
      BY <1>6, <2>2, <2>3 DEF Done, IsInt
    <2> QED
      BY <1>1, <2>1, <2>2, <2>4, NextIntRead
  <1>7. CASE /\ At(i) \notin Digits
             /\ pc' = "done" /\ result'.kind \in {"infinity", "nan", "error"}
    <2>1. ~IsNumber
      BY <1>2, <1>7 DEF IsNumber, IsDigit
    <2> QED
      BY <1>1, <1>7, <2>1, NextName, NextRefused
  <1> QED
    <2>1. \/ /\ At(i) \in 49..57 /\ floatData' = sign /\ cursor' = i /\ pc' = "int"
          \/ /\ At(i) = Zero /\ next # "float"
             /\ floatData' = Append(sign, Zero) /\ cursor' = i + 1 /\ pc' = next
          \/ At(i) = Zero /\ next = "float" /\ Done([kind |-> "int", value |-> 0], i + 1)
          \/ /\ Reads(i, <<73, 110, 102, 105, 110, 105, 116, 121>>)
             /\ Done([kind |-> "infinity", negative |-> minus], i + 8)
          \/ /\ Reads(i, <<78, 97, 78>>)
             /\ Done([kind |-> "nan"], i + 3)
          \/ /\ ~IsDigit(i)
             /\ Done(Error(IF i >= End THEN "end" ELSE "number"), i)
      BY DEF ReadNumber, minus, sign, next
    <2>2. CASE Reads(i, <<73, 110, 102, 105, 110, 105, 116, 121>>)
      <3>1. At(i) = 73
        <4> DEFINE infinity == <<73, 110, 102, 105, 110, 105, 116, 121>>
        <4>1. Len(infinity) = 8 /\ infinity[1] = 73 /\ 1 \in 1..Len(infinity)
          OBVIOUS
        <4>2. At(i + 1 - 1) = 73
          BY <2>2, <4>1 DEF Reads
        <4> QED
          BY <1>1, <1>2, <4>2, IntPlace
      <3>2. At(i) \notin Digits /\ At(i) \notin 49..57 /\ At(i) # Zero
        BY <3>1 DEF Digits, Zero
      <3>3. pc' = "done" /\ result'.kind \in {"infinity", "nan", "error"}
        BY <2>1, <3>2 DEF Done, Error
      <3> QED
        BY <1>7, <3>2, <3>3
    <2>3. CASE Reads(i, <<78, 97, 78>>)
      <3>1. At(i) = 78
        <4> DEFINE nan == <<78, 97, 78>>
        <4>1. Len(nan) = 3 /\ nan[1] = 78 /\ 1 \in 1..Len(nan)
          OBVIOUS
        <4>2. At(i + 1 - 1) = 78
          BY <2>3, <4>1 DEF Reads
        <4> QED
          BY <1>1, <1>2, <4>2, IntPlace
      <3>2. At(i) \notin Digits /\ At(i) \notin 49..57 /\ At(i) # Zero
        BY <3>1 DEF Digits, Zero
      <3>3. pc' = "done" /\ result'.kind \in {"infinity", "nan", "error"}
        BY <2>1, <3>2 DEF Done, Error
      <3> QED
        BY <1>7, <3>2, <3>3
    <2>4. CASE ~IsDigit(i) /\ Done(Error(IF i >= End THEN "end" ELSE "number"), i)
      <3>1. At(i) \notin Digits
        BY <2>4 DEF IsDigit
      <3>2. pc' = "done" /\ result'.kind = "error"
        BY <2>4 DEF Done, Error
      <3> QED
        BY <1>7, <3>1, <3>2
    <2> QED
      BY <1>4, <1>5, <1>6, <2>1, <2>2, <2>3, <2>4

(* A digit is read: the buffer, and the number it stands for. *)
LEMMA BufferMore ==
    ASSUME input \in Inputs, NEW b \in Seq(Int), NEW i \in 1..End, NEW j \in i..End, j < End
    PROVE  Append(b \o Between(i, j), At(j)) = b \o Between(i, j + 1)
  <1> DEFINE s == Between(i, j)
  <1>1. s \in Seq(Int) /\ At(j) \in Int /\ Between(i, j + 1) = Append(s, At(j))
    BY BetweenFacts, BetweenMore
  <1> HIDE DEF s
  <1>2. Append(s, At(j)) = s \o <<At(j)>> /\ <<At(j)>> \in Seq(Int) /\ b \o s \in Seq(Int)
    BY <1>1, AppendIsConcat
  <1>3. Append(b \o s, At(j)) = (b \o s) \o <<At(j)>>
    BY <1>1, <1>2, AppendIsConcat
  <1>4. (b \o s) \o <<At(j)>> = b \o (s \o <<At(j)>>)
    BY <1>1, <1>2, ConcatAssociative, SMTT(30)
  <1> QED
    BY <1>1, <1>2, <1>3, <1>4 DEF s

LEMMA BetweenStart ==
    ASSUME input \in Inputs, NEW i \in 1..End, NEW j \in i..End, NEW k \in 0..(j - i)
    PROVE  SubSeq(Between(i, j), 1, k) = Between(i, i + k)
  <1> DEFINE s == Between(i, j)
             a == SubSeq(s, 1, k)
             b == Between(i, i + k)
  <1>1. i \in Nat /\ j \in Nat /\ k \in Nat /\ End \in Nat /\ i + k \in i..End /\ k <= j - i
    BY TextFacts
  <1>2. s \in Seq(0..MaxUnicode) /\ Len(s) = j - i /\ \A n \in 1..(j - i) : s[n] = At(i + n - 1)
    BY Stretch DEF Between
  <1>3. b \in Seq(0..MaxUnicode) /\ Len(b) = k /\ \A n \in 1..k : b[n] = At(i + n - 1)
    <2> DEFINE m == i + k
    <2>1. m \in i..End /\ m - i = k
      BY <1>1
    <2> HIDE DEF m
    <2>2. /\ Between(i, m) \in Seq(0..MaxUnicode) /\ Len(Between(i, m)) = m - i
          /\ \A n \in 1..(m - i) : Between(i, m)[n] = At(i + n - 1)
      BY <2>1, Stretch DEF Between
    <2> QED
      BY <2>1, <2>2 DEF m
  <1> HIDE DEF s, b
  <1>4. a \in Seq(0..MaxUnicode) /\ Len(a) = k /\ \A n \in 1..k : a[n] = s[n]
    BY <1>1, <1>2, Prefix
  <1> HIDE DEF a
  <1>5. \A n \in 1..k : a[n] = b[n]
    BY <1>1, <1>2, <1>3, <1>4
  <1>6. a = b
    BY <1>3, <1>4, <1>5, SeqEqual
  <1> QED
    BY <1>6 DEF a, b, s

(* Where the digit at the cursor is, in the integer part. *)
LEMMA IntCursor ==
    ASSUME input \in Inputs, InDigits
    PROVE  /\ IntFirst \in 1..End /\ cursor \in IntFirst..End /\ cursor < End
           /\ cursor \in Nat /\ IntFirst \in Nat /\ IntEnd \in Nat /\ End \in Nat
           /\ cursor + 1 \in IntFirst..IntEnd
           /\ IsDigit(cursor) /\ IsDigit(IntFirst)
           /\ ~IsDigit(IntEnd)
           /\ IsDigit(cursor + 1) <=> cursor + 1 \in IntFirst..(IntEnd - 1)
           /\ Append(floatData, At(cursor)) = SignText \o Between(IntFirst, cursor + 1)
  <1>1. /\ At(IntFirst) \in 49..57 /\ cursor \in IntFirst..(IntEnd - 1)
        /\ floatData = SignText \o Between(IntFirst, cursor)
    BY DEF InDigits
  <1>2. /\ IntFirst \in 1..End /\ IntEnd \in IntFirst..End
        /\ ~IsDigit(IntEnd)
        /\ \A k \in IntFirst..(IntEnd - 1) : IsDigit(k)
    BY <1>1, IntPlace
  <1>3. End \in Nat
    BY Positions
  <1>4. /\ cursor \in IntFirst..End /\ cursor < End
        /\ cursor \in Nat /\ IntFirst \in Nat /\ IntEnd \in Nat
        /\ cursor + 1 \in IntFirst..IntEnd
    BY <1>1, <1>2, <1>3
  <1>5. IsDigit(cursor) /\ IsDigit(IntFirst)
    <2>1. IntFirst \in IntFirst..(IntEnd - 1)
      BY <1>1, <1>4
    <2> QED
      BY <1>1, <1>2, <2>1
  <1>6. IsDigit(cursor + 1) <=> cursor + 1 \in IntFirst..(IntEnd - 1)
    <2>1. CASE cursor + 1 \in IntFirst..(IntEnd - 1)
      BY <1>2, <2>1
    <2>2. CASE cursor + 1 \notin IntFirst..(IntEnd - 1)
      <3>1. cursor + 1 = IntEnd
        BY <1>4, <2>2
      <3> QED
        BY <1>2, <2>2, <3>1
    <2> QED
      BY <2>1, <2>2
  <1>7. Append(floatData, At(cursor)) = SignText \o Between(IntFirst, cursor + 1)
    BY <1>1, <1>2, <1>4, Buffers, BufferMore
  <1> QED
    BY <1>2, <1>3, <1>4, <1>5, <1>6, <1>7

LEMMA DigitIs ==
    ASSUME NEW i, IsDigit(i)
    PROVE  Digit(i) \in 0..9 /\ Digit(i) = At(i) - Zero /\ At(i) \in Int
  BY DEF IsDigit, Digit, Digits, Zero

LEMMA ConvertIs ==
    ASSUME NEW minus, NEW i, IsDigit(i)
    PROVE  /\ minus /\ input.kind # "ucs4" => Convert(minus, i) = 0 - Digit(i)
           /\ minus => \/ Convert(minus, i) = 0 - Digit(i)
                       \/ Digit(i) # 0 /\ Convert(minus, i) = 2 * (ExpMax + 1) - Digit(i)
           /\ ~minus => Convert(minus, i) = Digit(i)
  <1>1. Digit(i) \in Int
    BY DigitIs
  <1> QED
    BY <1>1, Negatives, Zenon DEF Convert

(* The int that has been read, and the one with the digit at the cursor. *)
LEMMA IntWorth ==
    ASSUME input \in Inputs, InDigits, ~WrapsEarly, ~Unsigned,
           Worth(IntFirst, cursor) <= Limit \div 10,
           intValue = Negated(Signed, Worth(IntFirst, cursor))
    PROVE  /\ Worth(IntFirst, cursor + 1) \in Nat
           /\ Worth(IntFirst, cursor + 1) <= Limit + 9
           /\ IsDigit(cursor + 1) => Worth(IntFirst, cursor + 1) <= Limit
           /\ Signed => intValue * 10 + Convert(negative, cursor) = 0 - Worth(IntFirst, cursor + 1)
           /\ ~Signed => intValue * 10 + Convert(negative, cursor) = Worth(IntFirst, cursor + 1)
  <1> DEFINE v == Worth(IntFirst, cursor)
             w == Worth(IntFirst, cursor + 1)
             d == Digit(cursor)
             k == cursor + 1 - IntFirst
  <1>1. /\ IntFirst \in 1..End /\ cursor \in IntFirst..End /\ cursor < End
        /\ cursor \in Nat /\ IntFirst \in Nat /\ IntEnd \in Nat /\ End \in Nat
        /\ cursor + 1 \in IntFirst..IntEnd /\ IsDigit(cursor)
        /\ IsDigit(cursor + 1) => cursor + 1 \in IntFirst..(IntEnd - 1)
        /\ IntEnd \in IntFirst..End
        /\ \A j \in IntFirst..(IntEnd - 1) : IsDigit(j)
    BY IntCursor, IntPlace
  <1>2. d \in 0..9 /\ d = At(cursor) - Zero /\ At(cursor) \in Int
    BY <1>1, DigitIs
  <1>3. v \in Nat
    <2>1. \A j \in IntFirst..(cursor - 1) : IsDigit(j)
      BY <1>1
    <2> QED
      BY <1>1, <2>1, WorthIsNat
  <1>4. w = 10 * v + d
    <2>1. w = 10 * v + At(cursor) - Zero
      BY <1>1, WorthMore
    <2> HIDE DEF v, w, d
    <2> QED
      BY <1>2, <1>3, <2>1 DEF Zero
  <1>5. w \in Nat /\ w <= Limit + 9
    <2>1. v <= Limit \div 10
      OBVIOUS
    <2> HIDE DEF v, w, d
    <2> QED
      BY <1>2, <1>3, <1>4, <2>1, Limits
  <1>6. ASSUME IsDigit(cursor + 1) PROVE w <= Limit
    <2>1. k \in 1..(Len(IntText) - 1) /\ k \in 0..(IntEnd - IntFirst) /\ k - 1 \in 0..(IntEnd - IntFirst)
          /\ IntFirst + k = cursor + 1 /\ IntFirst + (k - 1) = cursor
      BY <1>1, <1>6, Parts
    <2>2. ValueOf(SubSeq(IntText, 1, k)) = w /\ ValueOf(SubSeq(IntText, 1, k - 1)) = v
      <3> HIDE DEF k
      <3>1. IntText = Between(IntFirst, IntEnd)
        BY Parts
      <3>2. SubSeq(IntText, 1, k) = Between(IntFirst, IntFirst + k)
        BY <1>1, <2>1, <3>1, BetweenStart
      <3>3. SubSeq(IntText, 1, k - 1) = Between(IntFirst, IntFirst + (k - 1))
        BY <1>1, <2>1, <3>1, BetweenStart
      <3> QED
        BY <2>1, <3>2, <3>3 DEF Worth
    <2>3. v <= Limit \div 10 => ~(w > Limit)
      <3> HIDE DEF k, v, w
      <3> QED
        BY <2>1, <2>2 DEF WrapsEarly, Limit
    <2> HIDE DEF w
    <2> QED
      BY <1>5, <2>3, Limits DEF v
  <1>7. negative = Signed
    BY DEF InDigits
  <1>8. /\ Signed => intValue * 10 + Convert(negative, cursor) = 0 - w
        /\ ~Signed => intValue * 10 + Convert(negative, cursor) = w
    <2>1. /\ Signed => Negated(Signed, v) = 0 - v /\ Convert(Signed, cursor) = 0 - d
          /\ ~Signed => Negated(Signed, v) = v /\ Convert(Signed, cursor) = d
      <3>1. v \in Int
        BY <1>3
      <3> HIDE DEF v
      <3> QED
        BY <1>1, <3>1, NegatedIs, ConvertIs, Zenon DEF Unsigned
    <2>2. /\ Signed => intValue = 0 - v /\ Convert(negative, cursor) = 0 - d
          /\ ~Signed => intValue = v /\ Convert(negative, cursor) = d
      BY <1>7, <2>1, Zenon
    <2> HIDE DEF v, w, d
    <2>5. (0 - v) * 10 + (0 - d) = 0 - (10 * v + d)
      BY <1>2, <1>3
    <2>3. ASSUME Signed PROVE intValue * 10 + Convert(negative, cursor) = 0 - w
      BY <1>4, <2>2, <2>3, <2>5
    <2>4. ASSUME ~Signed PROVE intValue * 10 + Convert(negative, cursor) = w
      BY <1>2, <1>3, <1>4, <2>2, <2>4
    <2> QED
      BY <2>3, <2>4
  <1> QED
    BY <1>5, <1>6, <1>8

(* What the int is with the digit, and what IsOk and CheckOverflow say of   *)
(* it: what has wrapped around has the wrong sign.                          *)
LEMMA IntWrapped ==
    ASSUME negative = Signed, NEW w \in Nat, w <= Limit + 9, NEW m \in Int,
           Signed => m = 0 - w, ~Signed => m = w
    PROVE  /\ Wrapped(m, IntMax) \in Int
           /\ w <= Limit =>
                /\ Signed => Wrapped(m, IntMax) = 0 - w
                /\ ~Signed => Wrapped(m, IntMax) = w
                /\ IsOk(Wrapped(m, IntMax)) <=> w <= Limit \div 10
                /\ CheckOverflow(Wrapped(m, IntMax))
           /\ w > Limit => ~CheckOverflow(Wrapped(m, IntMax))
  <1> DEFINE n == Wrapped(m, IntMax)
  <1>1. IntMax \in Nat /\ IntMax > 9
    BY NumberAssumption
  <1>2. n \in Int
    BY <1>1, WrappedRange
  <1>3. CASE Signed
    <2>1. Limit = IntMax + 1 /\ m = 0 - w /\ negative
      BY <1>3 DEF Limit
    <2>2. ASSUME w <= Limit PROVE n = 0 - w
      <3>1. m \in -(IntMax + 1)..IntMax
        BY <1>1, <2>1, <2>2
      <3> QED
        BY <1>1, <2>1, <3>1, WrappedExact
    <2>3. ASSUME w > Limit PROVE n > 0
      <3>1. m \in -(2 * IntMax + 2)..-(IntMax + 2)
        BY <1>1, <2>1, <2>3
      <3>2. n = m + 2 * (IntMax + 1)
        BY <1>1, <3>1, WrappedPast
      <3> HIDE DEF n
      <3> QED
        BY <1>1, <2>1, <2>3, <3>2
    <2> HIDE DEF n
    <2>4. ASSUME w <= Limit PROVE (IsOk(n) <=> w <= Limit \div 10) /\ CheckOverflow(n)
      <3>1. IsOk(n) <=> -((IntMax + 1) \div 10) <= n
        BY <2>1, Zenon DEF IsOk
      <3>2. (IntMax + 1) \div 10 \in Nat
        BY <1>1
      <3>3. n <= 0 /\ (-((IntMax + 1) \div 10) <= n <=> w <= Limit \div 10)
        BY <2>1, <2>2, <2>4, <3>2
      <3> QED
        BY <2>1, <3>1, <3>3, Zenon DEF CheckOverflow
    <2>5. w > Limit => ~CheckOverflow(n)
      <3>1. n > 0 => ~(n <= 0)
        BY <1>2
      <3> QED
        BY <2>1, <2>3, <3>1, Zenon DEF CheckOverflow
    <2> QED
      BY <1>2, <1>3, <2>2, <2>4, <2>5 DEF n
  <1>4. CASE ~Signed
    <2>1. Limit = IntMax /\ m = w /\ ~negative
      BY <1>4 DEF Limit
    <2>2. ASSUME w <= Limit PROVE n = w
      <3>1. m \in -(IntMax + 1)..IntMax
        BY <1>1, <2>1, <2>2
      <3> QED
        BY <1>1, <2>1, <3>1, WrappedExact
    <2>3. ASSUME w > Limit PROVE n < 0
      <3>1. m \in (IntMax + 1)..(2 * IntMax + 1)
        BY <1>1, <2>1, <2>3
      <3>2. n = m - 2 * (IntMax + 1)
        BY <1>1, <3>1, WrappedPast
      <3> HIDE DEF n
      <3> QED
        BY <1>1, <2>1, <2>3, <3>1, <3>2
    <2> HIDE DEF n
    <2>4. ASSUME w <= Limit PROVE (IsOk(n) <=> w <= Limit \div 10) /\ CheckOverflow(n)
      <3>1. IsOk(n) <=> IntMax \div 10 >= n
        BY <2>1, Zenon DEF IsOk
      <3>2. IntMax \div 10 \in Nat
        BY <1>1
      <3>3. n >= 0 /\ (IntMax \div 10 >= n <=> w <= Limit \div 10)
        BY <2>1, <2>2, <2>4, <3>2
      <3> QED
        BY <2>1, <3>1, <3>3, Zenon DEF CheckOverflow
    <2>5. w > Limit => ~CheckOverflow(n)
      <3>1. n < 0 => ~(n >= 0)
        BY <1>2
      <3> QED
        BY <2>1, <2>3, <3>1, Zenon DEF CheckOverflow
    <2> QED
      BY <1>2, <1>4, <2>2, <2>4, <2>5 DEF n
  <1> QED
    BY <1>3, <1>4

(* A step of the number reader starts from what the invariant says of its   *)
(* label.                                                                   *)
LEMMA AtLabel ==
    ASSUME TypeInv, NumberInv, Exact
    PROVE  /\ input \in Inputs /\ external \in BOOLEAN
           /\ ~WrapsEarly /\ ~WideNegative /\ ~MarkDropped /\ ~PowerTooBig
           /\ pc = "int" => AtInt /\ InDigits
           /\ pc = "big" => AtBig /\ InDigits
           /\ pc = "point" => AtPoint
           /\ pc = "fraction" => AtFraction
           /\ pc = "exponent" => AtExponent
           /\ pc = "power" => AtPower
           /\ pc = "float" => AtFloat
  <1> HIDE DEF AtPoint, AtFraction, AtExponent, AtPower, AtFloat
  <1> QED
    BY DEF NumberInv, TypeInv, Exact, AtInt, AtBig

(* A negative int in a 4-byte str is left out. *)
LEMMA NotWide ==
    ASSUME ~WideNegative, InDigits, IsInt
    PROVE  ~Unsigned
  BY DEF WideNegative, InDigits, Unsigned

LEMMA IntDigitReads ==
    ASSUME TypeInv, NumberInv, IntDigit
    PROVE  NumberInv'
  <1> SUFFICES ASSUME Exact
               PROVE  \/ pc' = "int" /\ AtInt'
                      \/ pc' = "big" /\ AtBig'
                      \/ pc' = "point" /\ AtPoint'
                      \/ pc' = "exponent" /\ AtExponent'
                      \/ pc' = "float" /\ AtFloat'
                      \/ pc' = "done" /\ NumberIsRead'
    BY StepReads DEF IntDigit
  <1> DEFINE m == intValue * 10 + Convert(negative, cursor)
             n == Wrapped(m, IntMax)
             w == Worth(IntFirst, cursor + 1)
  <1>1. /\ input \in Inputs /\ external \in BOOLEAN /\ ~WrapsEarly /\ ~WideNegative
        /\ AtInt /\ InDigits
    BY AtLabel DEF IntDigit
  <1>2. /\ negative = Signed /\ exponent = 0 /\ e = 0 /\ At(IntFirst) \in 49..57
        /\ ~Unsigned => /\ Worth(IntFirst, cursor) <= Limit \div 10
                        /\ intValue = Negated(Signed, Worth(IntFirst, cursor))
    BY <1>1 DEF InDigits, AtInt
  <1>3. /\ input' = input /\ external' = external /\ negative' = Signed
        /\ exponent' = 0 /\ e' = 0 /\ intValue' = n
        /\ floatData' = Append(floatData, At(cursor))
    BY <1>2 DEF IntDigit
  <1>4. /\ cursor + 1 \in IntFirst..IntEnd /\ IsDigit(IntFirst) /\ ~IsDigit(IntEnd)
        /\ IsDigit(cursor + 1) <=> cursor + 1 \in IntFirst..(IntEnd - 1)
        /\ floatData' = SignText \o Between(IntFirst, cursor + 1)
        /\ IntFirst \in Nat /\ IntEnd \in Nat /\ cursor \in Nat
    BY <1>1, <1>3, IntCursor
  <1>5. ASSUME ~Unsigned
        PROVE  /\ w \in Nat /\ w <= Limit + 9
               /\ IsDigit(cursor + 1) => w <= Limit
               /\ Signed => m = 0 - w
               /\ ~Signed => m = w
    BY <1>1, <1>2, <1>5, IntWorth
  <1> HIDE DEF m, w
  <1>6. ASSUME ~Unsigned
        PROVE  /\ w <= Limit => /\ n = Negated(Signed, w)
                                /\ IsOk(n) <=> w <= Limit \div 10
                                /\ CheckOverflow(n)
               /\ ~(w <= Limit) => ~CheckOverflow(n)
    <2>1. m \in Int /\ w \in Int
      <3>1. 0 - w \in Int /\ w \in Int
        BY <1>5, <1>6
      <3> QED
        BY <1>5, <1>6, <3>1, Zenon
    <2>2. /\ w <= Limit => /\ Signed => n = 0 - w
                           /\ ~Signed => n = w
                           /\ IsOk(n) <=> w <= Limit \div 10
                           /\ CheckOverflow(n)
          /\ w > Limit => ~CheckOverflow(n)
      BY <1>2, <1>5, <1>6, <2>1, IntWrapped
    <2>3. w <= Limit \/ w > Limit
      BY <2>1, Limits
    <2> HIDE DEF n
    <2> QED
      BY <2>1, <2>2, <2>3, NegatedIs, Zenon
  <1> HIDE DEF n
  <1>8. CASE IsDigit(cursor + 1)
    <2>1. Consume(IF IsOk(n) THEN "int" ELSE "big")
      BY <1>8 DEF IntDigit, IsDigit, n, m
    <2>2. cursor' = cursor + 1 /\ cursor' \in IntFirst..(IntEnd - 1)
      BY <1>4, <1>8, <2>1 DEF Consume
    <2>3. /\ (~Unsigned => /\ Worth(IntFirst, cursor') <= Limit \div 10
                           /\ intValue' = Negated(Signed, Worth(IntFirst, cursor')))
             => AtInt'
          /\ (~Unsigned => ~(Worth(IntFirst, cursor') <= Limit \div 10)) => AtBig'
      BY <1>2, <1>3, <1>4, <2>2, NextInt
    <2>4. ~Unsigned => /\ intValue' = Negated(Signed, Worth(IntFirst, cursor'))
                       /\ IsOk(n) <=> Worth(IntFirst, cursor') <= Limit \div 10
      BY <1>3, <1>5, <1>6, <1>8, <2>2, Zenon DEF w
    <2>5. CASE IsOk(n) /\ pc' = "int"
      BY <2>3, <2>4, <2>5, Zenon
    <2>6. CASE ~IsOk(n) /\ pc' = "big"
      BY <2>3, <2>4, <2>6, Zenon
    <2> QED
      BY <2>1, <2>5, <2>6 DEF Consume
  <1>9. CASE ~IsDigit(cursor + 1)
    <2>1. cursor + 1 = IntEnd /\ At(IntEnd) \notin Digits
      BY <1>4, <1>9 DEF IsDigit
    <2>2. floatData' = IntBuffer
      BY <1>1, <1>4, <2>1, Parts DEF IntBuffer
    <2>3. cursor' = IntEnd
      BY <2>1 DEF IntDigit, Consume, Done
    <2>4. IsInt => ~Unsigned
      BY <1>1, NotWide, Zenon
    <2>5. w = ValueOf(IntText)
      BY <1>1, <2>1, Parts DEF w, Worth
    <2>6. CASE pc' = Continuation(At(IntEnd)) /\ (pc' = "float" => ~CheckOverflow(n))
      <3>1. pc' = "float" => ~Fits
        BY <1>6, <2>4, <2>5, <2>6, Zenon DEF Fits
      <3> QED
        BY <1>1, <1>3, <1>4, <2>2, <2>3, <2>6, <3>1, AfterInt
    <2>7. CASE Continuation(At(IntEnd)) = "float" /\ CheckOverflow(n)
               /\ Done([kind |-> "int", value |-> n], cursor + 1)
      <3>1. ~HasPoint /\ ~HasExponent /\ NumberEnd = IntEnd
        BY <2>7, ContinuationIs DEF HasPoint, FractionEnd, HasExponent, NumberEnd
      <3>2. IsInt /\ ~Unsigned
        BY <2>4, <3>1 DEF IsInt
      <3>3. n = IntMeant
        BY <1>6, <2>5, <2>7, <3>2, Zenon DEF Negated, IntMeant
      <3>4. pc' = "done" /\ result' = [kind |-> "int", value |-> IntMeant] /\ IsInt
        BY <2>7, <3>2, <3>3 DEF Done
      <3> QED
        BY <1>3, <2>3, <3>1, <3>4, NextIntRead
    <2> QED
      <3>1. \/ Continuation(At(IntEnd)) # "float" /\ Consume(Continuation(At(IntEnd)))
            \/ /\ Continuation(At(IntEnd)) = "float"
               /\ IF CheckOverflow(n) THEN Done([kind |-> "int", value |-> n], cursor + 1)
                  ELSE Consume("float")
        BY <2>1, Zenon DEF IntDigit, n, m
      <3>2. CASE Continuation(At(IntEnd)) # "float" /\ pc' = Continuation(At(IntEnd))
        BY <2>6, <3>2, Zenon
      <3>3. CASE /\ Continuation(At(IntEnd)) = "float" /\ ~CheckOverflow(n) /\ pc' = "float"
        BY <2>6, <3>3, Zenon
      <3> QED
        BY <2>7, <3>1, <3>2, <3>3, Zenon DEF Consume
  <1> QED
    BY <1>8, <1>9

LEMMA TextsJoin ==
    \A r, s, t \in Seq(Int) : (r \o s) \o t = r \o (s \o t)
  <1> TAKE r, s, t \in Seq(Int)
  <1> QED
    BY ONLY r \in Seq(Int), s \in Seq(Int), t \in Seq(Int), ConcatAssociative

LEMMA NoMark ==
    ASSUME NEW i, IsDigit(i)
    PROVE  Continuation(At(i)) = "float" /\ At(i) \notin ExponentMarks
  BY DEF IsDigit, Digits, Continuation, ExponentMarks, Dot, LowerE, UpperE

LEMMA BigDigitReads ==
    ASSUME TypeInv, NumberInv, BigDigit
    PROVE  NumberInv'
  <1> SUFFICES ASSUME Exact
               PROVE  \/ pc' = "big" /\ AtBig'
                      \/ pc' = "point" /\ AtPoint'
                      \/ pc' = "exponent" /\ AtExponent'
                      \/ pc' = "float" /\ AtFloat'
    BY StepReads DEF BigDigit
  <1>1. input \in Inputs /\ external \in BOOLEAN /\ AtBig /\ InDigits /\ ~WideNegative
    BY AtLabel DEF BigDigit
  <1>2. /\ input' = input /\ external' = external /\ negative' = Signed
        /\ exponent' = 0 /\ e' = 0 /\ At(IntFirst) \in 49..57
        /\ floatData' = Append(floatData, At(cursor))
        /\ cursor' = cursor + 1
        /\ pc' = IF IsDigit(cursor + 1) /\ HasRoom(floatData') THEN "big"
                 ELSE Continuation(At(cursor + 1))
    BY <1>1 DEF InDigits, BigDigit, Consume
  <1>3. /\ cursor + 1 \in IntFirst..IntEnd /\ IsDigit(IntFirst) /\ ~IsDigit(IntEnd)
        /\ IsDigit(cursor + 1) <=> cursor + 1 \in IntFirst..(IntEnd - 1)
        /\ floatData' = SignText \o Between(IntFirst, cursor + 1)
        /\ IntFirst \in Nat /\ IntEnd \in Nat /\ cursor \in Nat
    BY <1>1, <1>2, IntCursor
  <1>7. ~Unsigned => ~(Worth(IntFirst, cursor + 1) <= Limit)
    <2> SUFFICES ASSUME ~Unsigned PROVE ~(Worth(IntFirst, cursor + 1) <= Limit)
      OBVIOUS
    <2> DEFINE v == Worth(IntFirst, cursor)
               d == Digit(cursor)
    <2>1. /\ IntFirst \in 1..End /\ cursor \in IntFirst..End /\ cursor < End
          /\ IsDigit(cursor) /\ cursor \in IntFirst..(IntEnd - 1)
      BY <1>1, IntCursor DEF InDigits
    <2>2. v \in Nat
      <3>1. \A j \in IntFirst..(cursor - 1) : IsDigit(j)
        BY <1>1, <1>3, <2>1, IntPlace
      <3> QED
        BY <1>1, <2>1, <3>1, WorthIsNat
    <2>3. d \in 0..9 /\ d = At(cursor) - Zero /\ At(cursor) \in Int
      BY <2>1, DigitIs
    <2>4. Worth(IntFirst, cursor + 1) = 10 * v + At(cursor) - Zero
      BY <1>1, <2>1, WorthMore
    <2>5. ~(v <= Limit \div 10)
      BY <1>1 DEF AtBig
    <2> HIDE DEF v, d
    <2>6. Worth(IntFirst, cursor + 1) = 10 * v + d
      BY <2>2, <2>3, <2>4 DEF Zero
    <2>7. Limit \in Nat
      BY Limits
    <2> QED
      BY <2>2, <2>3, <2>5, <2>6, <2>7
  <1>8. ~Unsigned => ~(Worth(IntFirst, cursor + 1) <= Limit \div 10)
    <2> SUFFICES ASSUME ~Unsigned PROVE ~(Worth(IntFirst, cursor + 1) <= Limit \div 10)
      OBVIOUS
    <2>1. /\ IntFirst \in 1..End /\ IntEnd \in IntFirst..End /\ End \in Nat
          /\ \A j \in IntFirst..(IntEnd - 1) : IsDigit(j)
      BY <1>1, IntPlace, Positions
    <2>2. Worth(IntFirst, cursor + 1) \in Nat
      <3> DEFINE next == cursor + 1
      <3>1. next \in IntFirst..IntEnd
        BY <1>3
      <3> HIDE DEF next
      <3>2. next \in IntFirst..End /\ \A j \in IntFirst..(next - 1) : IsDigit(j)
        BY <1>3, <2>1, <3>1
      <3>3. Worth(IntFirst, next) \in Nat
        BY <1>1, <2>1, <3>2, WorthIsNat
      <3> QED
        BY <3>3 DEF next
    <2>3. Limit \in Nat /\ Limit \div 10 <= Limit
      BY Limits
    <2> QED
      BY <1>7, <2>2, <2>3
  <1>4. CASE IsDigit(cursor + 1) /\ HasRoom(floatData')
    <2>1. AtBig'
      BY <1>2, <1>3, <1>4, <1>8, NextInt
    <2> QED
      BY <1>2, <1>4, <2>1
  <1>5. CASE IsDigit(cursor + 1) /\ ~HasRoom(floatData')
    <2>1. AtFloat'
      BY <1>2, <1>5, NextFloat
    <2> QED
      BY <1>2, <1>5, <2>1, NoMark
  <1>6. CASE ~IsDigit(cursor + 1)
    <2>1. cursor + 1 = IntEnd
      BY <1>3, <1>6
    <2>2. floatData' = IntBuffer
      BY <1>1, <1>3, <2>1, Parts DEF IntBuffer
    <2>3. cursor' = IntEnd /\ pc' = Continuation(At(IntEnd))
      BY <1>2, <1>6, <2>1
    <2>4. ~Fits
      <3>1. Worth(IntFirst, cursor + 1) = ValueOf(IntText)
        BY <1>1, <2>1, Parts DEF Worth
      <3>2. IsInt => ~Unsigned
        BY <1>1, NotWide, Zenon
      <3> QED
        BY <1>7, <3>1, <3>2, Zenon DEF Fits
    <2> QED
      BY <1>1, <1>2, <1>3, <2>2, <2>3, <2>4, AfterInt
  <1> QED
    BY <1>4, <1>5, <1>6

(* The text for parse_float, by its parts. *)
LEMMA TwoTexts ==
    ASSUME NEW a \in Int, NEW b \in Int
    PROVE  <<a>> \o <<b>> = <<a, b>>
  <1> DEFINE s == <<a>> \o <<b>>
             t == <<a, b>>
  <1>1. /\ <<a>> \in Seq(Int) /\ Len(<<a>>) = 1 /\ <<a>>[1] = a
        /\ <<b>> \in Seq(Int) /\ Len(<<b>>) = 1 /\ <<b>>[1] = b
        /\ t \in Seq(Int) /\ Len(t) = 2 /\ t[1] = a /\ t[2] = b
    OBVIOUS
  <1>2. s \in Seq(Int) /\ Len(s) = 2 /\ s[1] = a /\ s[2] = b
    BY <1>1, ConcatProperties
  <1> HIDE DEF s, t
  <1>3. \A i \in 1..Len(s) : s[i] = t[i]
    BY <1>1, <1>2
  <1>4. s = t
    BY <1>1, <1>2, <1>3, SeqEqual
  <1> QED
    BY <1>4 DEF s, t

LEMMA TextParts ==
    ASSUME input \in Inputs, external \in BOOLEAN
    PROVE  /\ Len(TextMeant) \in Nat /\ Len(Mantissa) \in Nat /\ Len(PowerText) \in Nat
           /\ HasPoint /\ Len(FractionText) >= 1 => Len(IntBuffer \o PointText) < Len(TextMeant)
           /\ HasExponent => Len(Mantissa) < Len(TextMeant)
           /\ external => TextMeant = (IF HasExponent THEN (Mantissa \o MarkText) \o PowerText
                                       ELSE Mantissa)
           /\ external /\ PowerNegative => Len(TextMeant) - Len(PowerText) = Len(Mantissa) + 2
  <1> DEFINE s == IF Signed THEN <<Minus>> ELSE <<>>
             f == IF HasPoint THEN <<Dot>> \o FractionText ELSE <<>>
             x == IF HasExponent THEN <<LowerE>> ELSE <<>>
             m == IF PowerNegative THEN <<Minus>> ELSE <<>>
             f2 == IF HasPoint THEN PointText \o FractionText ELSE <<>>
  <1>1. /\ IntText \in Seq(Int) /\ FractionText \in Seq(Int) /\ PowerText \in Seq(Int)
        /\ SignText \in Seq(Int) /\ PointText \in Seq(Int) /\ MarkText \in Seq(Int)
        /\ Mantissa \in Seq(Int) /\ IntBuffer \in Seq(Int)
    BY Parts, Buffers
  <1>2. /\ TextMeant = (((s \o IntText) \o f) \o x) \o m \o PowerText
        /\ IntBuffer = SignText \o IntText /\ Mantissa = IntBuffer \o f2
    BY DEF TextMeant, IntBuffer, Mantissa
  <1>3. Minus \in Int /\ Dot \in Int /\ LowerE \in Int
    BY DEF Minus, Dot, LowerE
  <1>4. /\ <<Minus>> \in Seq(Int) /\ Len(<<Minus>>) = 1
        /\ <<Dot>> \in Seq(Int) /\ Len(<<Dot>>) = 1
        /\ <<LowerE>> \in Seq(Int) /\ Len(<<LowerE>>) = 1
        /\ <<>> \in Seq(Int) /\ Len(<<>>) = 0
    BY <1>3
  <1>5. s \in Seq(Int) /\ x \in Seq(Int) /\ m \in Seq(Int)
    BY <1>4, Zenon
  <1>6. f \in Seq(Int) /\ f2 \in Seq(Int)
    BY <1>1, <1>4, ConcatProperties
  <1>7. Len(s) \in Nat /\ Len(x) \in Nat /\ Len(m) \in Nat /\ Len(f) \in Nat /\ Len(f2) \in Nat
        /\ Len(IntText) \in Nat /\ Len(FractionText) \in Nat /\ Len(PowerText) \in Nat
        /\ Len(SignText) \in Nat /\ Len(PointText) \in Nat /\ Len(Mantissa) \in Nat
        /\ Len(IntBuffer) \in Nat
    BY <1>1, <1>5, <1>6, LenProperties
  <1>8. /\ HasPoint => /\ Len(f) = 1 + Len(FractionText)
                       /\ Len(f2) = Len(PointText) + Len(FractionText)
        /\ ~HasPoint => Len(f) = 0 /\ Len(f2) = 0
        /\ HasExponent => Len(x) = 1
        /\ PowerNegative => Len(m) = 1
    BY <1>1, <1>4, ConcatProperties
  <1>9. /\ Len(SignText) <= Len(s) /\ (external => SignText = s)
        /\ Len(PointText) <= 1 /\ (external => Len(PointText) = 1 /\ f2 = f)
    <2>1. external => SignText = s /\ PointText = <<Dot>>
      BY DEF SignText, PointText
    <2>2. ~external => SignText = <<>> /\ PointText = <<>>
      BY DEF SignText, PointText
    <2>3. external => f2 = f
      BY <2>1, Zenon
    <2> HIDE DEF s, f, f2
    <2>4. CASE external
      <3>1. Len(SignText) = Len(s) /\ Len(PointText) = 1
        BY <1>4, <2>1, <2>4, Zenon
      <3>2. Len(SignText) <= Len(s) /\ Len(PointText) <= 1
        BY <1>7, <3>1
      <3> QED
        BY <2>1, <2>3, <2>4, <3>1, <3>2, Zenon
    <2>5. CASE ~external
      BY <1>4, <1>7, <2>2, <2>5
    <2> QED
      BY <2>4, <2>5, Zenon
  <1> HIDE DEF s, f, x, m, f2
  <1>10. /\ (s \o IntText) \in Seq(Int) /\ Len(s \o IntText) = Len(s) + Len(IntText)
         /\ ((s \o IntText) \o f) \in Seq(Int)
         /\ Len((s \o IntText) \o f) = Len(s) + Len(IntText) + Len(f)
    BY <1>1, <1>5, <1>6, ConcatProperties
  <1>11. /\ (((s \o IntText) \o f) \o x) \in Seq(Int)
         /\ Len(((s \o IntText) \o f) \o x) = Len(s) + Len(IntText) + Len(f) + Len(x)
    BY <1>5, <1>10, ConcatProperties
  <1>12. /\ ((((s \o IntText) \o f) \o x) \o m) \in Seq(Int)
         /\ Len((((s \o IntText) \o f) \o x) \o m)
              = Len(s) + Len(IntText) + Len(f) + Len(x) + Len(m)
    BY <1>5, <1>11, ConcatProperties
  <1>13. /\ Len(TextMeant) = Len(s) + Len(IntText) + Len(f) + Len(x) + Len(m) + Len(PowerText)
    BY <1>1, <1>2, <1>12, ConcatProperties
  <1>14. /\ Len(IntBuffer) = Len(SignText) + Len(IntText)
         /\ Len(IntBuffer \o PointText) = Len(SignText) + Len(IntText) + Len(PointText)
         /\ Len(Mantissa) = Len(SignText) + Len(IntText) + Len(f2)
    BY <1>1, <1>2, <1>6, ConcatProperties
  <1>15. HasPoint /\ Len(FractionText) >= 1 => Len(IntBuffer \o PointText) < Len(TextMeant)
    BY <1>7, <1>8, <1>9, <1>13, <1>14
  <1>16. HasExponent => Len(Mantissa) < Len(TextMeant)
    <2> SUFFICES ASSUME HasExponent PROVE Len(Mantissa) < Len(TextMeant)
      OBVIOUS
    <2>1. Len(f2) <= Len(f) /\ Len(x) = 1 /\ Len(SignText) <= Len(s)
      BY <1>7, <1>8, <1>9
    <2> QED
      BY <1>7, <1>13, <1>14, <2>1
  <1>17. ASSUME external
         PROVE  TextMeant = IF HasExponent THEN (Mantissa \o MarkText) \o PowerText ELSE Mantissa
    <2>1. Mantissa = (s \o IntText) \o f
      BY <1>2, <1>9, <1>17
    <2>2. TextMeant = ((Mantissa \o x) \o m) \o PowerText
      BY <1>2, <2>1
    <2>5. (Mantissa \o x) \o m = Mantissa \o (x \o m)
      <3>1. Mantissa \in Seq(Int) /\ x \in Seq(Int) /\ m \in Seq(Int)
        BY <1>1, <1>5
      <3> QED
        BY ONLY <3>1, ConcatAssociative
    <2>3. CASE HasExponent
      <3>1. x = <<LowerE>> /\ (PowerNegative => m = <<Minus>>) /\ (~PowerNegative => m = <<>>)
        BY <2>3 DEF x, m
      <3>2. /\ PowerNegative => MarkText = <<LowerE, Minus>>
            /\ ~PowerNegative => MarkText = <<LowerE>>
        BY <1>17, Zenon DEF MarkText
      <3>3. <<LowerE>> \o <<Minus>> = <<LowerE, Minus>> /\ <<LowerE>> \o <<>> = <<LowerE>>
        BY <1>3, <1>4, TwoTexts, ConcatEmptySeq
      <3>4. x \o m = MarkText
        BY <3>1, <3>2, <3>3, Zenon
      <3> QED
        BY <2>2, <2>3, <2>5, <3>4
    <2>4. CASE ~HasExponent
      <3>1. x = <<>> /\ m = <<>> /\ PowerText = <<>>
        BY <2>4, NoPower DEF x, m
      <3> QED
        BY <1>1, <2>2, <2>4, <3>1, ConcatEmptySeq
    <2> QED
      BY <2>3, <2>4
  <1>18. external /\ PowerNegative => Len(TextMeant) - Len(PowerText) = Len(Mantissa) + 2
    <2> SUFFICES ASSUME external, PowerNegative
                 PROVE  Len(TextMeant) - Len(PowerText) = Len(Mantissa) + 2
      OBVIOUS
    <2>1. HasExponent
      BY DEF PowerNegative
    <2>2. Len(x) = 1 /\ Len(m) = 1 /\ Len(SignText) = Len(s) /\ Len(f2) = Len(f)
      BY <1>8, <1>9, <2>1
    <2> QED
      BY <1>7, <1>13, <1>14, <2>2
  <1>19. Len(TextMeant) \in Nat
    BY <1>7, <1>13
  <1> QED
    BY <1>7, <1>15, <1>16, <1>17, <1>18, <1>19

LEMMA Full ==
    ASSUME NEW S, NEW data \in Seq(S), ~HasRoom(data)
    PROVE  Len(data) >= MaxDigits
  BY NumberAssumption, LenProperties DEF HasRoom

LEMMA WithPointIs ==
    ASSUME NEW data \in Seq(Int), external \in BOOLEAN
    PROVE  WithPoint(data) = data \o PointText
  <1>1. CASE external
    <2>1. WithPoint(data) = Append(data, Dot) /\ PointText = <<Dot>> /\ Dot \in Int
      BY <1>1 DEF WithPoint, PointText, Dot
    <2> QED
      BY <2>1, AppendIsConcat
  <1>2. CASE ~external
    <2>1. WithPoint(data) = data /\ PointText = <<>>
      BY <1>2 DEF WithPoint, PointText
    <2> QED
      BY <2>1, ConcatEmptySeq
  <1> QED
    BY <1>1, <1>2

LEMMA PointReads ==
    ASSUME TypeInv, NumberInv, Point
    PROVE  NumberInv'
  <1> SUFFICES ASSUME Exact
               PROVE  \/ pc' = "fraction" /\ AtFraction'
                      \/ pc' = "done" /\ NumberIsRead'
    BY StepReads DEF Point
  <1>1. input \in Inputs /\ external \in BOOLEAN /\ AtPoint /\ pc = "point" /\ At(cursor) = Dot
    BY AtLabel DEF Point, TypeInv, TypeOK
  <1>2. /\ input' = input /\ external' = external /\ negative' = Signed
        /\ exponent' = 0 /\ e' = 0 /\ IsDigit(IntFirst) /\ cursor = IntEnd
        /\ floatData' = WithPoint(IntBuffer)
    BY <1>1 DEF AtPoint, Point
  <1>3. HasPoint
    BY <1>1, <1>2 DEF HasPoint
  <1>4. floatData' = IntBuffer \o PointText /\ IntBuffer \o PointText \in Seq(Int)
    <2>1. IntBuffer \in Seq(Int) /\ PointText \in Seq(Int) /\ external \in BOOLEAN
      BY <1>1, Buffers
    <2>2. IntBuffer \o PointText \in Seq(Int)
      BY <2>1, ConcatProperties
    <2> QED
      BY <1>2, <2>1, <2>2, WithPointIs
  <1>5. /\ IntEnd \in Nat /\ IntEnd + 1 \in 1..End /\ FractionEnd \in Nat
        /\ IsDigit(IntEnd + 1) => IntEnd + 1 < FractionEnd
    BY <1>1, <1>3, FractionPlace, IntPlace, Positions
  <1>6. CASE /\ IsDigit(cursor + 1) /\ cursor' = cursor + 1 /\ pc' = "fraction"
    <2>1. cursor' = IntEnd + 1 /\ IsDigit(IntEnd + 1) /\ cursor' \in (IntEnd + 1)..(FractionEnd - 1)
      BY <1>2, <1>5, <1>6
    <2>2. floatData' = IntBuffer \o (PointText \o Between(IntEnd + 1, cursor'))
      BY <1>1, <1>4, <1>5, <2>1, Buffers, BetweenNone, ConcatEmptySeq
    <2>3. exponent' = ScaleOf(cursor' - (IntEnd + 1))
      <3>1. cursor' - (IntEnd + 1) = 0 /\ cursor' - (IntEnd + 1) \in Int
        BY <1>5, <2>1
      <3> QED
        BY <1>2, <3>1, ScaleIs, Zenon
    <2>4. AtFraction'
      BY <1>2, <1>3, <2>1, <2>2, <2>3, NextFraction
    <2> QED
      BY <1>6, <2>4
  <1>7. CASE /\ ~(IsDigit(cursor + 1) /\ HasRoom(floatData'))
             /\ pc' = "done" /\ result'.kind = "error"
    <2>1. CASE ~IsDigit(cursor + 1)
      <3>1. ~IsNumber
        BY <1>2, <1>3, <2>1 DEF IsNumber
      <3> QED
        BY <1>2, <1>7, <3>1, NextRefused
    <2>2. CASE IsDigit(cursor + 1) /\ ~HasRoom(floatData')
      <3>1. Len(floatData') >= MaxDigits
        BY <1>4, <2>2, Full
      <3>2. Len(FractionText) >= 1
        BY <1>1, <1>2, <1>3, <1>5, <2>2, Parts
      <3>3. Len(IntBuffer \o PointText) < Len(TextMeant) /\ Len(TextMeant) \in Nat
        BY <1>1, <1>3, <3>2, TextParts
      <3>4. Len(TextMeant) > MaxDigits
        <4>1. Len(IntBuffer \o PointText) \in Nat
          BY <1>4, LenProperties
        <4> QED
          BY <1>4, <3>1, <3>3, <4>1, NumberAssumption
      <3> QED
        BY <1>2, <1>7, <3>4, NextRefused
    <2> QED
      BY <1>7, <2>1, <2>2
  <1> QED
    <2>1. IF IsDigit(cursor + 1) /\ HasRoom(floatData')
          THEN cursor' = cursor + 1 /\ pc' = "fraction"
          ELSE pc' = "done" /\ result'.kind = "error"
      BY DEF Point, Consume, Done, Error
    <2> QED
      BY <1>6, <1>7, <2>1

(* The digits for Strtod. *)
LEMMA PlainMantissa ==
    ASSUME input \in Inputs, SignText = <<>>, PointText = <<>>
    PROVE  Mantissa = IntText \o FractionText
  <1>1. IntBuffer = IntText
    BY Parts, ConcatEmptySeq DEF IntBuffer
  <1>2. Mantissa = IntText \o (IF HasPoint THEN <<>> \o FractionText ELSE <<>>)
    BY <1>1 DEF Mantissa
  <1>3. <<>> \o FractionText = FractionText
    BY Parts, ConcatEmptySeq
  <1>4. ~HasPoint => FractionText = <<>>
    BY DEF FractionText
  <1> QED
    BY <1>2, <1>3, <1>4, Zenon

(* Behind the fraction. *)
LEMMA AfterMantissa ==
    ASSUME input \in Inputs, external \in BOOLEAN, input' = input, external' = external,
           negative' = Signed, e' = 0,
           IsDigit(IntFirst), HasPoint, IsDigit(IntEnd + 1),
           cursor' = FractionEnd, floatData' = Mantissa,
           exponent' = ScaleOf(Len(FractionText)),
           pc' = IF At(FractionEnd) \in ExponentMarks THEN "exponent" ELSE "float"
    PROVE  \/ pc' = "exponent" /\ AtExponent'
           \/ pc' = "float" /\ AtFloat'
  <1>1. CASE pc' = "exponent"
    <2>1. AtExponent'
      BY NextExponent
    <2> QED
      BY <1>1, <2>1
  <1>2. CASE pc' = "float"
    <2>1. ~HasExponent /\ NumberEnd = FractionEnd /\ IsNumber /\ ~Fits
      BY <1>2 DEF HasExponent, NumberEnd, IsNumber, Fits, IsInt
    <2>2. external => floatData' = TextMeant
      BY <2>1, TextParts
    <2>3. ~external => floatData' = IntText \o FractionText
      BY PlainMantissa DEF SignText, PointText
    <2>4. ~external => exponent' = Power - Len(FractionText)
      <3>1. Power = 0
        BY <2>1, NoPower
      <3>2. Len(FractionText) \in Int
        BY Parts, LenProperties
      <3> QED
        BY <3>1, <3>2, ScaleIs
    <2> QED
      BY <1>2, <2>1, <2>2, <2>3, <2>4, NextFloat
  <1> QED
    BY <1>1, <1>2

LEMMA FractionDigitReads ==
    ASSUME TypeInv, NumberInv, FractionDigit
    PROVE  NumberInv'
  <1> SUFFICES ASSUME Exact
               PROVE  \/ pc' = "fraction" /\ AtFraction'
                      \/ pc' = "exponent" /\ AtExponent'
                      \/ pc' = "float" /\ AtFloat'
    BY StepReads DEF FractionDigit
  <1>1. input \in Inputs /\ external \in BOOLEAN /\ AtFraction
    BY AtLabel DEF FractionDigit
  <1>2. /\ input' = input /\ external' = external /\ negative' = Signed /\ e' = 0
        /\ IsDigit(IntFirst) /\ HasPoint /\ IsDigit(IntEnd + 1)
        /\ cursor \in (IntEnd + 1)..(FractionEnd - 1)
        /\ floatData = IntBuffer \o (PointText \o Between(IntEnd + 1, cursor))
        /\ exponent = ScaleOf(cursor - (IntEnd + 1))
        /\ floatData' = Append(floatData, At(cursor))
        /\ exponent' = FractionScale
        /\ cursor' = cursor + 1
        /\ pc' = IF IsDigit(cursor + 1) /\ HasRoom(floatData') THEN "fraction"
                 ELSE IF At(cursor + 1) \in ExponentMarks THEN "exponent" ELSE "float"
    BY <1>1 DEF AtFraction, FractionDigit, Consume
  <1>3. /\ IntEnd \in Nat /\ IntEnd + 1 \in 1..End /\ End \in Nat
        /\ FractionEnd \in Nat /\ FractionEnd \in (IntEnd + 1)..End /\ ~IsDigit(FractionEnd)
        /\ \A k \in (IntEnd + 1)..(FractionEnd - 1) : IsDigit(k)
    <2>1. End \in Nat /\ IntEnd \in 1..End
      BY <1>1, IntPlace, Positions
    <2>2. /\ IntEnd + 1 \in 1..End
          /\ FractionEnd \in (IntEnd + 1)..End /\ ~IsDigit(FractionEnd)
          /\ \A k \in (IntEnd + 1)..(FractionEnd - 1) : IsDigit(k)
      BY <1>1, <1>2, FractionPlace
    <2> QED
      BY <2>1, <2>2
  <1>4. /\ cursor \in Nat /\ cursor \in (IntEnd + 1)..End /\ cursor < End
        /\ cursor + 1 \in (IntEnd + 1)..FractionEnd
    BY <1>2, <1>3
  <1>5. floatData' = IntBuffer \o (PointText \o Between(IntEnd + 1, cursor'))
    <2> DEFINE f == IntEnd + 1
    <2>1. f \in 1..End /\ cursor \in f..End /\ cursor < End
      BY <1>3, <1>4
    <2>2. Between(f, cursor) \in Seq(Int) /\ Between(f, cursor + 1) \in Seq(Int)
      <3>1. cursor + 1 \in f..End
        BY <1>3, <1>4
      <3> HIDE DEF f
      <3> QED
        BY <1>1, <2>1, <3>1, BetweenFacts
    <2> HIDE DEF f
    <2>3. Append((IntBuffer \o PointText) \o Between(f, cursor), At(cursor))
            = (IntBuffer \o PointText) \o Between(f, cursor + 1)
      <3>1. IntBuffer \o PointText \in Seq(Int)
        BY <1>1, Buffers
      <3> QED
        BY <1>1, <2>1, <3>1, BufferMore
    <2>4. /\ (IntBuffer \o PointText) \o Between(f, cursor)
                = IntBuffer \o (PointText \o Between(f, cursor))
          /\ (IntBuffer \o PointText) \o Between(f, cursor + 1)
                = IntBuffer \o (PointText \o Between(f, cursor + 1))
      <3>1. IntBuffer \in Seq(Int) /\ PointText \in Seq(Int)
        BY <1>1, Buffers
      <3> QED
        BY <2>2, <3>1, TextsJoin, Zenon
    <2>5. floatData = IntBuffer \o (PointText \o Between(f, cursor))
      BY <1>2 DEF f
    <2>6. floatData' = IntBuffer \o (PointText \o Between(f, cursor + 1))
      BY <1>2, <2>3, <2>4, <2>5
    <2> QED
      BY <1>2, <2>6 DEF f
  <1>6. exponent' = ScaleOf(cursor' - (IntEnd + 1))
    <2> DEFINE a == cursor - (IntEnd + 1)
               b == cursor' - (IntEnd + 1)
    <2>1. a \in Int /\ b \in Int /\ b = a + 1
      BY <1>2, <1>3, <1>4
    <2>2. /\ external => ScaleOf(a) = 0 /\ ScaleOf(b) = 0
          /\ ~external => ScaleOf(a) = 0 - a /\ ScaleOf(b) = 0 - b
      <3> HIDE DEF a, b
      <3> QED
        BY <2>1, ScaleIs
    <2>3. exponent = ScaleOf(a)
      BY <1>2
    <2> HIDE DEF a, b
    <2>4. ASSUME external PROVE exponent' = ScaleOf(b)
      BY <1>2, <2>2, <2>3, <2>4 DEF FractionScale
    <2>5. ASSUME ~external PROVE exponent' = ScaleOf(b)
      <3>1. exponent' = exponent - 1
        BY <1>2, <2>5 DEF FractionScale
      <3> QED
        BY <2>1, <2>2, <2>3, <2>5, <3>1
    <2>6. exponent' = ScaleOf(b)
      BY <2>4, <2>5
    <2> QED
      BY <2>6 DEF b
  <1>7. CASE IsDigit(cursor + 1) /\ HasRoom(floatData')
    <2>1. cursor' \in (IntEnd + 1)..(FractionEnd - 1)
      <3>1. cursor + 1 # FractionEnd
        BY <1>3, <1>7
      <3> QED
        BY <1>2, <1>3, <1>4, <3>1
    <2>2. AtFraction'
      BY <1>2, <1>5, <1>6, <2>1, NextFraction
    <2> QED
      BY <1>2, <1>7, <2>2
  <1>8. CASE IsDigit(cursor + 1) /\ ~HasRoom(floatData')
    <2>1. AtFloat'
      BY <1>2, <1>8, NextFloat
    <2> QED
      BY <1>2, <1>8, <2>1, NoMark
  <1>9. CASE ~IsDigit(cursor + 1)
    <2>1. cursor + 1 = FractionEnd
      <3>1. cursor + 1 \notin (IntEnd + 1)..(FractionEnd - 1)
        BY <1>3, <1>9
      <3> QED
        BY <1>3, <1>4, <3>1
    <2>2. FractionText = Between(IntEnd + 1, FractionEnd)
          /\ Len(FractionText) = FractionEnd - (IntEnd + 1)
      BY <1>1, <1>2, Parts
    <2>3. floatData' = Mantissa
      BY <1>2, <1>5, <2>1, <2>2 DEF Mantissa
    <2>4. exponent' = ScaleOf(Len(FractionText))
      BY <1>2, <1>6, <2>1, <2>2
    <2>5. /\ cursor' = FractionEnd
          /\ pc' = IF At(FractionEnd) \in ExponentMarks THEN "exponent" ELSE "float"
      BY <1>2, <1>9, <2>1
    <2> QED
      BY <1>1, <1>2, <2>3, <2>4, <2>5, AfterMantissa
  <1> QED
    BY <1>7, <1>8, <1>9

LEMMA WithMarkIs ==
    ASSUME NEW data \in Seq(Int), external \in BOOLEAN, HasRoom(data),
           external /\ PowerNegative => Len(data) + 2 < MaxDigits
    PROVE  WithMark(data, PowerNegative) = data \o MarkText
  <1>1. LowerE \in Int
    BY DEF LowerE
  <1>2. CASE ~external
    <2>1. WithMark(data, PowerNegative) = data /\ MarkText = <<>>
      BY <1>2, Zenon DEF WithMark, MarkText
    <2> QED
      BY <2>1, ConcatEmptySeq
  <1>3. CASE external /\ PowerNegative
    BY <1>3, Zenon DEF WithMark, MarkText
  <1>4. CASE external /\ ~PowerNegative
    <2>1. WithMark(data, PowerNegative) = Append(data, LowerE) /\ MarkText = <<LowerE>>
      BY <1>4, Zenon DEF WithMark, MarkText
    <2> QED
      BY <1>1, <2>1, AppendIsConcat
  <1> QED
    BY <1>2, <1>3, <1>4

LEMMA ExponentReads ==
    ASSUME TypeInv, NumberInv, Exponent
    PROVE  NumberInv'
  <1> SUFFICES ASSUME Exact
               PROVE  \/ pc' = "power" /\ AtPower'
                      \/ pc' = "done" /\ NumberIsRead'
    BY StepReads DEF Exponent
  <1> DEFINE minus == At(cursor + 1) = Minus
             i == IF At(cursor + 1) \in {Minus, Plus} THEN cursor + 2 ELSE cursor + 1
  <1>1. /\ input \in Inputs /\ external \in BOOLEAN /\ AtExponent /\ pc = "exponent"
        /\ At(cursor) \in ExponentMarks /\ ~MarkDropped
    BY AtLabel DEF Exponent, TypeInv, TypeOK
  <1>2. /\ input' = input /\ external' = external /\ negative' = Signed /\ e = 0 /\ e' = 0
        /\ IsDigit(IntFirst) /\ (HasPoint => IsDigit(IntEnd + 1))
        /\ cursor = FractionEnd /\ floatData = Mantissa
        /\ exponent' = ScaleOf(Len(FractionText))
    BY <1>1 DEF AtExponent, Exponent
  <1>3. HasExponent
    BY <1>1, <1>2 DEF HasExponent
  <1>4. minus = PowerNegative /\ i = PowerFirst
    BY <1>2, <1>3 DEF PowerNegative, PowerFirst
  <1>5. IsNumber <=> IsDigit(PowerFirst)
    BY <1>2, <1>3 DEF IsNumber
  <1>6. Mantissa \in Seq(Int) /\ MarkText \in Seq(Int)
    BY <1>1, Buffers
  <1>7. \/ /\ IsDigit(PowerFirst) /\ HasRoom(Mantissa)
           /\ floatData' = WithMark(Mantissa, PowerNegative)
           /\ cursor' = PowerFirst /\ pc' = "power" /\ eNegative' = PowerNegative
        \/ /\ ~(IsDigit(PowerFirst) /\ HasRoom(Mantissa))
           /\ pc' = "done" /\ result'.kind = "error"
    <2>1. \/ /\ IsDigit(i) /\ HasRoom(floatData)
             /\ floatData' = WithMark(floatData, minus)
             /\ cursor' = i /\ pc' = "power" /\ eNegative' = minus
          \/ /\ ~(IsDigit(i) /\ HasRoom(floatData))
             /\ pc' = "done" /\ result'.kind = "error"
      BY DEF Exponent, Done, Error
    <2> HIDE DEF minus, i
    <2> QED
      BY <1>2, <1>4, <2>1
  <1> HIDE DEF minus, i
  <1>8. CASE /\ IsDigit(PowerFirst) /\ HasRoom(Mantissa)
             /\ floatData' = WithMark(Mantissa, PowerNegative)
             /\ cursor' = PowerFirst /\ pc' = "power" /\ eNegative' = PowerNegative
    <2>1. external /\ PowerNegative => Len(Mantissa) + 2 < MaxDigits
      <3> SUFFICES ASSUME external, PowerNegative PROVE Len(Mantissa) + 2 < MaxDigits
        OBVIOUS
      <3>1. ~(Len(TextMeant) - Len(PowerText) >= MaxDigits)
        BY <1>1 DEF MarkDropped
      <3>2. Len(TextMeant) - Len(PowerText) = Len(Mantissa) + 2 /\ Len(Mantissa) \in Nat
        BY <1>1, TextParts
      <3> QED
        BY <3>1, <3>2, NumberAssumption
    <2>2. floatData' = Mantissa \o MarkText
      BY <1>1, <1>6, <1>8, <2>1, WithMarkIs
    <2>3. PowerFirst \in 1..End /\ PowerFirst \in PowerFirst..(NumberEnd - 1)
      BY <1>1, <1>3, <1>8, PowerPlace, Positions
    <2>4. Between(PowerFirst, PowerFirst) = <<>> /\ Worth(PowerFirst, PowerFirst) = 0
      BY <1>1, <2>3, BetweenNone, WorthNone
    <2>5. external => floatData' = (Mantissa \o MarkText) \o Between(PowerFirst, cursor')
      <3>1. Mantissa \o MarkText \in Seq(Int)
        BY <1>6, ConcatProperties
      <3> QED
        BY <1>8, <2>2, <2>4, <3>1, ConcatEmptySeq
    <2>6. ~external => /\ floatData' = Mantissa /\ HasRoom(floatData')
                       /\ e' = Negated(PowerNegative, Worth(PowerFirst, cursor'))
      <3> SUFFICES ASSUME ~external
                   PROVE  /\ floatData' = Mantissa /\ HasRoom(floatData')
                          /\ e' = Negated(PowerNegative, Worth(PowerFirst, cursor'))
        OBVIOUS
      <3>1. MarkText = <<>>
        BY Zenon DEF MarkText
      <3>2. floatData' = Mantissa
        BY <1>6, <2>2, <3>1, ConcatEmptySeq
      <3>3. Negated(PowerNegative, 0) = 0
        <4>1. 0 \in Int
          OBVIOUS
        <4> QED
          BY <4>1, NegatedIs, Zenon
      <3> QED
        BY <1>2, <1>8, <2>4, <3>2, <3>3
    <2>7. AtPower'
      BY <1>2, <1>3, <1>5, <1>8, <2>3, <2>5, <2>6, NextPower
    <2> QED
      BY <1>8, <2>7
  <1>9. CASE /\ ~(IsDigit(PowerFirst) /\ HasRoom(Mantissa))
             /\ pc' = "done" /\ result'.kind = "error"
    <2>1. ~IsNumber \/ Len(TextMeant) > MaxDigits
      <3> SUFFICES ASSUME ~HasRoom(Mantissa) PROVE Len(TextMeant) > MaxDigits
        BY <1>5, <1>9
      <3>1. Len(Mantissa) >= MaxDigits
        BY <1>6, Full
      <3>2. Len(Mantissa) < Len(TextMeant) /\ Len(TextMeant) \in Nat /\ Len(Mantissa) \in Nat
        BY <1>1, <1>3, TextParts
      <3> QED
        BY <3>1, <3>2, NumberAssumption
    <2> QED
      BY <1>2, <1>9, <2>1, NextRefused
  <1> QED
    BY <1>7, <1>8, <1>9

(* Where the digit at the cursor is, in the exponent. *)
LEMMA PowerCursor ==
    ASSUME input \in Inputs, HasExponent, cursor \in PowerFirst..(NumberEnd - 1)
    PROVE  /\ PowerFirst \in 1..End /\ cursor \in PowerFirst..End /\ cursor < End
           /\ cursor \in Nat /\ PowerFirst \in Nat /\ NumberEnd \in Nat /\ End \in Nat
           /\ NumberEnd \in PowerFirst..End
           /\ cursor + 1 \in PowerFirst..NumberEnd /\ IsDigit(cursor)
           /\ IsDigit(cursor + 1) => cursor + 1 \in PowerFirst..(NumberEnd - 1)
           /\ ~IsDigit(cursor + 1) => cursor + 1 = NumberEnd
           /\ \A k \in PowerFirst..(NumberEnd - 1) : IsDigit(k)
  <1>1. /\ PowerFirst \in 1..End /\ NumberEnd \in PowerFirst..End /\ ~IsDigit(NumberEnd)
        /\ \A k \in PowerFirst..(NumberEnd - 1) : IsDigit(k)
    BY PowerPlace
  <1>2. End \in Nat
    BY Positions
  <1>3. /\ cursor \in PowerFirst..End /\ cursor < End
        /\ cursor \in Nat /\ PowerFirst \in Nat /\ NumberEnd \in Nat
        /\ cursor + 1 \in PowerFirst..NumberEnd
    BY <1>1, <1>2
  <1>4. IsDigit(cursor + 1) => cursor + 1 \in PowerFirst..(NumberEnd - 1)
    <2>1. IsDigit(cursor + 1) => cursor + 1 # NumberEnd
      BY <1>1
    <2> QED
      BY <1>3, <2>1
  <1>5. ~IsDigit(cursor + 1) => cursor + 1 = NumberEnd
    <2>1. ~IsDigit(cursor + 1) => cursor + 1 \notin PowerFirst..(NumberEnd - 1)
      BY <1>1
    <2> QED
      BY <1>3, <2>1
  <1> QED
    BY <1>1, <1>2, <1>3, <1>4, <1>5

(* The exponent that has been read, with the digit at the cursor. *)
LEMMA PowerWorth ==
    ASSUME input \in Inputs, HasExponent, cursor \in PowerFirst..(NumberEnd - 1),
           ~external, ~PowerTooBig, eNegative = PowerNegative,
           e = Negated(PowerNegative, Worth(PowerFirst, cursor))
    PROVE  /\ Worth(PowerFirst, cursor + 1) \in Nat
           /\ Worth(PowerFirst, cursor + 1) + Len(FractionText) <= ExpMax
           /\ Wrapped(e * 10 + Convert(eNegative, cursor), ExpMax)
                = Negated(PowerNegative, Worth(PowerFirst, cursor + 1))
  <1> DEFINE v == Worth(PowerFirst, cursor)
             w == Worth(PowerFirst, cursor + 1)
             all == Worth(PowerFirst, NumberEnd)
             d == Digit(cursor)
             m == e * 10 + Convert(eNegative, cursor)
  <1>1. /\ PowerFirst \in 1..End /\ cursor \in PowerFirst..End /\ cursor < End
        /\ cursor \in Nat /\ PowerFirst \in Nat /\ NumberEnd \in Nat /\ End \in Nat
        /\ NumberEnd \in PowerFirst..End
        /\ cursor + 1 \in PowerFirst..NumberEnd /\ IsDigit(cursor)
        /\ \A k \in PowerFirst..(NumberEnd - 1) : IsDigit(k)
    BY PowerCursor
  <1>2. d \in 0..9 /\ d = At(cursor) - Zero /\ At(cursor) \in Int
    BY <1>1, DigitIs
  <1>3. v \in Nat /\ all \in Nat
    <2>1. \A k \in PowerFirst..(cursor - 1) : IsDigit(k)
      BY <1>1
    <2> QED
      BY <1>1, <2>1, WorthIsNat
  <1>4. w = 10 * v + d
    <2>1. w = 10 * v + At(cursor) - Zero
      BY <1>1, WorthMore
    <2> HIDE DEF v, w, d
    <2> QED
      BY <1>2, <1>3, <2>1 DEF Zero
  <1>5. w \in Nat
    <2> HIDE DEF v, w, d
    <2> QED
      BY <1>2, <1>3, <1>4
  <1>6. w <= all
    BY <1>1, WorthGrows
  <1>7. all + Len(FractionText) <= ExpMax /\ Len(FractionText) \in Nat /\ ExpMax \in Nat
    <2>1. ~(ValueOf(PowerText) + Len(FractionText) > ExpMax)
      BY DEF PowerTooBig
    <2>2. ValueOf(PowerText) = all
      BY Parts DEF Worth
    <2>3. FractionText \in Seq(Int) /\ Len(FractionText) \in Nat
      BY Parts, LenProperties
    <2> HIDE DEF all
    <2> QED
      BY <1>3, <2>1, <2>2, <2>3, NumberAssumption
  <1>8. /\ PowerNegative =>
              /\ e = 0 - v
              /\ \/ Convert(eNegative, cursor) = 0 - d
                 \/ d # 0 /\ Convert(eNegative, cursor) = 2 * (ExpMax + 1) - d
        /\ ~PowerNegative => e = v /\ Convert(eNegative, cursor) = d
    <2>1. v \in Int
      BY <1>3
    <2>2. e = Negated(PowerNegative, v)
      OBVIOUS
    <2> HIDE DEF v
    <2> QED
      BY <1>1, <2>1, <2>2, NegatedIs, ConvertIs, Zenon
  <1>9. w + Len(FractionText) <= ExpMax
    <2> HIDE DEF w, all
    <2> QED
      BY <1>3, <1>5, <1>6, <1>7
  <1>10. Wrapped(m, ExpMax) = Negated(PowerNegative, w)
    <2>1. (0 - v) * 10 + (0 - d) = 0 - (10 * v + d)
      <3> HIDE DEF v, d
      <3> QED
        BY <1>2, <1>3
    <2>2. CASE PowerNegative
      <3>1. Negated(PowerNegative, w) = 0 - w
        <4>1. w \in Int
          BY <1>5
        <4> HIDE DEF w
        <4> QED
          BY <2>2, <4>1, NegatedIs, Zenon
      <3>2. CASE Convert(eNegative, cursor) = 0 - d
        <4>1. m = 0 - w
          <5> HIDE DEF v, w, d
          <5> QED
            BY <1>4, <1>8, <2>1, <2>2, <3>2
        <4> HIDE DEF m, w
        <4>2. m \in -(ExpMax + 1)..ExpMax
          BY <1>5, <1>7, <1>9, <4>1
        <4> QED
          BY <1>7, <3>1, <4>1, <4>2, WrappedExact
      <3>3. CASE d # 0 /\ Convert(eNegative, cursor) = 2 * (ExpMax + 1) - d
        <4>1. m = 2 * (ExpMax + 1) - w /\ w >= 1
          <5> HIDE DEF v, w, d
          <5>1. (0 - v) * 10 + (2 * (ExpMax + 1) - d) = 2 * (ExpMax + 1) - (10 * v + d)
            BY <1>2, <1>3, <1>7
          <5>2. 10 * v + d >= 1
            BY <1>2, <1>3, <3>3
          <5> QED
            BY <1>4, <1>8, <2>2, <3>3, <5>1, <5>2 DEF m
        <4> HIDE DEF m, w
        <4>2. m \in (ExpMax + 1)..(2 * ExpMax + 1)
          BY <1>5, <1>7, <1>9, <4>1
        <4>3. Wrapped(m, ExpMax) = m - 2 * (ExpMax + 1)
          BY <1>7, <4>2, WrappedPast
        <4> QED
          BY <1>5, <1>7, <3>1, <4>1, <4>3
      <3> QED
        BY <1>8, <2>2, <3>2, <3>3
    <2>3. CASE ~PowerNegative
      <3>1. m = w
        <4> HIDE DEF v, w, d
        <4> QED
          BY <1>2, <1>3, <1>4, <1>8, <2>3
      <3>2. m \in -(ExpMax + 1)..ExpMax
        <4> HIDE DEF m, w
        <4> QED
          BY <1>5, <1>7, <1>9, <3>1
      <3>3. Negated(PowerNegative, w) = w
        BY <2>3, Zenon DEF Negated
      <3> HIDE DEF m, w
      <3> QED
        BY <1>7, <3>1, <3>2, <3>3, WrappedExact
    <2> QED
      BY <2>2, <2>3
  <1> QED
    BY <1>5, <1>9, <1>10

LEMMA ExponentDigitReads ==
    ASSUME TypeInv, NumberInv, ExponentDigit
    PROVE  NumberInv'
  <1> SUFFICES ASSUME Exact
               PROVE  \/ pc' = "power" /\ AtPower'
                      \/ pc' = "float" /\ AtFloat'
    BY StepReads DEF ExponentDigit
  <1> DEFINE power == IF external THEN e
                      ELSE Wrapped(e * 10 + Convert(eNegative, cursor), ExpMax)
             w == Worth(PowerFirst, cursor + 1)
  <1>1. input \in Inputs /\ external \in BOOLEAN /\ AtPower /\ ~PowerTooBig
    BY AtLabel DEF ExponentDigit
  <1>2. /\ input' = input /\ external' = external /\ negative' = Signed
        /\ eNegative = PowerNegative /\ eNegative' = PowerNegative
        /\ IsNumber /\ HasExponent /\ cursor \in PowerFirst..(NumberEnd - 1)
        /\ exponent = ScaleOf(Len(FractionText))
        /\ cursor' = cursor + 1 /\ e' = power
        /\ IF IsDigit(cursor + 1) /\ HasRoom(floatData')
           THEN exponent' = exponent /\ pc' = "power"
           ELSE exponent' = Wrapped(exponent + power, ExpMax) /\ pc' = "float"
    BY <1>1 DEF AtPower, ExponentDigit, Consume
  <1>3. /\ PowerFirst \in 1..End /\ cursor \in PowerFirst..End /\ cursor < End
        /\ cursor + 1 \in PowerFirst..NumberEnd
        /\ IsDigit(cursor + 1) => cursor + 1 \in PowerFirst..(NumberEnd - 1)
        /\ ~IsDigit(cursor + 1) => cursor + 1 = NumberEnd
    BY <1>1, <1>2, PowerCursor
  <1>4. PowerText = Between(PowerFirst, NumberEnd)
    BY <1>1, <1>2, Parts
  <1>5. Len(FractionText) \in Nat
    BY <1>1, Parts, LenProperties
  <1>6. CASE IsDigit(cursor + 1) /\ ~HasRoom(floatData')
    <2>1. AtFloat'
      BY <1>2, <1>6, NextFloat
    <2> QED
      BY <1>2, <1>6, <2>1
  <1>7. CASE external /\ ~(IsDigit(cursor + 1) /\ ~HasRoom(floatData'))
    <2>1. /\ floatData = (Mantissa \o MarkText) \o Between(PowerFirst, cursor)
          /\ e = 0 /\ e' = 0 /\ floatData' = Append(floatData, At(cursor))
      BY <1>1, <1>7 DEF AtPower, ExponentDigit
    <2>2. floatData' = (Mantissa \o MarkText) \o Between(PowerFirst, cursor + 1)
      <3>1. Mantissa \o MarkText \in Seq(Int)
        BY <1>1, Buffers, ConcatProperties
      <3> QED
        BY <1>1, <1>3, <2>1, <3>1, BufferMore
    <2>3. CASE IsDigit(cursor + 1)
      <3>1. AtPower'
        BY <1>2, <1>3, <1>7, <2>1, <2>2, <2>3, NextPower
      <3> QED
        BY <1>2, <1>7, <2>3, <3>1
    <2>4. CASE ~IsDigit(cursor + 1)
      <3>1. cursor' = NumberEnd /\ pc' = "float"
        BY <1>2, <1>3, <2>4
      <3>2. floatData' = TextMeant
        BY <1>1, <1>2, <1>3, <1>4, <1>7, <2>2, <2>4, TextParts
      <3>3. AtFloat'
        BY <1>2, <1>7, <3>1, <3>2, NextFloat DEF Fits, IsInt
      <3> QED
        BY <3>1, <3>3
    <2> QED
      BY <2>3, <2>4
  <1>8. CASE ~external
    <2>1. /\ floatData' = Mantissa /\ HasRoom(floatData')
          /\ e = Negated(PowerNegative, Worth(PowerFirst, cursor))
      BY <1>1, <1>8 DEF AtPower, ExponentDigit, HasRoom
    <2>2. w \in Nat /\ w + Len(FractionText) <= ExpMax /\ power = Negated(PowerNegative, w)
      <3>1. power = Wrapped(e * 10 + Convert(eNegative, cursor), ExpMax)
        BY <1>8, Zenon
      <3> QED
        BY <1>1, <1>2, <1>8, <2>1, <3>1, PowerWorth
    <2> HIDE DEF power
    <2>3. CASE IsDigit(cursor + 1)
      <3>1. AtPower'
        BY <1>2, <1>3, <1>8, <2>1, <2>2, <2>3, NextPower
      <3> QED
        BY <1>2, <2>1, <2>3, <3>1
    <2>4. CASE ~IsDigit(cursor + 1)
      <3>1. cursor' = NumberEnd /\ pc' = "float" /\ exponent' = Wrapped(exponent + power, ExpMax)
        BY <1>2, <1>3, <2>4
      <3>2. w = ValueOf(PowerText)
        BY <1>3, <1>4, <2>4 DEF Worth
      <3> HIDE DEF w
      <3>3. Power = power
        BY <2>2, <3>2, Zenon DEF Power, Negated
      <3>4. exponent + power = Power - Len(FractionText)
            /\ Power - Len(FractionText) \in -(ExpMax + 1)..ExpMax
        <4>1. exponent = 0 - Len(FractionText)
          BY <1>2, <1>5, <1>8, ScaleIs
        <4>2. power = 0 - w \/ power = w
          <5>1. w \in Int
            BY <2>2
          <5> QED
            BY <2>2, <5>1, NegatedIs, Zenon
        <4> QED
          BY <1>5, <2>2, <3>3, <4>1, <4>2, NumberAssumption
      <3>5. exponent' = Power - Len(FractionText)
        <4> DEFINE all == Power - Len(FractionText)
        <4>1. all \in -(ExpMax + 1)..ExpMax /\ exponent' = Wrapped(all, ExpMax)
          BY <3>1, <3>4
        <4> HIDE DEF all
        <4>2. exponent' = all
          BY <4>1, WrappedExact, NumberAssumption
        <4> QED
          BY <4>2 DEF all
      <3>6. floatData' = IntText \o FractionText
        <4>1. SignText = <<>> /\ PointText = <<>>
          BY <1>8 DEF SignText, PointText
        <4> QED
          BY <1>1, <2>1, <4>1, PlainMantissa
      <3>7. AtFloat'
        BY <1>2, <1>8, <3>1, <3>5, <3>6, NextFloat DEF Fits, IsInt
      <3> QED
        BY <3>1, <3>7
    <2> QED
      BY <2>3, <2>4
  <1> QED
    BY <1>1, <1>6, <1>7, <1>8

LEMMA MakeFloatReads ==
    ASSUME TypeInv, NumberInv, MakeFloat
    PROVE  NumberInv'
  <1> SUFFICES ASSUME Exact PROVE pc' = "done" /\ NumberIsRead'
    BY StepReads DEF MakeFloat, numberVars
  <1>1. external \in BOOLEAN /\ AtFloat
    BY AtLabel DEF MakeFloat
  <1>2. /\ input' = input /\ external' = external /\ cursor' = cursor /\ floatData' = floatData
        /\ negative = Signed /\ pc' = "done" /\ result' = Make
    BY <1>1 DEF MakeFloat, numberVars, Done, AtFloat
  <1>3. CASE IsDigit(cursor) /\ ~HasRoom(floatData)
    <2>1. result'.kind # "error"
      <3>1. Make.kind = "text" \/ Make.kind = "float"
        BY DEF Make
      <3> QED
        BY <1>2, <3>1
    <2> QED
      BY <1>2, <1>3, <2>1, NextCutShort
  <1>4. CASE external /\ ~Fits /\ cursor = NumberEnd /\ floatData = TextMeant
    <2>1. result' = [kind |-> "text", text |-> TextMeant]
      BY <1>2, <1>4 DEF Make
    <2> QED
      BY <1>2, <1>4, <2>1, NextText
  <1>5. CASE /\ ~external /\ ~Fits /\ cursor = NumberEnd
             /\ floatData = IntText \o FractionText /\ exponent = Power - Len(FractionText)
    <2>1. result' = [kind |-> "float", negative |-> Signed, digits |-> IntText \o FractionText,
                     exponent |-> Power - Len(FractionText)]
      BY <1>2, <1>5 DEF Make
    <2> QED
      BY <1>2, <1>5, <2>1, NextFloatRead
  <1> QED
    BY <1>1, <1>3, <1>4, <1>5, Zenon DEF AtFloat

(* A text that begins a number is read by the number reader alone. *)
LEMMA ReadValueReads ==
    ASSUME TypeInv, NumberInv, ReadValue
    PROVE  NumberInv'
  <1> SUFFICES ASSUME Exact PROVE pc' = "number" /\ AtStart'
    BY StepReads DEF ReadValue, numberVars
  <1>1. AtStart /\ BeginsNumber(At(1))
    BY DEF NumberInv, Exact, ReadValue
  <1>2. cursor = 1 /\ At(cursor) \notin {9, 10, 13, 32} /\ At(cursor) # Quote
    BY <1>1 DEF AtStart, BeginsNumber
  <1>3. pc' = "number" /\ cursor' = cursor /\ UNCHANGED numberVars
    BY <1>2 DEF ReadValue
  <1> QED
    BY <1>1, <1>3 DEF AtStart, numberVars

LEMMA OthersRead ==
    ASSUME TypeInv, NumberInv, ReadWord \/ StringNext, UNCHANGED numberVars
    PROVE  NumberInv'
  <1>1. input' = input /\ external' = external
    BY DEF ReadWord, StringNext, ReadString, ReadAscii, ReadSlice, ReadUtf8, ReadEscape,
           EndString, NoMemory, EndMissing, Done, Take, numberVars
  <1>2. ~Exact
    <2> SUFFICES ASSUME Exact PROVE FALSE
      OBVIOUS
    <2>1. CASE StringNext
      <3>1. pc \in StringLabels
        BY <2>1 DEF StringLabels, StringNext, ReadString, ReadAscii, ReadSlice, ReadUtf8,
                    ReadEscape, EndString, NoMemory, EndMissing, Reading, AtQuote, AtEscape, AtText
      <3> QED
        BY <3>1 DEF NumberInv
    <2>2. CASE ReadWord
      <3>1. AtStart /\ BeginsNumber(At(1))
        BY <2>2 DEF NumberInv, Exact, ReadWord
      <3>2. PICK word \in Words : At(cursor) = word.word[1]
        BY <2>2 DEF ReadWord
      <3> QED
        BY <3>1, <3>2 DEF AtStart, BeginsNumber
    <2> QED
      BY <2>1, <2>2
  <1>3. ~Exact'
    BY <1>1, <1>2, SameMeaning
  <1> QED
    BY <1>3 DEF NumberInv

LEMMA InitReads == Init => NumberInv
  BY DEF Init, NumberInit, NumberInv, AtStart, NumberIsRead, NumberText, StringLabels

LEMMA StutterReads ==
    ASSUME TypeInv, NumberInv, UNCHANGED vars
    PROVE  NumberInv'
  <1> SUFFICES ASSUME Exact
               PROVE  \/ pc' \in {"value", "number"} /\ AtStart'
                      \/ pc' = "int" /\ AtInt'
                      \/ pc' = "big" /\ AtBig'
                      \/ pc' = "point" /\ AtPoint'
                      \/ pc' = "fraction" /\ AtFraction'
                      \/ pc' = "exponent" /\ AtExponent'
                      \/ pc' = "power" /\ AtPower'
                      \/ pc' = "float" /\ AtFloat'
                      \/ pc' = "done" /\ NumberIsRead'
    BY StepReads DEF vars, inputVars, numberVars
  <1>1. /\ input' = input /\ external' = external /\ pc' = pc /\ cursor' = cursor
        /\ result' = result /\ negative' = negative /\ intValue' = intValue
        /\ floatData' = floatData /\ exponent' = exponent /\ e' = e /\ eNegative' = eNegative
    BY DEF vars, inputVars, numberVars
  <1>2. pc \in {"value", "number"} => AtStart'
    BY <1>1 DEF NumberInv, AtStart
  <1>3. (pc = "int" => AtInt') /\ (pc = "big" => AtBig')
    <2> SUFFICES ASSUME pc \in {"int", "big"} PROVE (pc = "int" => AtInt') /\ (pc = "big" => AtBig')
      OBVIOUS
    <2>1. InDigits /\ (pc = "int" => AtInt) /\ (pc = "big" => AtBig)
      BY AtLabel
    <2>2. /\ (~Unsigned => /\ Worth(IntFirst, cursor') <= Limit \div 10
                           /\ intValue' = Negated(Signed, Worth(IntFirst, cursor')))
             => AtInt'
          /\ (~Unsigned => ~(Worth(IntFirst, cursor') <= Limit \div 10)) => AtBig'
      BY <1>1, <2>1, NextInt DEF InDigits
    <2> QED
      BY <1>1, <2>1, <2>2 DEF AtInt, AtBig
  <1>4. pc = "point" => AtPoint'
    BY <1>1, AtLabel, NextPoint DEF AtPoint
  <1>5. pc = "fraction" => AtFraction'
    BY <1>1, AtLabel, NextFraction DEF AtFraction
  <1>6. pc = "exponent" => AtExponent'
    BY <1>1, AtLabel, NextExponent DEF AtExponent
  <1>7. pc = "power" => AtPower'
    BY <1>1, AtLabel, NextPower DEF AtPower
  <1>8. pc = "float" => AtFloat'
    BY <1>1, AtLabel, NextFloat DEF AtFloat
  <1>9. pc = "done" => NumberIsRead'
    <2>1. NumberIsRead
      BY DEF NumberInv
    <2>2. /\ NumberText' <=> NumberText
          /\ IsDigit(cursor)' <=> IsDigit(cursor)
      BY <1>1, SameMeaning, NextPlaces DEF NumberText
    <2> QED
      BY <1>1, <2>1, <2>2, SameMeaning DEF NumberIsRead, Meant, FloatMeant, HasRoom, Exact
  <1>10. pc \in {"value", "done"} \cup NumberLabels \/ pc \in StringLabels
    BY DEF TypeInv
  <1> QED
    BY <1>1, <1>2, <1>3, <1>4, <1>5, <1>6, <1>7, <1>8, <1>9, <1>10 DEF NumberInv, NumberLabels

LEMMA NextReads == TypeInv /\ NumberInv /\ [Next]_vars => NumberInv'
  <1> SUFFICES ASSUME TypeInv, NumberInv, [Next]_vars PROVE NumberInv'
    OBVIOUS
  <1>1. CASE UNCHANGED vars
    BY <1>1, StutterReads
  <1>2. CASE ReadValue
    BY <1>2, ReadValueReads
  <1>3. CASE ReadWord
    BY <1>3, OthersRead DEF ReadWord
  <1>4. CASE StringNext /\ UNCHANGED numberVars
    BY <1>4, OthersRead
  <1>5. CASE NumberNext
    BY <1>5, ReadNumberReads, IntDigitReads, BigDigitReads, PointReads, FractionDigitReads,
       ExponentReads, ExponentDigitReads, MakeFloatReads DEF NumberNext
  <1> QED
    BY <1>1, <1>2, <1>3, <1>4, <1>5 DEF Next

(* Whatever the width of the ints and the size of floatBuffer: a number is  *)
(* read as it is written, as an int exactly if it is one that fits, or      *)
(* refused, or cut off before a digit that is left in the text; a text that *)
(* is no number is refused.  It does not speak of what NumberIsRead leaves  *)
(* out: the early wrap, negative ints in a 4-byte str, the dropped mark and *)
(* exponents beyond an int.                                                 *)
THEOREM NumbersRead == Spec => []NumberIsRead
  <1>1. Init => TypeInv /\ NumberInv
    BY InitType, InitReads
  <1>2. TypeInv /\ NumberInv /\ [Next]_vars => (TypeInv /\ NumberInv)'
    BY NextType, NextReads
  <1>3. TypeInv /\ NumberInv => NumberIsRead
    <2> SUFFICES ASSUME NumberInv, NumberText, ~WrapsEarly, ~WideNegative, ~MarkDropped,
                        ~PowerTooBig
                 PROVE  NumberIsRead
      BY Zenon DEF NumberIsRead
    <2>1. Exact
      BY DEF Exact, NumberText
    <2> QED
      BY <2>1, Zenon DEF NumberInv
  <1> QED
    BY <1>1, <1>2, <1>3, PTL DEF Spec
=============================================================================
