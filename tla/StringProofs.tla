---------------------------- MODULE StringProofs ----------------------------
(***************************************************************************)
(* For every set of inputs: a string is read to the characters its pieces  *)
(* stand for, whichever reader reads which part of it.                     *)
(***************************************************************************)
EXTENDS ScalarsProofs

-----------------------------------------------------------------------------
(* The pieces, and what the first k of them are written as and stand for.   *)

Pieces == input.pieces
Count == Len(Pieces)

WrittenTo(k) == FlattenSeq([i \in 1..k |-> Pieces[i].written])

CharsFor(i) ==
    IF HighHalf(Pieces[i]) THEN <<Pair(Pieces[i].char, Pieces[i + 1].char)>>
    ELSE IF LowHalf(Pieces[i]) THEN <<>> ELSE <<Pieces[i].char>>
CharsTo(k) == FlattenSeq([i \in 1..k |-> CharsFor(i)])

(* The position behind the first k pieces. *)
Place(k) == Len(WrittenTo(k)) + 2

IsString == input \in Inputs /\ input.origin = "string"

LEMMA FlattenNone ==
    ASSUME NEW g, Lists(g, 0)
    PROVE  FlattenSeq(g) = <<>>
  <1> DEFINE T == {g[i] : i \in 1..0}
  <1>1. g \in [1..0 -> T]
    BY DEF Lists
  <1>2. g \in Seq(T) /\ Len(g) = 0
    BY <1>1, FunctionIsSeq
  <1> QED
    BY <1>2, EmptySeq DEF FlattenSeq

LEMMA PiecesAre ==
    ASSUME IsString
    PROVE  /\ Count \in Nat /\ DOMAIN Pieces = 1..Count
           /\ \A k \in 1..Count : IsPiece(Pieces[k], input.kind)
           /\ \A k \in 1..Count : /\ Pieces[k].written \in Seq(0..MaxUnicode)
                                  /\ Pieces[k].char \in Int
                                  /\ Pieces[k].unit \in BOOLEAN
  <1>1. Count \in Nat /\ DOMAIN Pieces = 1..Count
    BY StringAssumption DEF IsString, Pieces, Count
  <1>2. \A k \in 1..Count : IsPiece(Pieces[k], input.kind)
    BY <1>1, StringAssumption DEF IsString, Pieces, Count
  <1> QED
    BY <1>1, <1>2 DEF IsPiece

LEMMA WrittenStart == WrittenTo(0) = <<>>
  <1> DEFINE g == [i \in 1..0 |-> Pieces[i].written]
  <1>1. Lists(g, 0)
    BY DEF Lists
  <1> HIDE DEF g
  <1>2. FlattenSeq(g) = <<>>
    BY <1>1, FlattenNone
  <1> QED
    BY <1>2 DEF g, WrittenTo

LEMMA WrittenMore ==
    ASSUME IsString, NEW k \in 1..Count
    PROVE  WrittenTo(k) = WrittenTo(k - 1) \o Pieces[k].written
  <1> DEFINE g == [i \in 1..(k - 1) |-> Pieces[i].written]
             h == [i \in 1..k |-> Pieces[i].written]
  <1>1. k \in Nat /\ k # 0 /\ Count \in Nat
    BY PiecesAre
  <1>2. Lists(g, k - 1) /\ Lists(h, k)
    BY DEF Lists
  <1>3. \A i \in 1..(k - 1) : g[i] = h[i]
    BY <1>1
  <1> DEFINE S == 0..MaxUnicode
  <1>4. h[k] = Pieces[k].written /\ h[k] \in Seq(S)
    BY <1>1, PiecesAre
  <1> HIDE DEF g, h, S
  <1>5. FlattenSeq(h) = FlattenSeq(g) \o h[k]
    <2>1. k \in Nat /\ k # 0 /\ h[k] \in Seq(S)
      BY <1>1, <1>4
    <2> QED
      BY ONLY <2>1, <1>2, <1>3, FlattenMore
  <1> QED
    BY <1>4, <1>5 DEF g, h, WrittenTo

LEMMA CharsStart == CharsTo(0) = <<>>
  <1> DEFINE g == [i \in 1..0 |-> CharsFor(i)]
  <1>1. Lists(g, 0)
    BY DEF Lists
  <1> HIDE DEF g
  <1>2. FlattenSeq(g) = <<>>
    BY <1>1, FlattenNone
  <1> QED
    BY <1>2 DEF g, CharsTo

LEMMA CharsMore ==
    ASSUME NEW k \in Nat, k # 0, NEW S, CharsFor(k) \in Seq(S)
    PROVE  CharsTo(k) = CharsTo(k - 1) \o CharsFor(k)
  <1> DEFINE g == [i \in 1..(k - 1) |-> CharsFor(i)]
             h == [i \in 1..k |-> CharsFor(i)]
  <1>1. Lists(g, k - 1) /\ Lists(h, k)
    BY DEF Lists
  <1>2. \A i \in 1..(k - 1) : g[i] = h[i]
    OBVIOUS
  <1>3. h[k] = CharsFor(k) /\ h[k] \in Seq(S)
    OBVIOUS
  <1> HIDE DEF g, h
  <1>4. FlattenSeq(h) = FlattenSeq(g) \o h[k]
    <2>1. k \in Nat /\ k # 0
      OBVIOUS
    <2> QED
      BY ONLY <2>1, <1>1, <1>2, <1>3, FlattenMore
  <1> QED
    BY <1>3, <1>4 DEF g, h, CharsTo

LEMMA WrittenTypes ==
    ASSUME IsString
    PROVE  \A k \in 0..Count : WrittenTo(k) \in Seq(0..MaxUnicode)
  <1> DEFINE S == {k \in 0..Count : WrittenTo(k) \notin Seq(0..MaxUnicode)}
  <1> SUFFICES ASSUME S # {} PROVE FALSE
    OBVIOUS
  <1>1. PICK k \in S : \A i \in S : k <= i
    <2>1. S \in SUBSET Nat
      BY PiecesAre
    <2> HIDE DEF S
    <2> QED
      BY <2>1, LeastNumber
  <1>2. Count \in Nat /\ k \in 0..Count
    BY <1>1, PiecesAre
  <1>3. CASE k = 0
    BY <1>1, <1>3, WrittenStart, EmptySeq
  <1>4. CASE k # 0
    <2>1. k \in 1..Count /\ k - 1 \in 0..Count /\ k - 1 \notin S
      BY <1>1, <1>2, <1>4
    <2>2. WrittenTo(k - 1) \in Seq(0..MaxUnicode) /\ Pieces[k].written \in Seq(0..MaxUnicode)
      BY <2>1, PiecesAre
    <2>3. WrittenTo(k) = WrittenTo(k - 1) \o Pieces[k].written
      BY <2>1, WrittenMore
    <2>4. WrittenTo(k) \in Seq(0..MaxUnicode)
      BY <2>2, <2>3, ConcatProperties
    <2> QED
      BY <1>1, <2>4
  <1> QED
    BY <1>3, <1>4

(* One piece more. *)
LEMMA PlaceMore ==
    ASSUME IsString, NEW k \in 1..Count
    PROVE  /\ Place(k - 1) \in Nat /\ Place(k - 1) >= 2
           /\ Place(k) = Place(k - 1) + Len(Pieces[k].written)
           /\ \A i \in 1..Len(WrittenTo(k - 1)) : WrittenTo(k)[i] = WrittenTo(k - 1)[i]
           /\ \A j \in 1..Len(Pieces[k].written) :
                 WrittenTo(k)[Place(k - 1) + j - 2] = Pieces[k].written[j]
  <1> DEFINE s == WrittenTo(k - 1)
             t == Pieces[k].written
             C == 0..MaxUnicode
  <1>1. s \in Seq(C) /\ t \in Seq(C)
    BY PiecesAre, WrittenTypes
  <1>2. WrittenTo(k) = s \o t
    BY WrittenMore
  <1>3. Place(k) = Len(s \o t) + 2 /\ Place(k - 1) = Len(s) + 2
    BY <1>2 DEF Place
  <1> HIDE DEF s, t, C
  <1>4. /\ Len(s \o t) = Len(s) + Len(t) /\ Len(s) \in Nat /\ Len(t) \in Nat
        /\ \A i \in 1..(Len(s) + Len(t)) :
              (s \o t)[i] = IF i <= Len(s) THEN s[i] ELSE t[i - Len(s)]
    BY <1>1, ConcatProperties, LenProperties
  <1>5. \A i \in 1..Len(s) : (s \o t)[i] = s[i]
    BY <1>4
  <1>6. \A j \in 1..Len(t) : (s \o t)[Len(s) + j] = t[j]
    <2> SUFFICES ASSUME NEW j \in 1..Len(t) PROVE (s \o t)[Len(s) + j] = t[j]
      OBVIOUS
    <2>1. Len(s) + j \in 1..(Len(s) + Len(t)) /\ ~(Len(s) + j <= Len(s)) /\ Len(s) + j - Len(s) = j
      BY <1>4
    <2> QED
      BY <1>4, <2>1
  <1>7. \A j \in 1..Len(t) : Place(k - 1) + j - 2 = Len(s) + j
    BY <1>3, <1>4
  <1>8. Place(k - 1) \in Nat /\ Place(k - 1) >= 2 /\ Place(k) = Place(k - 1) + Len(t)
    BY <1>3, <1>4
  <1>9. \A i \in 1..Len(s) : WrittenTo(k)[i] = s[i]
    BY <1>2, <1>5
  <1>10. \A j \in 1..Len(t) : WrittenTo(k)[Place(k - 1) + j - 2] = t[j]
    BY <1>2, <1>6, <1>7
  <1> QED
    BY <1>8, <1>9, <1>10 DEF s, t

(* What is written for the first pieces does not depend on those behind     *)
(* them.                                                                    *)
LEMMA WrittenGrows ==
    ASSUME IsString, NEW k \in 0..Count
    PROVE  \A m \in k..Count : /\ Len(WrittenTo(k)) <= Len(WrittenTo(m))
                               /\ \A i \in 1..Len(WrittenTo(k)) : WrittenTo(m)[i] = WrittenTo(k)[i]
  <1> DEFINE Begins(m) == /\ Len(WrittenTo(k)) <= Len(WrittenTo(m))
                          /\ \A i \in 1..Len(WrittenTo(k)) : WrittenTo(m)[i] = WrittenTo(k)[i]
             S == {m \in k..Count : ~Begins(m)}
  <1> SUFFICES ASSUME S # {} PROVE FALSE
    OBVIOUS
  <1>1. PICK m \in S : \A i \in S : m <= i
    <2>1. S \in SUBSET Nat
      BY PiecesAre
    <2> HIDE DEF S
    <2> QED
      BY <2>1, LeastNumber
  <1>2. Count \in Nat /\ m \in k..Count /\ ~Begins(m)
    BY <1>1, PiecesAre
  <1>3. Len(WrittenTo(k)) \in Nat
    BY WrittenTypes, LenProperties
  <1>4. m # k
    BY <1>2, <1>3
  <1>5. m \in 1..Count /\ m - 1 \in k..Count
    BY <1>2, <1>4
  <1>6. Begins(m - 1)
    <2>1. m - 1 \notin S
      BY <1>1, <1>5
    <2> HIDE DEF Begins
    <2> QED
      BY <1>5, <2>1
  <1>7. /\ Len(WrittenTo(m)) >= Len(WrittenTo(m - 1)) /\ Len(WrittenTo(m - 1)) \in Nat
        /\ Len(WrittenTo(m)) \in Nat
    <2>1. Len(WrittenTo(m - 1)) \in Nat /\ Len(WrittenTo(m)) \in Nat
      BY <1>2, <1>5, WrittenTypes, LenProperties
    <2>2. Len(Pieces[m].written) \in Nat
      BY <1>5, PiecesAre, LenProperties
    <2>3. Len(WrittenTo(m)) + 2 = Len(WrittenTo(m - 1)) + 2 + Len(Pieces[m].written)
      BY <1>5, PlaceMore DEF Place
    <2> DEFINE a == Len(WrittenTo(m - 1))
               b == Len(WrittenTo(m))
               c == Len(Pieces[m].written)
    <2> HIDE DEF a, b, c
    <2>4. a \in Nat /\ b \in Nat /\ c \in Nat /\ b + 2 = a + 2 + c
      BY <2>1, <2>2, <2>3 DEF a, b, c
    <2>5. b >= a
      BY <2>4
    <2> QED
      BY <2>4, <2>5 DEF a, b
  <1>8. \A i \in 1..Len(WrittenTo(m - 1)) : WrittenTo(m)[i] = WrittenTo(m - 1)[i]
    BY <1>5, PlaceMore
  <1>9. \A i \in 1..Len(WrittenTo(k)) : i \in 1..Len(WrittenTo(m - 1))
    BY <1>3, <1>6, <1>7
  <1> QED
    BY <1>2, <1>3, <1>6, <1>7, <1>8, <1>9

-----------------------------------------------------------------------------
(* The text, by pieces. *)

LEMMA QuotedIs ==
    ASSUME IsString
    PROVE  LET q == Quoted(Pieces)
           IN  /\ Len(q) = Place(Count) /\ Len(q) \in Nat /\ Place(Count) >= 2
               /\ q[1] = Quote /\ q[Len(q)] = Quote
               /\ \A i \in 1..Len(WrittenTo(Count)) : q[i + 1] = WrittenTo(Count)[i]
               /\ q \in Seq(0..MaxUnicode)
               /\ Written(Pieces) = WrittenTo(Count)
  <1> DEFINE w == WrittenTo(Count)
             C == 0..MaxUnicode
             q == <<Quote>> \o w \o <<Quote>>
  <1>1. w \in Seq(C) /\ <<Quote>> \in Seq(C)
    <2>1. Quote \in 0..MaxUnicode
      BY MaxUnicodeFacts DEF Quote
    <2>2. Count \in 0..Count
      BY PiecesAre
    <2> HIDE DEF C
    <2> QED
      BY <2>1, <2>2, WrittenTypes DEF C
  <1>2. Written(Pieces) = w /\ Quoted(Pieces) = q
    BY PiecesAre DEF Written, WrittenTo, Quoted
  <1>3. Place(Count) = Len(w) + 2
    BY DEF Place
  <1> HIDE DEF w, C
  <1>4. /\ <<Quote>> \o w \in Seq(C) /\ Len(<<Quote>> \o w) = 1 + Len(w) /\ Len(w) \in Nat
        /\ (<<Quote>> \o w)[1] = Quote
        /\ \A i \in 1..Len(w) : (<<Quote>> \o w)[i + 1] = w[i]
    <2>1. Len(<<Quote>>) = 1 /\ <<Quote>>[1] = Quote /\ Len(w) \in Nat
      BY <1>1, LenProperties
    <2>2. /\ <<Quote>> \o w \in Seq(C)
          /\ Len(<<Quote>> \o w) = 1 + Len(w)
          /\ \A i \in 1..(1 + Len(w)) :
                (<<Quote>> \o w)[i] = IF i <= 1 THEN <<Quote>>[i] ELSE w[i - 1]
      <3> DEFINE h == <<Quote>>
      <3>1. h \in Seq(C) /\ Len(h) = 1
        BY <1>1, <2>1
      <3> HIDE DEF h
      <3>2. /\ h \o w \in Seq(C) /\ Len(h \o w) = Len(h) + Len(w)
            /\ \A i \in 1..(Len(h) + Len(w)) :
                  (h \o w)[i] = IF i <= Len(h) THEN h[i] ELSE w[i - Len(h)]
        BY <1>1, <3>1, ConcatProperties
      <3>3. /\ h \o w \in Seq(C) /\ Len(h \o w) = 1 + Len(w)
            /\ \A i \in 1..(1 + Len(w)) : (h \o w)[i] = IF i <= 1 THEN h[i] ELSE w[i - 1]
        BY ONLY <3>1, <3>2
      <3> QED
        BY <3>3 DEF h
    <2> DEFINE t == <<Quote>> \o w
    <2>3. t[1] = IF 1 <= 1 THEN <<Quote>>[1] ELSE w[1 - 1]
      <3>1. 1 \in 1..(1 + Len(w))
        BY <2>1
      <3> HIDE DEF t
      <3> QED
        BY <2>2, <3>1 DEF t
    <2>4. ASSUME NEW i \in 1..Len(w) PROVE t[i + 1] = w[i]
      <3>1. i + 1 \in 1..(1 + Len(w)) /\ ~(i + 1 <= 1) /\ i + 1 - 1 = i
        BY <2>1
      <3>2. t[i + 1] = IF i + 1 <= 1 THEN <<Quote>>[i + 1] ELSE w[i + 1 - 1]
        BY <2>2, <3>1
      <3> HIDE DEF t
      <3> QED
        BY <3>1, <3>2
    <2> HIDE DEF t
    <2> QED
      BY <2>1, <2>2, <2>3, <2>4 DEF t
  <1> DEFINE t == <<Quote>> \o w
             h == <<Quote>>
  <1>5. /\ t \in Seq(C) /\ h \in Seq(C) /\ Len(t) = 1 + Len(w) /\ Len(h) = 1 /\ h[1] = Quote
        /\ Len(w) \in Nat /\ t[1] = Quote /\ \A i \in 1..Len(w) : t[i + 1] = w[i]
        /\ q = t \o h
    BY <1>1, <1>4
  <1> HIDE DEF t, h, q
  <1>6. /\ t \o h \in Seq(C) /\ Len(t \o h) = Len(t) + Len(h)
        /\ \A i \in 1..(Len(t) + Len(h)) :
              (t \o h)[i] = IF i <= Len(t) THEN t[i] ELSE h[i - Len(t)]
    BY <1>5, ConcatProperties
  <1>7. /\ q \in Seq(C) /\ Len(q) = Len(w) + 2 /\ Len(w) \in Nat
        /\ \A i \in 1..(Len(w) + 2) : q[i] = IF i <= Len(w) + 1 THEN t[i] ELSE h[i - (Len(w) + 1)]
    BY ONLY <1>5, <1>6
  <1>8. q[1] = Quote
    BY <1>5, <1>7
  <1>9. q[Len(w) + 2] = Quote
    <2>1. Len(w) + 2 \in 1..(Len(w) + 2) /\ ~(Len(w) + 2 <= Len(w) + 1) /\ Len(w) + 2 - (Len(w) + 1) = 1
      BY <1>7
    <2> QED
      BY <1>5, <1>7, <2>1
  <1>10. ASSUME NEW i \in 1..Len(w) PROVE q[i + 1] = w[i]
    <2>1. i + 1 \in 1..(Len(w) + 2) /\ i + 1 <= Len(w) + 1
      BY <1>7
    <2> QED
      BY <1>5, <1>7, <2>1
  <1> QED
    BY <1>2, <1>3, <1>7, <1>8, <1>9, <1>10 DEF w, C

(* The text is that of the pieces as far as both go. *)
LEMMA TextIsQuoted ==
    ASSUME IsString, NEW i \in 1..Place(Count), i < End
    PROVE  At(i) = Quoted(Pieces)[i]
  <1> DEFINE q == Quoted(Pieces)
             C == 0..MaxUnicode
  <1>1. q \in Seq(C) /\ Len(q) = Place(Count) /\ Len(q) \in Nat
    BY QuotedIs
  <1>2. Text \in Seq(C) /\ Len(Text) \in Nat /\ i \in 1..Len(Text)
    BY TextFacts, <1>1 DEF IsString, End
  <1>3. IsPrefix(q, Text) \/ IsPrefix(Text, q)
    BY StringAssumption DEF IsString, Pieces, Text
  <1> HIDE DEF q, C
  <1>4. CASE IsPrefix(q, Text)
    <2>1. Len(q) <= Len(Text) /\ SubSeq(q, 1, Len(q)) = SubSeq(Text, 1, Len(q))
      BY <1>4 DEF IsPrefix
    <2>2. SubSeq(q, 1, Len(q))[i] = q[i] /\ SubSeq(Text, 1, Len(q))[i] = Text[i]
      BY <1>1, <1>2, <2>1, Prefix
    <2> QED
      BY <1>2, <2>1, <2>2 DEF At, q
  <1>5. CASE IsPrefix(Text, q)
    <2>1. Len(Text) <= Len(q) /\ SubSeq(Text, 1, Len(Text)) = SubSeq(q, 1, Len(Text))
      BY <1>5 DEF IsPrefix
    <2>2. SubSeq(q, 1, Len(Text))[i] = q[i] /\ SubSeq(Text, 1, Len(Text))[i] = Text[i]
      BY <1>1, <1>2, <2>1, Prefix
    <2> QED
      BY <1>2, <2>1, <2>2 DEF At, q
  <1> QED
    BY <1>3, <1>4, <1>5

LEMMA QuoteAtStart == IsString => At(1) = Quote /\ End > 1
  <1> SUFFICES ASSUME IsString PROVE At(1) = Quote /\ End > 1
    OBVIOUS
  <1>1. Text # <<>> /\ Text \in Seq(0..MaxUnicode) /\ Len(Text) \in Nat
    BY TextFacts, StringAssumption DEF IsString, Text
  <1>2. Len(Text) # 0
    BY <1>1, EmptySeq
  <1>3. 1 \in 1..Place(Count) /\ 1 < End
    BY <1>1, <1>2, QuotedIs DEF End
  <1> QED
    BY <1>3, TextIsQuoted, QuotedIs

(* The characters of a piece, as far as the text goes. *)
LEMMA PieceText ==
    ASSUME IsString, NEW k \in 1..Count, NEW j \in 1..Len(Pieces[k].written),
           Place(k - 1) + j - 1 < End
    PROVE  At(Place(k - 1) + j - 1) = Pieces[k].written[j]
  <1> DEFINE i == Place(k - 1) + j - 2
             w == WrittenTo(Count)
  <1>1. /\ Place(k - 1) \in Nat /\ Place(k - 1) >= 2
        /\ Place(k) = Place(k - 1) + Len(Pieces[k].written)
        /\ WrittenTo(k)[i] = Pieces[k].written[j]
    BY PlaceMore
  <1>2. Len(Pieces[k].written) \in Nat
    BY PiecesAre, LenProperties
  <1>3. Len(WrittenTo(k)) \in Nat /\ k \in 0..Count /\ Count \in k..Count /\ Count \in Nat
    BY PiecesAre, WrittenTypes, LenProperties
  <1>4. i \in 1..Len(WrittenTo(k))
    <2> DEFINE a == Place(k - 1)
               b == Len(WrittenTo(k))
               c == Len(Pieces[k].written)
    <2>1. /\ a \in Nat /\ a >= 2 /\ b \in Nat /\ c \in Nat /\ j \in 1..c
          /\ b + 2 = a + c /\ i = a + j - 2
      BY <1>1, <1>2, <1>3 DEF Place
    <2> HIDE DEF a, b, c, i
    <2>2. i \in 1..b
      BY <2>1
    <2> QED
      BY <2>2 DEF b
  <1>5. Len(WrittenTo(k)) <= Len(w) /\ w[i] = WrittenTo(k)[i] /\ Len(w) \in Nat
    BY <1>3, <1>4, WrittenGrows, WrittenTypes, LenProperties
  <1>6. i \in 1..Len(w)
    BY <1>3, <1>4, <1>5
  <1>7. Quoted(Pieces)[i + 1] = w[i]
    BY <1>6, QuotedIs
  <1>8. i + 1 \in 1..Place(Count) /\ i + 1 = Place(k - 1) + j - 1
    BY <1>1, <1>5, <1>6 DEF Place
  <1> HIDE DEF i, w
  <1>9. At(i + 1) = Quoted(Pieces)[i + 1]
    BY <1>8, TextIsQuoted
  <1> QED
    BY <1>1, <1>5, <1>7, <1>8, <1>9

(* The closing quote. *)
LEMMA QuoteAtEnd ==
    ASSUME IsString, Place(Count) < End
    PROVE  At(Place(Count)) = Quote
  <1>1. Place(Count) \in 1..Place(Count)
    BY QuotedIs
  <1> QED
    BY <1>1, TextIsQuoted, QuotedIs

LEMMA Places ==
    ASSUME IsString
    PROVE  /\ \A k \in 0..Count : Place(k) \in Nat /\ Place(k) >= 2 /\ Place(k) <= Place(Count)
           /\ Acceptable => /\ Place(Count) < End
                            /\ \A k \in 1..Count : ~Wrong(Pieces, k)
  <1>1. Count \in Nat
    BY PiecesAre
  <1>2. ASSUME NEW k \in 0..Count
        PROVE  Place(k) \in Nat /\ Place(k) >= 2 /\ Place(k) <= Place(Count)
    <2>1. Count \in k..Count /\ Count \in 0..Count
      BY <1>1
    <2>2. /\ Len(WrittenTo(k)) <= Len(WrittenTo(Count))
          /\ Len(WrittenTo(k)) \in Nat /\ Len(WrittenTo(Count)) \in Nat
      BY <2>1, WrittenGrows, WrittenTypes, LenProperties
    <2> QED
      BY <2>2 DEF Place
  <1>3. ASSUME Acceptable
        PROVE  Place(Count) < End /\ \A k \in 1..Count : ~Wrong(Pieces, k)
    <2>1. Len(Text) >= Place(Count) /\ Len(Text) \in Nat /\ Place(Count) \in Nat
      BY <1>3, QuotedIs, TextFacts DEF Acceptable, IsString, Pieces
    <2>2. \A k \in 1..Count : ~Wrong(Pieces, k)
      BY <1>3, PiecesAre DEF Acceptable, Pieces
    <2> QED
      BY <2>1, <2>2 DEF End
  <1> QED
    BY <1>2, <1>3

-----------------------------------------------------------------------------
(* What a piece begins with. *)

LEMMA Utf8Starts ==
    ASSUME NEW c \in Nat
    PROVE  /\ c < 128 => Utf8(c) = <<c>>
           /\ c >= 128 => Utf8(c)[1] >= 192 /\ Len(Utf8(c)) # 0
  <1>1. CASE c < 128
    BY <1>1 DEF Utf8
  <1>2. ASSUME c >= 128
        PROVE  Utf8(c) = TwoBytes(c) \/ Utf8(c) = ThreeBytes(c) \/ Utf8(c) = FourBytes(c)
    BY <1>2 DEF Utf8
  <1>3. c \div 64 \in Nat /\ c \div 4096 \in Nat /\ c \div 262144 \in Nat
    OBVIOUS
  <1>4. TwoBytes(c)[1] >= 192 /\ Len(TwoBytes(c)) # 0
    BY <1>3 DEF TwoBytes
  <1>5. ThreeBytes(c)[1] >= 192 /\ Len(ThreeBytes(c)) # 0
    BY <1>3 DEF ThreeBytes
  <1>6. FourBytes(c)[1] >= 192 /\ Len(FourBytes(c)) # 0
    BY <1>3 DEF FourBytes
  <1> QED
    BY <1>1, <1>2, <1>4, <1>5, <1>6

LEMMA AlphabetIs ==
    ASSUME NEW c, NEW kind, InAlphabet(c, kind)
    PROVE  c \in 0..MaxUnicode
  <1>1. CASE kind = "bytes"
    BY <1>1 DEF InAlphabet
  <1>2. CASE kind # "bytes"
    <2>1. c \in 0..Widest(kind)
      BY <1>2 DEF InAlphabet
    <2>2. Widest(kind) \in Nat /\ Widest(kind) <= MaxUnicode /\ MaxUnicode \in Nat
      BY WidestIs, MaxUnicodeFacts
    <2> QED
      BY <2>1, <2>2
  <1> QED
    BY <1>1, <1>2

LEMMA PieceStarts ==
    ASSUME NEW p, NEW kind, IsPiece(p, kind)
    PROVE  /\ Len(p.written) \in Nat \ {0}
           /\ p.written[1] # Quote
           /\ p.written[1] = Backslash =>
                 Short(p) \/ Unit(p) \/ (Meaningless(p, kind) /\ WrongEscape(p.written))
           /\ p.written[1] # Backslash =>
                 \/ Verbatim(p, kind)
                 \/ kind = "bytes" /\ Meaningless(p, kind) /\ NotUtf8(p.written)
           /\ p.written[1] # Backslash /\ (kind = "bytes" => p.written[1] < 128) =>
                 Verbatim(p, kind) /\ p.written = <<p.char>>
  <1>1. Len(p.written) \in Nat
    BY LenProperties DEF IsPiece
  <1>2. CASE Verbatim(p, kind)
    <2>1. p.char \in Nat /\ p.char # Quote /\ p.char # Backslash
      <3>1. p.char \in 0..MaxUnicode
        BY <1>2, AlphabetIs DEF Verbatim
      <3> QED
        BY <1>2, <3>1, MaxUnicodeFacts DEF Verbatim
    <2>2. CASE kind # "bytes"
      BY <1>1, <1>2, <2>1, <2>2 DEF Verbatim
    <2>3. CASE kind = "bytes" /\ p.char < 128
      <3>1. p.written = <<p.char>>
        BY <1>2, <2>1, <2>3, Utf8Starts DEF Verbatim
      <3> QED
        BY <1>1, <1>2, <2>1, <3>1
    <2>4. CASE kind = "bytes" /\ p.char >= 128
      <3>1. p.written[1] >= 192 /\ Len(p.written) # 0
        <4>1. p.written = Utf8(p.char)
          BY <1>2, <2>4 DEF Verbatim
        <4>2. Utf8(p.char)[1] >= 192 /\ Len(Utf8(p.char)) # 0
          BY <2>1, <2>4, Utf8Starts
        <4> QED
          BY <4>1, <4>2
      <3>2. p.written[1] \in Int
        <4>1. p.written \in Seq(0..MaxUnicode)
          BY DEF IsPiece
        <4>2. 1 \in 1..Len(p.written)
          BY <1>1, <3>1
        <4> QED
          BY <4>1, <4>2, ElementOfSeq, MaxUnicodeFacts
      <3> QED
        BY <1>1, <1>2, <2>4, <3>1, <3>2 DEF Quote, Backslash
    <2> QED
      BY <2>1, <2>2, <2>3, <2>4
  <1>3. CASE Short(p)
    <2>1. PICK s \in ShortEscapes : p.written = <<Backslash, s[1]>>
      BY <1>3 DEF Short
    <2> QED
      BY <1>1, <1>3, <2>1 DEF Quote, Backslash
  <1>4. CASE Unit(p)
    <2>1. Len(p.written) = 6 /\ p.written[1] = Backslash
      BY <1>4 DEF Unit
    <2>2. p.written[1] # Quote
      BY <2>1 DEF Quote, Backslash
    <2> QED
      BY <1>1, <1>4, <2>1, <2>2
  <1>5. CASE Meaningless(p, kind) /\ WrongEscape(p.written)
    <2>1. Len(p.written) > 1 /\ p.written[1] = Backslash
      BY <1>5 DEF WrongEscape
    <2>2. p.written[1] # Quote
      BY <2>1 DEF Quote, Backslash
    <2> QED
      BY <1>1, <1>5, <2>1, <2>2
  <1>6. CASE Meaningless(p, kind) /\ kind = "bytes" /\ NotUtf8(p.written)
    <2> DEFINE w == p.written
    <2>1. Len(w) # 0 /\ w[1] \in 128..255
      <3>1. CASE Len(w) > 0 /\ w[1] \in (128..191) \cup (245..255)
        BY <3>1
      <3>2. CASE Len(w) \in 2..(Announced(w[1]) + 1)
        <4>1. Announced(w[1]) # 0
          BY <1>1, <3>2
        <4>3. w[1] \in 192..244
          BY <4>1 DEF Announced
        <4>2. Announced(w[1]) \in Nat
          BY DEF Announced
        <4> QED
          BY <1>1, <3>2, <4>2, <4>3
      <3>3. CASE Len(w) = 3 /\ w[1] = 237
        BY <3>3
      <3>4. CASE Len(w) = 4 /\ w[1] = 244
        BY <3>4
      <3> QED
        BY <1>6, <3>1, <3>2, <3>3, <3>4 DEF NotUtf8
    <2>2. w[1] # Quote /\ w[1] # Backslash /\ ~(w[1] < 128)
      <3>1. ASSUME NEW b \in 128..255 PROVE b # Quote /\ b # Backslash /\ ~(b < 128)
        BY DEF Quote, Backslash
      <3> QED
        BY <2>1, <3>1
    <2> QED
      BY <1>1, <1>6, <2>1, <2>2
  <1>7. CASE Meaningless(p, kind)
    BY <1>5, <1>6, <1>7 DEF Meaningless
  <1> QED
    BY <1>2, <1>3, <1>4, <1>7 DEF IsPiece

-----------------------------------------------------------------------------
(* What the pieces stand for. *)

(* The first k pieces stand for characters, and no pair is cut in two. *)
Good(k) ==
    /\ k \in 0..Count
    /\ \A i \in 1..k : ~Wrong(Pieces, i)
    /\ k # 0 => ~HighHalf(Pieces[k])

(* A number from 0 to a bound: the bound stays a name, the provers being slow *)
(* with a long interval written out.                                         *)
LEMMA FromZero ==
    ASSUME NEW w \in Nat, NEW n, n \in 0..w
    PROVE  n \in Nat /\ n <= w /\ ~(n < 0)
  BY ONLY SMT, w \in Nat, n \in 0..w

LEMMA CodeUnitFacts ==
    ASSUME NEW c, c \in CodeUnits
    PROVE  c \in Nat /\ c <= 65535 /\ ~(c < 0)
  <1> DEFINE w == 65535
  <1>1. CodeUnits = 0..w
    BY DEF CodeUnits
  <1>2. w \in Nat
    BY ONLY SMT
  <1>3. w = 65535
    OBVIOUS
  <1> HIDE DEF w
  <1>4. c \in Nat /\ c <= w /\ ~(c < 0)
    BY <1>1, <1>2, FromZero
  <1> QED
    BY <1>3, <1>4

LEMMA PieceChar ==
    ASSUME NEW p, NEW kind, IsPiece(p, kind), ~(p.char < 0)
    PROVE  p.char \in 0..MaxUnicode
  <1>1. CASE Verbatim(p, kind)
    <2>1. p.char \in 0..MaxUnicode
      BY <1>1, AlphabetIs DEF Verbatim
    <2> QED
      BY <2>1
  <1>2. CASE Short(p)
    <2>1. PICK s \in ShortEscapes : p.char = s[2]
      BY <1>2 DEF Short
    <2>2. s[2] \in 0..255
      BY <2>1 DEF ShortEscapes, Quote, Backslash
    <2> QED
      BY <2>1, <2>2, MaxUnicodeFacts
  <1>3. CASE Unit(p)
    <2>1. p.char \in CodeUnits
      BY <1>3 DEF Unit
    <2>2. IsCodeUnit(p.char)
      BY <2>1, CodeUnitFacts DEF IsCodeUnit
    <2> QED
      BY <2>2, CodeUnitIsCharacter
  <1>4. CASE Meaningless(p, kind)
    <2>1. p.char = -1
      BY <1>4 DEF Meaningless
    <2>2. -1 < 0
      OBVIOUS
    <2> QED
      BY <2>1, <2>2
  <1> QED
    BY <1>1, <1>2, <1>3, <1>4 DEF IsPiece

LEMMA RightChars ==
    ASSUME IsString, NEW k \in 1..Count, ~Wrong(Pieces, k)
    PROVE  CharsFor(k) \in Seq(0..MaxUnicode) /\ Pieces[k].char \in 0..MaxUnicode
  <1> DEFINE C == 0..MaxUnicode
  <1>1. Pieces[k].char \in C
    BY PieceChar, PiecesAre DEF Wrong
  <1>2. CASE HighHalf(Pieces[k])
    <2>1. LowHalf(Pieces[k + 1])
      BY <1>2 DEF Wrong
    <2>2. Pair(Pieces[k].char, Pieces[k + 1].char) \in C
      BY <1>2, <2>1, PairIsCharacter DEF HighHalf, LowHalf
    <2>3. CharsFor(k) = <<Pair(Pieces[k].char, Pieces[k + 1].char)>>
      BY <1>2 DEF CharsFor
    <2> HIDE DEF C
    <2> QED
      BY <1>1, <2>2, <2>3 DEF C
  <1>3. CASE ~HighHalf(Pieces[k]) /\ LowHalf(Pieces[k])
    <2>1. CharsFor(k) = <<>>
      BY <1>3 DEF CharsFor
    <2> QED
      BY <1>1, <2>1, EmptySeq
  <1>4. CASE ~HighHalf(Pieces[k]) /\ ~LowHalf(Pieces[k])
    <2>1. CharsFor(k) = <<Pieces[k].char>>
      BY <1>4 DEF CharsFor
    <2> HIDE DEF C
    <2> QED
      BY <1>1, <2>1 DEF C
  <1> QED
    BY <1>2, <1>3, <1>4

LEMMA CharsTypes ==
    ASSUME IsString, NEW n \in 0..Count, \A i \in 1..n : ~Wrong(Pieces, i)
    PROVE  \A k \in 0..n : CharsTo(k) \in Seq(0..MaxUnicode)
  <1> DEFINE C == 0..MaxUnicode
             S == {k \in 0..n : CharsTo(k) \notin Seq(C)}
  <1> SUFFICES ASSUME S # {} PROVE FALSE
    OBVIOUS
  <1>1. PICK k \in S : \A i \in S : k <= i
    <2>1. S \in SUBSET Nat
      BY PiecesAre
    <2> HIDE DEF S
    <2> QED
      BY <2>1, LeastNumber
  <1>2. Count \in Nat /\ n \in Nat /\ k \in 0..n
    BY <1>1, PiecesAre
  <1>3. CASE k = 0
    BY <1>1, <1>3, CharsStart, EmptySeq
  <1>4. CASE k # 0
    <2>1. k \in 1..Count /\ k \in 1..n /\ k \in Nat /\ k - 1 \in 0..n /\ k - 1 \notin S
      BY <1>1, <1>2, <1>4
    <2>2. CharsTo(k - 1) \in Seq(C) /\ CharsFor(k) \in Seq(C)
      BY <2>1, RightChars
    <2> HIDE DEF C
    <2>3. CharsTo(k) = CharsTo(k - 1) \o CharsFor(k)
      BY <1>4, <2>1, <2>2, CharsMore
    <2>4. CharsTo(k) \in Seq(C)
      BY <2>2, <2>3, ConcatProperties
    <2> QED
      BY <1>1, <2>4
  <1> QED
    BY <1>3, <1>4

LEMMA GoodChars ==
    ASSUME IsString, NEW k, Good(k)
    PROVE  CharsTo(k) \in Seq(0..MaxUnicode)
  <1>1. k \in 0..Count /\ \A i \in 1..k : ~Wrong(Pieces, i)
    BY DEF Good
  <1>2. k \in 0..k
    BY <1>1, PiecesAre
  <1> QED
    BY <1>1, <1>2, CharsTypes

LEMMA GoodStart == IsString => Good(0) /\ Place(0) = 2 /\ CharsTo(0) = <<>>
  <1> SUFFICES ASSUME IsString PROVE Good(0) /\ Place(0) = 2 /\ CharsTo(0) = <<>>
    OBVIOUS
  <1>1. Good(0)
    BY PiecesAre DEF Good
  <1>2. Place(0) = 2
    BY WrittenStart, EmptySeq DEF Place
  <1> QED
    BY <1>1, <1>2, CharsStart

(* One piece more that is a character of its own. *)
LEMMA GoodMore ==
    ASSUME IsString, NEW k \in 0..Count, Good(k), k + 1 \in 1..Count,
           ~(Pieces[k + 1].char < 0),
           ~HighHalf(Pieces[k + 1]), ~LowHalf(Pieces[k + 1])
    PROVE  /\ Good(k + 1)
           /\ Pieces[k + 1].char \in 0..MaxUnicode
           /\ CharsTo(k + 1) = CharsTo(k) \o <<Pieces[k + 1].char>>
           /\ Place(k + 1) = Place(k) + Len(Pieces[k + 1].written)
  <1>1. k \in Nat /\ k + 1 # 0 /\ k + 1 \in Nat /\ (k + 1) - 1 = k /\ Count \in Nat
    BY PiecesAre
  <1>2. ~Wrong(Pieces, k + 1)
    BY DEF Wrong
  <1>3. Good(k + 1)
    <2>1. \A i \in 1..(k + 1) : i \in 1..k \/ i = k + 1
      BY <1>1
    <2> QED
      BY <1>1, <1>2, <2>1 DEF Good
  <1>4. CharsFor(k + 1) = <<Pieces[k + 1].char>> /\ CharsFor(k + 1) \in Seq(0..MaxUnicode)
        /\ Pieces[k + 1].char \in 0..MaxUnicode
    BY <1>2, RightChars DEF CharsFor
  <1>5. CharsTo(k + 1) = CharsTo(k + 1 - 1) \o CharsFor(k + 1)
    BY <1>1, <1>4, CharsMore
  <1>6. Place(k + 1) = Place(k + 1 - 1) + Len(Pieces[k + 1].written)
    BY PlaceMore
  <1> QED
    BY <1>1, <1>3, <1>4, <1>5, <1>6

(* A pair more. *)
LEMMA GoodPair ==
    ASSUME IsString, NEW k \in 0..Count, Good(k), k + 1 \in 1..Count, k + 2 \in 1..Count,
           HighHalf(Pieces[k + 1]), LowHalf(Pieces[k + 2])
    PROVE  /\ Good(k + 2)
           /\ CharsTo(k + 2) = CharsTo(k) \o <<Pair(Pieces[k + 1].char, Pieces[k + 2].char)>>
           /\ Place(k + 2) =
                 Place(k) + Len(Pieces[k + 1].written) + Len(Pieces[k + 2].written)
  <1> DEFINE C == 0..MaxUnicode
             pair == <<Pair(Pieces[k + 1].char, Pieces[k + 2].char)>>
  <1>1. /\ k \in Nat /\ Count \in Nat
        /\ k + 1 # 0 /\ k + 1 \in Nat /\ (k + 1) - 1 = k
        /\ k + 2 # 0 /\ k + 2 \in Nat /\ (k + 2) - 1 = k + 1 /\ k + 1 # Count
        /\ k + 2 # 1 /\ (k + 1) + 1 = k + 2
    BY PiecesAre
  <1>2. ~HighHalf(Pieces[k + 2]) /\ ~LowHalf(Pieces[k + 1])
    <2>1. ASSUME NEW n PROVE ~(IsHigh(n) /\ IsLow(n))
      BY Halves
    <2> QED
      BY <2>1 DEF HighHalf, LowHalf
  <1>3. /\ Pieces[k + 1].char \in Nat /\ ~(Pieces[k + 1].char < 0)
        /\ Pieces[k + 2].char \in Nat /\ ~(Pieces[k + 2].char < 0)
    <2>1. Pieces[k + 1].char \in Nat /\ Pieces[k + 2].char \in Nat
      BY Halves DEF HighHalf, LowHalf
    <2> QED
      BY <2>1
  <1>4. ~Wrong(Pieces, k + 1)
    <2>1. k + 1 # Len(Pieces)
      BY <1>1 DEF Count
    <2>2. LowHalf(Pieces[(k + 1) + 1])
      BY <1>1
    <2> QED
      BY <1>2, <1>3, <2>1, <2>2 DEF Wrong
  <1>5. ~Wrong(Pieces, k + 2)
    <2>1. HighHalf(Pieces[(k + 2) - 1])
      BY <1>1
    <2> QED
      BY <1>1, <1>2, <1>3, <2>1 DEF Wrong
  <1>6. Good(k + 2)
    <2>1. \A i \in 1..(k + 2) : i \in 1..k \/ i = k + 1 \/ i = k + 2
      BY <1>1
    <2>2. \A i \in 1..(k + 2) : ~Wrong(Pieces, i)
      BY <1>4, <1>5, <2>1 DEF Good
    <2>3. k + 2 \in 0..Count
      BY <1>1
    <2> QED
      BY <1>2, <2>2, <2>3 DEF Good
  <1>7. CharsFor(k + 1) = pair
    <2>1. CharsFor(k + 1) = <<Pair(Pieces[k + 1].char, Pieces[(k + 1) + 1].char)>>
      BY DEF CharsFor
    <2> QED
      BY <1>1, <2>1
  <1>8. CharsFor(k + 2) = <<>>
    BY <1>2 DEF CharsFor
  <1>9. CharsTo(k) \in Seq(C) /\ CharsFor(k + 1) \in Seq(C) /\ CharsFor(k + 2) \in Seq(C)
    BY <1>4, <1>5, GoodChars, RightChars
  <1>10. /\ Place(k + 1) = Place(k) + Len(Pieces[k + 1].written)
         /\ Place(k + 2) = Place(k + 1) + Len(Pieces[k + 2].written)
    <2>1. Place(k + 1) = Place((k + 1) - 1) + Len(Pieces[k + 1].written)
      BY PlaceMore
    <2>2. Place(k + 2) = Place((k + 2) - 1) + Len(Pieces[k + 2].written)
      BY PlaceMore
    <2> QED
      BY <1>1, <2>1, <2>2
  <1> HIDE DEF C, pair
  <1>11. CharsTo(k + 1) = CharsTo(k) \o pair /\ CharsTo(k + 1) \in Seq(C)
    <2>1. CharsTo(k + 1) = CharsTo((k + 1) - 1) \o CharsFor(k + 1)
      BY <1>1, <1>9, CharsMore
    <2>2. CharsTo(k + 1) = CharsTo(k) \o CharsFor(k + 1)
      BY <1>1, <2>1
    <2>3. CharsTo(k + 1) \in Seq(C)
      BY <1>9, <2>2, ConcatProperties
    <2> QED
      BY <1>7, <2>2, <2>3
  <1>12. CharsTo(k + 2) = CharsTo(k + 1) \o <<>>
    <2>1. CharsTo(k + 2) = CharsTo((k + 2) - 1) \o CharsFor(k + 2)
      BY <1>1, <1>9, CharsMore
    <2> QED
      BY <1>1, <1>8, <2>1
  <1>13. CharsTo(k + 2) = CharsTo(k) \o pair
    BY <1>11, <1>12, ConcatEmptySeq
  <1> QED
    BY <1>6, <1>10, <1>13 DEF pair

-----------------------------------------------------------------------------
(* The piece at the cursor. *)

LEMMA NextPiece ==
    ASSUME IsString, NEW h \in 0..Count, Place(h) < End, At(Place(h)) # Quote
    PROVE  LET p == Pieces[h + 1]
           IN  /\ h + 1 \in 1..Count /\ IsPiece(p, input.kind) /\ p.written \in Seq(0..MaxUnicode)
               /\ Len(p.written) \in Nat \ {0} /\ p.written[1] = At(Place(h))
               /\ Place(h + 1) = Place(h) + Len(p.written)
               /\ \A j \in 1..Len(p.written) :
                     Place(h) + j - 1 < End => At(Place(h) + j - 1) = p.written[j]
  <1> DEFINE p == Pieces[h + 1]
             C == 0..MaxUnicode
  <1>1. h # Count /\ Count \in Nat /\ h \in Nat
    BY PiecesAre, QuoteAtEnd
  <1>2. h + 1 \in 1..Count /\ (h + 1) - 1 = h
    BY <1>1
  <1>3. IsPiece(p, input.kind) /\ p.written \in Seq(C)
    BY <1>2, PiecesAre
  <1>4. \A j \in 1..Len(p.written) :
           Place((h + 1) - 1) + j - 1 < End => At(Place((h + 1) - 1) + j - 1) = p.written[j]
    BY <1>2, PieceText
  <1>5. Place(h + 1) = Place((h + 1) - 1) + Len(p.written) /\ Place((h + 1) - 1) \in Nat
    BY <1>2, PlaceMore
  <1> HIDE DEF p, C
  <1>6. Len(p.written) \in Nat \ {0}
    BY <1>3, PieceStarts
  <1>7. \A j \in 1..Len(p.written) :
           Place(h) + j - 1 < End => At(Place(h) + j - 1) = p.written[j]
    BY <1>2, <1>4
  <1>8. Place(h + 1) = Place(h) + Len(p.written) /\ Place(h) \in Nat
    BY <1>2, <1>5
  <1>9. p.written[1] = At(Place(h))
    <2>1. 1 \in 1..Len(p.written) /\ Place(h) + 1 - 1 = Place(h)
      BY <1>6, <1>8
    <2> QED
      BY <1>7, <2>1
  <1> QED
    BY <1>2, <1>3, <1>6, <1>7, <1>8, <1>9 DEF p, C

(* A character that stands for itself. *)
LEMMA VerbatimNext ==
    ASSUME IsString, NEW h \in 0..Count, Good(h), Place(h) < End,
           At(Place(h)) # Quote, At(Place(h)) # Backslash,
           input.kind = "bytes" => At(Place(h)) < 128
    PROVE  /\ h + 1 \in 0..Count /\ Good(h + 1) /\ Place(h + 1) = Place(h) + 1
           /\ CharsTo(h + 1) = CharsTo(h) \o <<At(Place(h))>>
  <1> DEFINE p == Pieces[h + 1]
             C == 0..MaxUnicode
  <1>1. /\ h + 1 \in 1..Count /\ IsPiece(p, input.kind) /\ p.written[1] = At(Place(h))
    BY NextPiece
  <1>2. Verbatim(p, input.kind) /\ p.written = <<p.char>>
    <2> HIDE DEF p
    <2> QED
      BY <1>1, PieceStarts
  <1>3. ~(p.char < 0)
    <2>1. p.char \in 0..MaxUnicode
      BY <1>2, AlphabetIs DEF Verbatim
    <2>2. MaxUnicode \in Nat
      BY MaxUnicodeFacts
    <2> HIDE DEF p
    <2> QED
      BY <2>1, <2>2
  <1>4. ~HighHalf(p) /\ ~LowHalf(p)
    BY <1>2 DEF Verbatim, HighHalf, LowHalf
  <1>5. /\ Good(h + 1)
        /\ CharsTo(h + 1) = CharsTo(h) \o <<p.char>>
        /\ Place(h + 1) = Place(h) + Len(p.written)
    BY <1>1, <1>3, <1>4, GoodMore
  <1>6. Len(p.written) = 1 /\ p.written[1] = p.char
    <2> HIDE DEF p
    <2> QED
      BY <1>2
  <1>7. h + 1 \in 0..Count
    BY <1>1
  <1> QED
    BY <1>1, <1>5, <1>6, <1>7

(* A slice: characters that stand for themselves, up to the first that does *)
(* not.                                                                     *)
LEMMA SliceReads ==
    ASSUME IsString, NEW k \in 0..Count, Good(k), NEW next \in Place(k)..End,
           \A j \in Place(k)..(next - 1) :
              /\ At(j) # Quote /\ At(j) # Backslash
              /\ input.kind = "bytes" => At(j) < 128
    PROVE  \E m \in 0..Count :
              /\ Good(m) /\ Place(m) = next
              /\ CharsTo(m) = CharsTo(k) \o SubSeq(Text, Place(k), next - 1)
  <1> DEFINE from == Place(k)
             C == 0..MaxUnicode
             Slice(n) == SubSeq(Text, from, from + n - 1)
             Reached(n) == /\ k + n \in 0..Count /\ Good(k + n)
                        /\ Place(k + n) = from + n
                        /\ CharsTo(k + n) = CharsTo(k) \o Slice(n)
             S == {n \in 0..(next - from) : ~Reached(n)}
  <1>1. /\ Count \in Nat /\ k \in Nat /\ k \in 0..Count /\ from \in Nat /\ from >= 2
        /\ End \in Nat /\ next \in Nat /\ from <= next /\ next <= End
        /\ \A j \in from..(next - 1) : /\ At(j) # Quote /\ At(j) # Backslash
                                       /\ input.kind = "bytes" => At(j) < 128
    BY PiecesAre, Places, TextFacts DEF IsString
  <1>2. /\ Text \in Seq(C) /\ Len(Text) \in Nat /\ End = Len(Text) + 1
        /\ \A j : At(j) \in C
        /\ input \in Inputs
    BY TextFacts DEF IsString, End
  <1>3. CharsTo(k) \in Seq(C)
    BY GoodChars
  <1> HIDE DEF from, C
  <1>4. next - from \in Nat
    BY <1>1
  <1>5. Reached(0)
    <2>1. k + 0 = k /\ from + 0 = from /\ from + 0 - 1 = from - 1
      BY <1>1
    <2>2. Slice(0) = <<>>
      BY <1>1, SMT
    <2>3. CharsTo(k) = CharsTo(k) \o <<>>
      BY <1>3, ConcatEmptySeq
    <2> HIDE DEF Slice
    <2> QED
      BY <1>1, <2>1, <2>2, <2>3 DEF from
  <1>6. ASSUME NEW a \in Nat, a < next - from, Reached(a) PROVE Reached(a + 1)
    <2> DEFINE h == k + a
               ch == At(from + a)
    <2>1. h \in 0..Count /\ Good(h) /\ Place(h) = from + a /\ CharsTo(h) = CharsTo(k) \o Slice(a)
      BY <1>6
    <2>2. /\ from + a \in from..(next - 1) /\ from + a < End /\ from + a \in 1..Len(Text)
          /\ k + (a + 1) = h + 1 /\ from + (a + 1) = from + a + 1
          /\ from + (a + 1) - 1 = from + a /\ from + a \in from..End /\ from \in 1..End
          /\ from + a \in from..Len(Text) /\ from \in 1..(Len(Text) + 1)
      BY <1>1, <1>2, <1>6
    <2>3. ch # Quote /\ ch # Backslash /\ (input.kind = "bytes" => ch < 128) /\ ch \in C
      BY <1>1, <1>2, <2>2
    <2>4. /\ h + 1 \in 0..Count /\ Good(h + 1) /\ Place(h + 1) = Place(h) + 1
          /\ CharsTo(h + 1) = CharsTo(h) \o <<ch>>
      <3> HIDE DEF h
      <3> QED
        BY <2>1, <2>2, <2>3, VerbatimNext
    <2>5. Slice(a + 1) = Slice(a) \o <<ch>> /\ Slice(a) \in Seq(C)
      <3>1. Slice(a) \in Seq(C)
        BY <1>2, <2>2, Stretch DEF C
      <3>2. Slice(a + 1) = SubSeq(Text, from, from + a)
        BY <2>2
      <3>3. SubSeq(Text, from, from + a) = Append(SubSeq(Text, from, from + a - 1), Text[from + a])
        BY <1>2, <2>2, LongerStretch
      <3>4. Text[from + a] = ch
        BY <2>2 DEF At
      <3>5. Slice(a + 1) = Append(Slice(a), ch)
        BY <3>2, <3>3, <3>4
      <3> HIDE DEF Slice, ch
      <3> QED
        BY <2>3, <3>1, <3>5, AppendIsConcat
    <2> HIDE DEF Slice, ch, h
    <2>6. CharsTo(h + 1) = CharsTo(k) \o Slice(a + 1)
      <3>1. <<ch>> \in Seq(C)
        BY <2>3
      <3>2. (CharsTo(k) \o Slice(a)) \o <<ch>> = CharsTo(k) \o (Slice(a) \o <<ch>>)
        BY ONLY <1>3, <2>5, <3>1, ConcatAssociative, SMTT(30)
      <3> QED
        BY <2>1, <2>4, <2>5, <3>2
    <2>7. Place(h + 1) = from + (a + 1)
      BY <2>1, <2>2, <2>4
    <2> QED
      BY <2>2, <2>4, <2>6, <2>7
  <1> HIDE DEF Reached
  <1>7. S = {}
    <2> SUFFICES ASSUME S # {} PROVE FALSE
      OBVIOUS
    <2>1. PICK n \in S : \A i \in S : n <= i
      <3>1. S \in SUBSET Nat
        BY <1>4
      <3> HIDE DEF S
      <3> QED
        BY <3>1, LeastNumber
    <2>2. n \in 0..(next - from) /\ ~Reached(n)
      BY <2>1
    <2>3. n # 0
      BY <1>5, <2>2
    <2>4. n - 1 \in Nat /\ n - 1 < next - from /\ n - 1 \in 0..(next - from) /\ ~(n <= n - 1)
          /\ (n - 1) + 1 = n
      BY <1>4, <2>2, <2>3
    <2>5. n - 1 \notin S
      BY <2>1, <2>4
    <2>6. Reached(n - 1)
      BY <2>4, <2>5
    <2>7. Reached((n - 1) + 1)
      BY <1>6, <2>4, <2>6
    <2> QED
      BY <2>2, <2>4, <2>7
  <1>8. Reached(next - from)
    <2>1. next - from \in 0..(next - from)
      BY <1>4
    <2> QED
      BY <1>7, <2>1
  <1>9. from + (next - from) = next /\ from + (next - from) - 1 = next - 1
    BY <1>1
  <1> DEFINE m == k + (next - from)
  <1>10. m \in 0..Count /\ Good(m) /\ Place(m) = next
         /\ CharsTo(m) = CharsTo(k) \o SubSeq(Text, from, next - 1)
    BY <1>8, <1>9 DEF Reached
  <1> HIDE DEF m
  <1> QED
    BY <1>10 DEF from

-----------------------------------------------------------------------------
(* Escape sequences. *)

LEMMA HexadecimalIsHex ==
    /\ \A ch, v : Hexadecimal(ch, v) => IsHex(ch) /\ Hex(ch) = v /\ v \in Nat
    /\ \A ch : IsHex(ch) => IsHexadecimal(ch)
    /\ ~IsHex(NUL)
  <1>1. ASSUME NEW ch, NEW v, Hexadecimal(ch, v)
        PROVE  IsHex(ch) /\ Hex(ch) = v /\ v \in Nat
    BY <1>1 DEF Hexadecimal, IsHex, Hex, Digits, Zero
  <1>2. ASSUME NEW ch, IsHex(ch) PROVE IsHexadecimal(ch)
    <2>1. CASE ch \in Digits
      <3>1. ch - 48 \in 0..15 /\ Hexadecimal(ch, ch - 48)
        BY <2>1 DEF Hexadecimal, Digits
      <3> QED
        BY <3>1 DEF IsHexadecimal
    <2>2. CASE ch \in 97..102
      <3>1. ch - 87 \in 0..15 /\ Hexadecimal(ch, ch - 87)
        BY <2>2 DEF Hexadecimal
      <3> QED
        BY <3>1 DEF IsHexadecimal
    <2>3. CASE ch \in 65..70
      <3>1. ch - 55 \in 0..15 /\ Hexadecimal(ch, ch - 55)
        BY <2>3 DEF Hexadecimal
      <3> QED
        BY <3>1 DEF IsHexadecimal
    <2> QED
      BY <1>2, <2>1, <2>2, <2>3 DEF IsHex
  <1>3. ~IsHex(NUL)
    BY DEF IsHex, NUL, Digits
  <1> QED
    BY <1>1, <1>2, <1>3

(* A \u escape is read if and only if it has four hexadecimal digits. *)
LEMMA FourDigits ==
    ASSUME NEW i
    PROVE  /\ UnicodeEscape(i).ok => \A k \in 1..4 : IsHex(At(i + k))
           /\ (\A k \in 1..4 : IsHex(At(i + k))) =>
                 UnicodeEscape(i) = Escaped(Hex(At(i + 1)) * 4096 + Hex(At(i + 2)) * 256
                                               + Hex(At(i + 3)) * 16 + Hex(At(i + 4)), i + 5)
  <1> DEFINE wrong == {k \in 1..4 : ~IsHex(At(i + k)) /\ \A l \in 1..(k - 1) : IsHex(At(i + l))}
             value == Hex(At(i + 1)) * 4096 + Hex(At(i + 2)) * 256
                         + Hex(At(i + 3)) * 16 + Hex(At(i + 4))
             at == i + CHOOSE k \in wrong : TRUE
  <1>1. UnicodeEscape(i) = IF wrong = {} THEN Escaped(value, i + 5)
                           ELSE BadEscape(IF At(at) = NUL THEN "end" ELSE "escape", at)
    BY DEF UnicodeEscape
  <1> HIDE DEF value, at
  <1>2. CASE \A k \in 1..4 : IsHex(At(i + k))
    <2>1. wrong = {}
      BY <1>2
    <2> QED
      BY <1>1, <1>2, <2>1 DEF value
  <1>3. CASE ~\A k \in 1..4 : IsHex(At(i + k))
    <2> DEFINE Bad == {k \in 1..4 : ~IsHex(At(i + k))}
    <2>1. PICK k \in Bad : \A l \in Bad : k <= l
      <3>1. Bad \in SUBSET Nat /\ Bad # {}
        BY <1>3
      <3> HIDE DEF Bad
      <3> QED
        BY <3>1, LeastNumber
    <2>2. \A l \in 1..(k - 1) : l \in 1..4 /\ ~(k <= l)
      BY <2>1
    <2>3. k \in wrong
      BY <2>1, <2>2
    <2>4. wrong # {}
      BY <2>3
    <2> HIDE DEF wrong
    <2> QED
      BY <1>1, <1>3, <2>4 DEF BadEscape
  <1> QED
    BY <1>2, <1>3

LEMMA FourNibbles ==
    ASSUME NEW c \in Nat
    PROVE  (c \div 4096) * 4096 + ((c \div 256) % 16) * 256 + ((c \div 16) % 16) * 16 + (c % 16) = c
  <1>1. c = 16 * (c \div 16) + (c % 16) /\ c \div 16 \in Nat
    OBVIOUS
  <1>2. c \div 16 = 16 * (c \div 256) + ((c \div 16) % 16) /\ c \div 256 \in Nat
    OBVIOUS
  <1>3. c \div 256 = 16 * (c \div 4096) + ((c \div 256) % 16) /\ c \div 4096 \in Nat
    OBVIOUS
  <1>4. (c \div 256) % 16 \in Nat /\ (c \div 16) % 16 \in Nat /\ c % 16 \in Nat
    BY <1>1, <1>2, <1>3
  <1> DEFINE a == c \div 16
             b == c \div 256
             d == c \div 4096
             x == c % 16
             y == (c \div 16) % 16
             z == (c \div 256) % 16
  <1> HIDE DEF a, b, d, x, y, z
  <1>5. /\ a \in Nat /\ b \in Nat /\ d \in Nat /\ x \in Nat /\ y \in Nat /\ z \in Nat
        /\ c = 16 * a + x /\ a = 16 * b + y /\ b = 16 * d + z
    BY <1>1, <1>2, <1>3, <1>4 DEF a, b, d, x, y, z
  <1>6. d * 4096 + z * 256 + y * 16 + x = c
    BY <1>5
  <1> QED
    BY <1>6 DEF d, x, y, z

(* A piece of six characters \uXXXX. *)
LEMMA UnitReads ==
    ASSUME IsString, NEW h \in 0..Count, h + 1 \in 1..Count, Unit(Pieces[h + 1])
    PROVE  LET i == Place(h)
               p == Pieces[h + 1]
           IN  /\ i \in Nat /\ Place(h + 1) = i + 6 /\ End \in Nat
               /\ i + 5 < End => /\ At(i) = Backslash /\ At(i + 1) = LowerU
                                 /\ UnicodeEscape(i + 1) = Escaped(p.char, i + 6)
               /\ ~(i + 5 < End) => ~UnicodeEscape(i + 1).ok
  <1> DEFINE i == Place(h)
             p == Pieces[h + 1]
             w == p.written
             c == p.char
  <1>1. /\ Len(w) = 6 /\ w[1] = Backslash /\ w[2] = LowerU /\ c \in CodeUnits
        /\ Hexadecimal(w[3], c \div 4096) /\ Hexadecimal(w[4], (c \div 256) % 16)
        /\ Hexadecimal(w[5], (c \div 16) % 16) /\ Hexadecimal(w[6], c % 16)
    BY DEF Unit
  <1>2. h \in Nat /\ (h + 1) - 1 = h /\ Count \in Nat
    BY PiecesAre
  <1>3. i \in Nat /\ Place(h + 1) = i + 6 /\ End \in Nat /\ End = Len(Text) + 1 /\ Len(Text) \in Nat
    <2>1. Place(h + 1) = Place((h + 1) - 1) + Len(w) /\ Place((h + 1) - 1) \in Nat
      BY PlaceMore
    <2> QED
      BY <1>1, <1>2, <2>1, TextFacts DEF IsString, End
  <1>4. \A j \in 1..Len(w) : i + j - 1 < End => At(i + j - 1) = w[j]
    <2>1. \A j \in 1..Len(w) :
             Place((h + 1) - 1) + j - 1 < End => At(Place((h + 1) - 1) + j - 1) = w[j]
      BY PieceText
    <2> QED
      BY <1>2, <2>1
  <1>5. c \in Nat
    BY <1>1, CodeUnitFacts
  <1> HIDE DEF i, w, c
  <1>6. ASSUME i + 5 < End
        PROVE  /\ At(i) = Backslash /\ At(i + 1) = LowerU
               /\ UnicodeEscape(i + 1) = Escaped(c, i + 6)
    <2>1. /\ At(i) = w[1] /\ At(i + 1) = w[2] /\ At(i + 2) = w[3]
          /\ At(i + 3) = w[4] /\ At(i + 4) = w[5] /\ At(i + 5) = w[6]
      <3>1. \A j \in 1..6 : At(i + j - 1) = w[j]
        <4> SUFFICES ASSUME NEW j \in 1..6 PROVE At(i + j - 1) = w[j]
          OBVIOUS
        <4>1. i + j - 1 < End /\ j \in 1..Len(w)
          BY <1>1, <1>3, <1>6
        <4> QED
          BY <1>4, <4>1
      <3>2. /\ i + 1 - 1 = i /\ i + 2 - 1 = i + 1 /\ i + 3 - 1 = i + 2
            /\ i + 4 - 1 = i + 3 /\ i + 5 - 1 = i + 4 /\ i + 6 - 1 = i + 5
        BY <1>3
      <3>3. 1 \in 1..6 /\ 2 \in 1..6 /\ 3 \in 1..6 /\ 4 \in 1..6 /\ 5 \in 1..6 /\ 6 \in 1..6
        OBVIOUS
      <3> QED
        BY <3>1, <3>2, <3>3
    <2>2. /\ (i + 1) + 1 = i + 2 /\ (i + 1) + 2 = i + 3 /\ (i + 1) + 3 = i + 4
          /\ (i + 1) + 4 = i + 5 /\ (i + 1) + 5 = i + 6
      BY <1>3
    <2>3. /\ IsHex(At(i + 2)) /\ Hex(At(i + 2)) = c \div 4096
          /\ IsHex(At(i + 3)) /\ Hex(At(i + 3)) = (c \div 256) % 16
          /\ IsHex(At(i + 4)) /\ Hex(At(i + 4)) = (c \div 16) % 16
          /\ IsHex(At(i + 5)) /\ Hex(At(i + 5)) = c % 16
      BY <1>1, <2>1, HexadecimalIsHex
    <2>4. \A k \in 1..4 : IsHex(At((i + 1) + k))
      <3>1. \A k \in 1..4 : k = 1 \/ k = 2 \/ k = 3 \/ k = 4
        OBVIOUS
      <3> QED
        BY <2>2, <2>3, <3>1
    <2>5. UnicodeEscape(i + 1) =
             Escaped(Hex(At((i + 1) + 1)) * 4096 + Hex(At((i + 1) + 2)) * 256
                        + Hex(At((i + 1) + 3)) * 16 + Hex(At((i + 1) + 4)), (i + 1) + 5)
      BY <2>4, FourDigits
    <2>6. UnicodeEscape(i + 1) =
             Escaped((c \div 4096) * 4096 + ((c \div 256) % 16) * 256
                        + ((c \div 16) % 16) * 16 + (c % 16), i + 6)
      BY ONLY <2>2, <2>3, <2>5
    <2>7. (c \div 4096) * 4096 + ((c \div 256) % 16) * 256 + ((c \div 16) % 16) * 16 + (c % 16) = c
      BY <1>5, FourNibbles
    <2> QED
      BY <1>1, <2>1, <2>6, <2>7
  <1>7. ASSUME ~(i + 5 < End) PROVE ~UnicodeEscape(i + 1).ok
    <2>1. ~((i + 1) + 4 \in 1..Len(Text))
      BY <1>3, <1>7
    <2>2. ~IsHex(At((i + 1) + 4)) /\ 4 \in 1..4
      BY <2>1, HexadecimalIsHex DEF At
    <2> QED
      BY <2>2, FourDigits
  <1> QED
    BY <1>3, <1>6, <1>7 DEF i, c

LEMMA SimpleKnown ==
    /\ \A ch : ch \in DOMAIN Simple <=> \E s \in ShortEscapes : ch = s[1]
    /\ \A s \in ShortEscapes : s[1] \in DOMAIN Simple /\ Simple[s[1]] = s[2]
    /\ NUL \notin DOMAIN Simple /\ LowerU \notin DOMAIN Simple /\ LowerU # NUL
  <1>1. DOMAIN Simple = {98, 102, 110, 114, 116, Quote, Backslash, 47}
    BY DEF Simple
  <1>2. \A s \in ShortEscapes : s[1] \in DOMAIN Simple /\ Simple[s[1]] = s[2]
    BY DEF Simple, ShortEscapes, Quote, Backslash
  <1>3. \A ch \in DOMAIN Simple : \E s \in ShortEscapes : ch = s[1]
    <2> SUFFICES ASSUME NEW ch \in DOMAIN Simple PROVE \E s \in ShortEscapes : ch = s[1]
      OBVIOUS
    <2>1. <<ch, Simple[ch]>> \in ShortEscapes
      BY <1>1 DEF Simple, ShortEscapes, Quote, Backslash
    <2>2. ch = <<ch, Simple[ch]>>[1]
      OBVIOUS
    <2> QED
      BY <2>1, <2>2
  <1>4. NUL \notin DOMAIN Simple /\ LowerU \notin DOMAIN Simple /\ LowerU # NUL
    BY <1>1 DEF NUL, LowerU, Quote, Backslash
  <1> QED
    BY <1>2, <1>3, <1>4

(* An escape sequence that means nothing is not taken for one that does. *)
LEMMA WrongReads ==
    ASSUME IsString, NEW h \in 0..Count, Place(h) < End, At(Place(h)) = Backslash,
           WrongEscape(Pieces[h + 1].written)
    PROVE  LET i == Place(h)
           IN  /\ At(i + 1) \notin DOMAIN Simple
               /\ At(i + 1) = LowerU => ~UnicodeEscape(i + 1).ok
  <1> DEFINE i == Place(h)
             w == Pieces[h + 1].written
  <1>1. /\ Len(w) \in Nat
        /\ \A j \in 1..Len(w) : i + j - 1 < End => At(i + j - 1) = w[j]
    <2>1. At(i) # Quote
      BY DEF Quote, Backslash
    <2> QED
      BY <2>1, NextPiece
  <1>2. i \in Nat /\ End = Len(Text) + 1 /\ Len(Text) \in Nat
    BY Places, TextFacts DEF IsString, End
  <1>3. Len(w) > 1
    BY DEF WrongEscape
  <1>4. \/ w[2] # LowerU /\ \A s \in ShortEscapes : w[2] # s[1]
        \/ w[2] = LowerU /\ Len(w) \in 3..6 /\ ~IsHexadecimal(w[Len(w)])
    BY DEF WrongEscape
  <1> HIDE DEF i, w
  <1>5. At(i + 1) = w[2] \/ At(i + 1) = NUL
    <2>1. 2 \in 1..Len(w) /\ i + 2 - 1 = i + 1
      BY <1>1, <1>2, <1>3
    <2>2. CASE i + 1 < End
      BY <1>1, <2>1, <2>2
    <2>3. CASE ~(i + 1 < End)
      BY <1>2, <2>3 DEF At
    <2> QED
      BY <2>2, <2>3
  <1>6. CASE w[2] # LowerU /\ \A s \in ShortEscapes : w[2] # s[1]
    BY <1>5, <1>6, SimpleKnown DEF i
  <1>7. CASE w[2] = LowerU /\ Len(w) \in 3..6 /\ ~IsHexadecimal(w[Len(w)])
    <2>1. At(i + 1) \notin DOMAIN Simple
      BY <1>5, <1>7, SimpleKnown
    <2> DEFINE k == Len(w) - 2
    <2>2. /\ k \in 1..4 /\ Len(w) \in 1..Len(w)
          /\ i + Len(w) - 1 = (i + 1) + k /\ (i + 1) + k \in Nat
      BY <1>1, <1>2, <1>7
    <2> HIDE DEF k
    <2>3. ~IsHex(At((i + 1) + k))
      <3>1. CASE (i + 1) + k < End
        <4>1. At((i + 1) + k) = w[Len(w)]
          BY <1>1, <2>2, <3>1
        <4> QED
          BY <1>7, <4>1, HexadecimalIsHex
      <3>2. CASE ~((i + 1) + k < End)
        <4>1. At((i + 1) + k) = NUL
          BY <1>2, <2>2, <3>2 DEF At
        <4> QED
          BY <4>1, HexadecimalIsHex
      <3> QED
        BY <3>1, <3>2
    <2>4. ~UnicodeEscape(i + 1).ok
      BY <2>2, <2>3, FourDigits
    <2> QED
      BY <2>1, <2>4 DEF i
  <1> QED
    BY <1>4, <1>6, <1>7 DEF i

(* What is read behind the first k pieces is what the next pieces stand     *)
(* for, and in an acceptable text it is not refused.                        *)
ReadsOn(k, read) ==
    /\ read.ok => \E m \in 0..Count : /\ Good(m) /\ Place(m) = read.next
                                      /\ CharsTo(m) = CharsTo(k) \o <<read.char>>
    /\ Acceptable => read.ok

LEMMA ReadsOne ==
    ASSUME NEW k, NEW read, NEW m \in 0..Count, read.ok, Good(m), Place(m) = read.next,
           CharsTo(m) = CharsTo(k) \o <<read.char>>
    PROVE  ReadsOn(k, read)
  BY DEF ReadsOn

LEMMA ReadsNone ==
    ASSUME NEW k, NEW read, ~read.ok, ~Acceptable
    PROVE  ReadsOn(k, read)
  BY DEF ReadsOn

(* An acceptable text has the pieces one by one, and its quote. *)
LEMMA AcceptableMore ==
    ASSUME IsString, NEW h, h \in 1..Count, Acceptable
    PROVE  Place(h) < End /\ ~Wrong(Pieces, h)
  <1>1. Count \in Nat /\ h \in 0..Count
    BY PiecesAre
  <1>2. Place(h) \in Nat /\ Place(h) <= Place(Count) /\ Place(Count) < End /\ ~Wrong(Pieces, h)
    BY <1>1, Places
  <1>3. Place(Count) \in Nat /\ End \in Nat
    BY QuotedIs, TextFacts DEF IsString
  <1> QED
    BY <1>2, <1>3

LEMMA ShortReads ==
    ASSUME IsString, NEW h \in 0..Count, Good(h), Place(h) < End, At(Place(h)) = Backslash,
           Short(Pieces[h + 1])
    PROVE  ReadsOn(h, EscapeAt(Place(h)))
  <1> DEFINE i == Place(h)
             p == Pieces[h + 1]
  <1>1. PICK s \in ShortEscapes : p.written = <<Backslash, s[1]>> /\ p.char = s[2]
    BY DEF Short
  <1>2. /\ h + 1 \in 1..Count /\ Place(h + 1) = i + Len(p.written)
        /\ \A j \in 1..Len(p.written) : i + j - 1 < End => At(i + j - 1) = p.written[j]
    <2>1. At(i) # Quote
      BY DEF Quote, Backslash
    <2> QED
      BY <2>1, NextPiece
  <1>3. Len(p.written) = 2 /\ p.written[2] = s[1]
    BY <1>1
  <1>4. ~(p.char < 0) /\ ~HighHalf(p) /\ ~LowHalf(p)
    <2>1. ~p.unit
      BY DEF Short
    <2>2. ~(s[2] < 0)
      BY <1>1 DEF ShortEscapes, Quote, Backslash
    <2> QED
      BY <1>1, <2>1, <2>2 DEF HighHalf, LowHalf
  <1>5. i \in Nat /\ End = Len(Text) + 1 /\ Len(Text) \in Nat
    BY Places, TextFacts DEF IsString, End
  <1> HIDE DEF i
  <1>6. CASE i + 1 < End
    <2>1. At(i + 1) = s[1]
      <3>1. 2 \in 1..Len(p.written) /\ i + 2 - 1 = i + 1
        BY <1>3, <1>5
      <3> QED
        BY <1>2, <1>3, <1>6, <3>1
    <2>2. EscapeAt(i) = Escaped(p.char, i + 2)
      <3>1. s[1] \in DOMAIN Simple /\ Simple[s[1]] = s[2]
        BY <1>1, SimpleKnown
      <3> HIDE DEF p
      <3>2. EscapeAt(i) = Escaped(Simple[At(i + 1)], i + 2)
        <4>1. At(i + 1) \in DOMAIN Simple /\ At(i + 1) # LowerU
          BY <2>1, <3>1, SimpleKnown
        <4> QED
          BY ONLY <4>1, SMT DEF EscapeAt
      <3> QED
        BY <1>1, <2>1, <3>1, <3>2
    <2>3. /\ Good(h + 1) /\ h + 1 \in 0..Count
          /\ CharsTo(h + 1) = CharsTo(h) \o <<p.char>>
          /\ Place(h + 1) = i + 2
      BY <1>2, <1>3, <1>4, GoodMore
    <2> HIDE DEF p
    <2>4. EscapeAt(i).ok /\ EscapeAt(i).char = p.char /\ EscapeAt(i).next = i + 2
      BY <2>2 DEF Escaped
    <2> QED
      BY <2>3, <2>4, ReadsOne DEF i
  <1>7. CASE ~(i + 1 < End)
    <2>1. At(i + 1) = NUL
      BY <1>5, <1>7 DEF At
    <2>2. ~EscapeAt(i).ok
      <3>1. NUL \notin DOMAIN Simple /\ NUL # LowerU
        BY SimpleKnown
      <3> QED
        BY <2>1, <3>1 DEF EscapeAt, BadEscape
    <2>3. ~Acceptable
      <3> SUFFICES ASSUME Acceptable PROVE FALSE
        OBVIOUS
      <3>1. Place(h + 1) < End
        BY <1>2, AcceptableMore
      <3> QED
        BY <1>2, <1>3, <1>5, <1>7, <3>1
    <2> QED
      BY <2>2, <2>3, ReadsNone DEF i
  <1> QED
    BY <1>6, <1>7

LEMMA WrongRefused ==
    ASSUME IsString, NEW h \in 0..Count, Place(h) < End, At(Place(h)) = Backslash,
           Meaningless(Pieces[h + 1], input.kind), WrongEscape(Pieces[h + 1].written)
    PROVE  ReadsOn(h, EscapeAt(Place(h)))
  <1>1. ~EscapeAt(Place(h)).ok
    BY WrongReads DEF EscapeAt, Single, BadEscape
  <1>2. ~Acceptable
    <2> SUFFICES ASSUME Acceptable PROVE FALSE
      OBVIOUS
    <2>1. h + 1 \in 1..Count
      <3>1. At(Place(h)) # Quote
        BY DEF Quote, Backslash
      <3> QED
        BY <3>1, NextPiece
    <2>2. ~Wrong(Pieces, h + 1)
      BY <2>1, AcceptableMore
    <2>3. Pieces[h + 1].char = -1 /\ -1 < 0
      BY DEF Meaningless
    <2> QED
      BY <2>2, <2>3 DEF Wrong
  <1> QED
    BY <1>1, <1>2, ReadsNone

(* The cases of an escape sequence \uXXXX. *)
LEMMA UnitEscape ==
    ASSUME NEW i \in Nat, At(i + 1) = LowerU
    PROVE  LET first == UnicodeEscape(i + 1)
               second == UnicodeEscape(i + 7)
               whole == /\ At(i + 6) = Backslash /\ At(i + 7) = LowerU
                        /\ second.ok /\ IsLow(second.char)
           IN  /\ ~first.ok => ~EscapeAt(i).ok
               /\ first.ok /\ IsLow(first.char) => ~EscapeAt(i).ok
               /\ first.ok /\ ~IsHigh(first.char) /\ ~IsLow(first.char) => EscapeAt(i) = first
               /\ first.ok /\ IsHigh(first.char) /\ whole =>
                     EscapeAt(i) = Escaped(Pair(first.char, second.char), i + 12)
               /\ first.ok /\ IsHigh(first.char) /\ ~whole => ~EscapeAt(i).ok
  <1> DEFINE first == UnicodeEscape(i + 1)
             second == UnicodeEscape(i + 7)
             whole == /\ At(i + 6) = Backslash /\ At(i + 7) = LowerU
                      /\ second.ok /\ IsLow(second.char)
             half == SecondHalf(first.char, i + 6)
  <1>1. At(i + 1) \notin DOMAIN Simple
    BY SimpleKnown
  <1>2. ~(IsHigh(first.char) /\ IsLow(first.char))
    BY Halves
  <1>3. ~first.ok \/ ~IsHigh(first.char) => EscapeAt(i) = Single(first)
    BY <1>1 DEF EscapeAt
  <1>4. first.ok /\ IsHigh(first.char) => EscapeAt(i) = half
    BY <1>1 DEF EscapeAt
  <1> HIDE DEF first
  <1>5. ~first.ok => ~EscapeAt(i).ok
    BY <1>3 DEF Single
  <1>6. first.ok /\ IsLow(first.char) => ~EscapeAt(i).ok
    BY <1>2, <1>3 DEF Single, BadEscape
  <1>7. first.ok /\ ~IsHigh(first.char) /\ ~IsLow(first.char) => EscapeAt(i) = first
    BY <1>3 DEF Single
  <1>8. (i + 6) + 1 = i + 7 /\ (i + 6) + 6 = i + 12
    OBVIOUS
  <1>9. whole => half = Escaped(Pair(first.char, second.char), i + 12)
    BY <1>8 DEF SecondHalf
  <1>10. ~whole => ~half.ok
    <2> SUFFICES ASSUME ~whole PROVE ~half.ok
      OBVIOUS
    <2>1. CASE At(i + 6) # Backslash
      BY <2>1 DEF SecondHalf, BadEscape
    <2>2. CASE At(i + 6) = Backslash /\ At(i + 7) # LowerU
      BY <1>8, <2>2 DEF SecondHalf, BadEscape
    <2>3. CASE At(i + 6) = Backslash /\ At(i + 7) = LowerU /\ ~second.ok
      BY <1>8, <2>3 DEF SecondHalf
    <2>4. CASE At(i + 6) = Backslash /\ At(i + 7) = LowerU /\ second.ok /\ ~IsLow(second.char)
      <3>1. half = BadEscape("high", (i + 6) + 5)
        BY <1>8, <2>4 DEF SecondHalf
      <3> QED
        BY <3>1 DEF BadEscape
    <2> QED
      BY <2>1, <2>2, <2>3, <2>4
  <1> HIDE DEF half
  <1> QED
    BY <1>4, <1>5, <1>6, <1>7, <1>9, <1>10 DEF first

(* A unit behind the first half of a pair is the second half if it is read  *)
(* as such.                                                                 *)
LEMMA SecondUnit ==
    ASSUME IsString, NEW h \in 0..Count,
           At(Place(h)) = Backslash, At(Place(h) + 1) = LowerU, UnicodeEscape(Place(h) + 1).ok
    PROVE  /\ h + 1 \in 1..Count /\ Unit(Pieces[h + 1])
           /\ UnicodeEscape(Place(h) + 1) = Escaped(Pieces[h + 1].char, Place(h) + 6)
  <1> DEFINE i == Place(h)
             p == Pieces[h + 1]
  <1>1. i < End /\ i + 1 < End /\ i \in Nat
    <2>1. Backslash # NUL /\ LowerU # NUL
      BY DEF Backslash, LowerU, NUL
    <2>2. i \in Nat /\ End \in Nat /\ \A j : At(j) # NUL => j \in Nat /\ 1 <= j /\ j < End
      BY Places, Positions DEF IsString
    <2> HIDE DEF i
    <2> QED
      BY <2>1, <2>2 DEF i
  <1>2. At(i) # Quote
    BY DEF Quote, Backslash
  <1>3. /\ h + 1 \in 1..Count /\ IsPiece(p, input.kind) /\ p.written[1] = At(i)
        /\ Len(p.written) \in Nat
        /\ \A j \in 1..Len(p.written) : i + j - 1 < End => At(i + j - 1) = p.written[j]
    BY <1>1, <1>2, NextPiece
  <1>4. Short(p) \/ Unit(p) \/ (Meaningless(p, input.kind) /\ WrongEscape(p.written))
    <2> HIDE DEF p
    <2> QED
      BY <1>3, PieceStarts
  <1>5. ~WrongEscape(p.written)
    BY <1>1, WrongReads
  <1>6. ~Short(p)
    <2> SUFFICES ASSUME Short(p) PROVE FALSE
      OBVIOUS
    <2>1. PICK s \in ShortEscapes : p.written = <<Backslash, s[1]>>
      BY DEF Short
    <2>2. Len(p.written) = 2 /\ p.written[2] = s[1]
      BY <2>1
    <2>3. At(i + 1) = s[1]
      <3>1. 2 \in 1..Len(p.written) /\ i + 2 - 1 = i + 1
        BY <1>1, <2>2
      <3> HIDE DEF p, i
      <3> QED
        BY <1>1, <1>3, <2>2, <3>1
    <2> QED
      BY <2>1, <2>3, SimpleKnown
  <1>7. Unit(p)
    BY <1>4, <1>5, <1>6
  <1>8. UnicodeEscape(i + 1) = Escaped(p.char, i + 6)
    BY <1>3, <1>7, UnitReads
  <1> QED
    BY <1>3, <1>7, <1>8

LEMMA UnitUnderstood ==
    ASSUME IsString, NEW h \in 0..Count, Good(h), h + 1 \in 1..Count,
           At(Place(h)) = Backslash, Unit(Pieces[h + 1])
    PROVE  ReadsOn(h, EscapeAt(Place(h)))
  <1> DEFINE i == Place(h)
             p == Pieces[h + 1]
             q == Pieces[h + 2]
             esc == EscapeAt(i)
  <1>1. /\ i \in Nat /\ Place(h + 1) = i + 6 /\ End \in Nat
        /\ i + 5 < End => At(i + 1) = LowerU /\ UnicodeEscape(i + 1) = Escaped(p.char, i + 6)
        /\ ~(i + 5 < End) => ~UnicodeEscape(i + 1).ok
    BY UnitReads
  <1>2. p.unit /\ ~(p.char < 0)
    <2>1. p.char \in CodeUnits
      BY DEF Unit
    <2>2. ~(p.char < 0)
      BY ONLY <2>1, CodeUnitFacts
    <2> QED
      BY <2>2 DEF Unit
  <1>3. h \in Nat /\ Count \in Nat /\ (h + 1) - 1 = h /\ (h + 1) + 1 = h + 2 /\ h + 1 \in 0..Count
    BY PiecesAre
  <1>4. Acceptable => i + 5 < End /\ ~Wrong(Pieces, h + 1)
    <2>1. Acceptable => Place(h + 1) < End /\ ~Wrong(Pieces, h + 1)
      BY AcceptableMore
    <2> QED
      BY <1>1, <2>1
  <1>5. CASE ~(i + 5 < End)
    <2>1. ~esc.ok
      <3>1. CASE At(i + 1) = LowerU
        BY <1>1, <1>5, <3>1, UnitEscape
      <3>2. CASE At(i + 1) # LowerU /\ At(i + 1) \notin DOMAIN Simple
        BY <3>2 DEF EscapeAt, BadEscape
      <3>3. CASE At(i + 1) # LowerU /\ At(i + 1) \in DOMAIN Simple
        <4>1. i + 1 < End
          <5>1. At(i + 1) # NUL
            BY <3>3, SimpleKnown
          <5> QED
            BY <5>1, Positions DEF IsString
        <4>2. Len(p.written) = 6 /\ p.written[2] = LowerU
          BY DEF Unit
        <4>3. \A j \in 1..Len(p.written) :
                 Place((h + 1) - 1) + j - 1 < End => At(Place((h + 1) - 1) + j - 1) = p.written[j]
          BY PieceText
        <4>4. 2 \in 1..Len(p.written) /\ Place((h + 1) - 1) + 2 - 1 = i + 1
          BY <1>1, <1>3, <4>2
        <4>5. At(i + 1) = LowerU
          BY <4>1, <4>2, <4>3, <4>4
        <4> QED
          BY <3>3, <4>5
      <3> QED
        BY <3>1, <3>2, <3>3
    <2>2. ~Acceptable
      BY <1>4, <1>5
    <2> QED
      BY <2>1, <2>2, ReadsNone
  <1>6. CASE i + 5 < End /\ LowHalf(p)
    <2>1. ~esc.ok
      <3>1. IsLow(p.char)
        BY <1>6 DEF LowHalf
      <3>2. UnicodeEscape(i + 1).ok /\ UnicodeEscape(i + 1).char = p.char
        BY <1>1, <1>6 DEF Escaped
      <3> QED
        BY <1>1, <1>6, <3>1, <3>2, UnitEscape
    <2>2. ~Acceptable
      <3>1. Wrong(Pieces, h + 1)
        <4>1. h + 1 = 1 \/ ~HighHalf(Pieces[(h + 1) - 1])
          BY <1>3 DEF Good
        <4> QED
          BY <1>6, <4>1 DEF Wrong
      <3> QED
        BY <1>4, <3>1
    <2> QED
      BY <2>1, <2>2, ReadsNone
  <1>7. CASE i + 5 < End /\ ~LowHalf(p) /\ ~HighHalf(p)
    <2>1. ~IsHigh(p.char) /\ ~IsLow(p.char)
      BY <1>2, <1>7 DEF HighHalf, LowHalf
    <2>2. esc = Escaped(p.char, i + 6)
      <3>1. UnicodeEscape(i + 1).ok /\ UnicodeEscape(i + 1).char = p.char
        BY <1>1, <1>7 DEF Escaped
      <3> QED
        BY <1>1, <1>7, <2>1, <3>1, UnitEscape
    <2>3. Good(h + 1) /\ CharsTo(h + 1) = CharsTo(h) \o <<p.char>>
      BY <1>2, <1>7, GoodMore
    <2> HIDE DEF p, esc, i
    <2>4. esc.ok /\ esc.char = p.char /\ esc.next = i + 6
      BY <2>2 DEF Escaped
    <2> QED
      BY <1>1, <1>3, <2>3, <2>4, ReadsOne DEF esc, i
  <1>8. CASE i + 5 < End /\ HighHalf(p)
    <2> DEFINE first == UnicodeEscape(i + 1)
               second == UnicodeEscape(i + 7)
               whole == /\ At(i + 6) = Backslash /\ At(i + 7) = LowerU
                        /\ second.ok /\ IsLow(second.char)
    <2>1. first.ok /\ first.char = p.char /\ IsHigh(first.char)
      BY <1>1, <1>8 DEF Escaped, HighHalf
    <2>2. /\ whole => esc = Escaped(Pair(p.char, second.char), i + 12)
          /\ ~whole => ~esc.ok
      BY <1>1, <1>8, <2>1, UnitEscape
    <2>3. (i + 6) + 1 = i + 7 /\ (i + 6) + 6 = i + 12 /\ i + 6 \in Nat
      BY <1>1
    <2>4. CASE whole
      <3>1. At(i + 6) = Backslash /\ At((i + 6) + 1) = LowerU /\ second.ok
        BY <2>3, <2>4
      <3>2. /\ h + 2 \in 1..Count /\ Unit(q)
            /\ second = Escaped(q.char, i + 12)
        <4>1. /\ (h + 1) + 1 \in 1..Count /\ Unit(Pieces[(h + 1) + 1])
              /\ UnicodeEscape(Place(h + 1) + 1) =
                    Escaped(Pieces[(h + 1) + 1].char, Place(h + 1) + 6)
          BY <1>1, <1>3, <2>3, <3>1, SecondUnit
        <4> QED
          BY <1>1, <1>3, <2>3, <4>1
      <3>3. second.char = q.char /\ LowHalf(q) /\ Len(q.written) = 6
        <4>1. second.char = q.char
          BY <3>2 DEF Escaped
        <4>2. q.unit /\ Len(q.written) = 6
          BY <3>2 DEF Unit
        <4> QED
          BY <2>4, <4>1, <4>2 DEF LowHalf
      <3>4. Len(p.written) = 6
        BY DEF Unit
      <3>5. /\ Good(h + 2) /\ CharsTo(h + 2) = CharsTo(h) \o <<Pair(p.char, q.char)>>
            /\ Place(h + 2) = i + Len(p.written) + Len(q.written)
        BY <1>8, <3>2, <3>3, GoodPair
      <3>6. Place(h + 2) = i + 12 /\ h + 2 \in 0..Count
        BY <1>1, <3>2, <3>3, <3>4, <3>5
      <3>7. esc = Escaped(Pair(p.char, q.char), i + 12)
        BY <2>2, <2>4, <3>3
      <3> HIDE DEF p, q, esc
      <3>8. esc.ok /\ esc.char = Pair(p.char, q.char) /\ esc.next = i + 12
        BY <3>7 DEF Escaped
      <3> QED
        BY <3>5, <3>6, <3>8, ReadsOne DEF esc
    <2>5. CASE ~whole
      <3>1. ~esc.ok
        BY <2>2, <2>5
      <3>2. ~Acceptable
        <4> SUFFICES ASSUME Acceptable PROVE FALSE
          OBVIOUS
        <4>1. h + 1 # Count /\ LowHalf(Pieces[(h + 1) + 1])
          BY <1>4, <1>8 DEF Wrong, Count
        <4>2. (h + 1) + 1 \in 1..Count /\ h + 2 \in 1..Count
          BY <1>3, <4>1
        <4>3. LowHalf(q)
          BY <1>3, <4>1
        <4>4. Unit(q)
          <5>1. IsPiece(q, input.kind)
            BY <4>2, PiecesAre
          <5>2. q.unit
            BY <4>3 DEF LowHalf
          <5> QED
            BY <5>1, <5>2 DEF IsPiece, Verbatim, Short, Meaningless
        <4>5. /\ Place(h + 2) = (i + 6) + 6
              /\ (i + 6) + 5 < End => /\ At(i + 6) = Backslash /\ At((i + 6) + 1) = LowerU
                                      /\ UnicodeEscape((i + 6) + 1) = Escaped(q.char, (i + 6) + 6)
          <5>1. Unit(Pieces[(h + 1) + 1]) /\ Place((h + 1) + 1) = Place(h + 2)
            BY <1>3, <4>4
          <5>2. /\ Place((h + 1) + 1) = Place(h + 1) + 6
                /\ Place(h + 1) + 5 < End =>
                      /\ At(Place(h + 1)) = Backslash /\ At(Place(h + 1) + 1) = LowerU
                      /\ UnicodeEscape(Place(h + 1) + 1) =
                            Escaped(Pieces[(h + 1) + 1].char, Place(h + 1) + 6)
            BY <1>3, <4>2, <5>1, UnitReads
          <5> QED
            BY <1>1, <1>3, <5>1, <5>2
        <4>6. Place(h + 2) < End
          BY <4>2, AcceptableMore
        <4>7. (i + 6) + 5 < End
          BY <1>1, <4>5, <4>6
        <4>8. At(i + 6) = Backslash /\ At(i + 7) = LowerU
          BY <2>3, <4>5, <4>7
        <4>9. second = Escaped(q.char, i + 12)
          BY <2>3, <4>5, <4>7
        <4>10. second.ok /\ IsLow(second.char)
          BY <4>3, <4>9 DEF Escaped, LowHalf
        <4> QED
          BY <2>5, <4>8, <4>10
      <3> QED
        BY <3>1, <3>2, ReadsNone
    <2> QED
      BY <2>4, <2>5
  <1> QED
    BY <1>5, <1>6, <1>7, <1>8

LEMMA EscapeReads ==
    ASSUME IsString, NEW h \in 0..Count, Good(h), Place(h) < End, At(Place(h)) = Backslash
    PROVE  ReadsOn(h, EscapeAt(Place(h)))
  <1> DEFINE p == Pieces[h + 1]
  <1>1. At(Place(h)) # Quote
    BY DEF Quote, Backslash
  <1>2. h + 1 \in 1..Count /\ IsPiece(p, input.kind) /\ p.written[1] = Backslash
    BY <1>1, NextPiece
  <1>3. Short(p) \/ Unit(p) \/ (Meaningless(p, input.kind) /\ WrongEscape(p.written))
    <2> HIDE DEF p
    <2> QED
      BY <1>2, PieceStarts
  <1> QED
    BY <1>2, <1>3, ShortReads, UnitUnderstood, WrongRefused

-----------------------------------------------------------------------------
(* Characters of UTF-8. *)

IsCont(b) == b \in 128..191

LEMMA TwoBytesDecode ==
    ASSUME NEW c \in Nat, 128 <= c, c < 2048
    PROVE  LET w == TwoBytes(c)
           IN  /\ Len(w) = 2 /\ w[1] \in 192..223 /\ IsCont(w[2])
               /\ (w[1] % 32) * 64 + (w[2] % 64) = c
  <1> DEFINE a == c \div 64
             x == c % 64
  <1>1. a \in 2..31 /\ x \in 0..63 /\ c = 64 * a + x
    OBVIOUS
  <1> HIDE DEF a, x
  <1>2. 192 + a \in 192..223 /\ (192 + a) % 32 = a
    BY <1>1
  <1>3. 128 + x \in 128..191 /\ (128 + x) % 64 = x
    BY <1>1
  <1>4. TwoBytes(c) = <<192 + a, 128 + x>>
    BY DEF TwoBytes, a, x
  <1>5. /\ Len(<<192 + a, 128 + x>>) = 2
        /\ <<192 + a, 128 + x>>[1] = 192 + a /\ <<192 + a, 128 + x>>[2] = 128 + x
    OBVIOUS
  <1>6. ((192 + a) % 32) * 64 + ((128 + x) % 64) = c
    BY <1>1, <1>2, <1>3
  <1> QED
    BY ONLY <1>2, <1>3, <1>4, <1>5, <1>6 DEF IsCont

LEMMA ThreeBytesDecode ==
    ASSUME NEW c \in Nat, 2048 <= c, c < 65536
    PROVE  LET w == ThreeBytes(c)
           IN  /\ Len(w) = 3 /\ w[1] \in 224..239 /\ IsCont(w[2]) /\ IsCont(w[3])
               /\ (w[1] % 16) * 4096 + (w[2] % 64) * 64 + (w[3] % 64) = c
  <1> DEFINE a == c \div 4096
             d == c \div 64
             y == (c \div 64) % 64
             x == c % 64
  <1>1. a \in 0..15 /\ x \in 0..63 /\ y \in 0..63 /\ c = 64 * d + x /\ d = 64 * a + y /\ d \in Nat
    OBVIOUS
  <1> HIDE DEF a, d, x, y
  <1>2. 224 + a \in 224..239 /\ (224 + a) % 16 = a
    BY <1>1
  <1>3. /\ 128 + x \in 128..191 /\ (128 + x) % 64 = x
        /\ 128 + y \in 128..191 /\ (128 + y) % 64 = y
    BY <1>1
  <1> DEFINE w == <<224 + a, 128 + y, 128 + x>>
  <1>4. ThreeBytes(c) = w
    BY DEF ThreeBytes, a, x, y
  <1>5. Len(w) = 3 /\ w[1] = 224 + a /\ w[2] = 128 + y /\ w[3] = 128 + x
    OBVIOUS
  <1>6. ((224 + a) % 16) * 4096 + ((128 + y) % 64) * 64 + ((128 + x) % 64) = c
    <2>1. a * 4096 + y * 64 + x = c
      BY <1>1
    <2> QED
      BY <1>2, <1>3, <2>1
  <1> HIDE DEF w
  <1> QED
    BY ONLY <1>2, <1>3, <1>4, <1>5, <1>6 DEF IsCont

LEMMA FourBytesDecode ==
    ASSUME NEW c \in Nat, 65536 <= c, c <= MaxUnicode
    PROVE  LET w == FourBytes(c)
           IN  /\ Len(w) = 4 /\ w[1] \in 240..244 /\ IsCont(w[2]) /\ IsCont(w[3]) /\ IsCont(w[4])
               /\ (w[1] % 8) * 262144 + (w[2] % 64) * 4096 + (w[3] % 64) * 64 + (w[4] % 64) = c
  <1> DEFINE a == c \div 262144
             s == c \div 4096
             d == c \div 64
             z == (c \div 4096) % 64
             y == (c \div 64) % 64
             x == c % 64
  <1>1. /\ a \in 0..4 /\ x \in 0..63 /\ y \in 0..63 /\ z \in 0..63
        /\ c = 64 * d + x /\ d = 64 * s + y /\ s = 64 * a + z /\ d \in Nat /\ s \in Nat
    BY DEF MaxUnicode
  <1> HIDE DEF a, d, s, x, y, z
  <1>2. 240 + a \in 240..244 /\ (240 + a) % 8 = a
    BY <1>1
  <1>3. /\ 128 + x \in 128..191 /\ (128 + x) % 64 = x
        /\ 128 + y \in 128..191 /\ (128 + y) % 64 = y
        /\ 128 + z \in 128..191 /\ (128 + z) % 64 = z
    BY <1>1
  <1> DEFINE w == <<240 + a, 128 + z, 128 + y, 128 + x>>
  <1>4. FourBytes(c) = w
    BY DEF FourBytes, a, x, y, z
  <1>5. Len(w) = 4 /\ w[1] = 240 + a /\ w[2] = 128 + z /\ w[3] = 128 + y /\ w[4] = 128 + x
    OBVIOUS
  <1>6. ((240 + a) % 8) * 262144 + ((128 + z) % 64) * 4096 + ((128 + y) % 64) * 64
           + ((128 + x) % 64) = c
    <2>1. a * 262144 + z * 4096 + y * 64 + x = c
      BY <1>1
    <2> QED
      BY <1>2, <1>3, <2>1
  <1> HIDE DEF w
  <1> QED
    BY ONLY <1>2, <1>3, <1>4, <1>5, <1>6 DEF IsCont

LEMMA Utf8Cases ==
    ASSUME NEW i
    PROVE  /\ At(i) \in 192..223 =>
                 IF Cont(i + 1) THEN Utf8At(i) = Escaped(Char2(i), i + 2) ELSE ~Utf8At(i).ok
           /\ At(i) \in 224..239 =>
                 IF Cont(i + 1) /\ Cont(i + 2) /\ ~IsHigh(Char3(i)) /\ ~IsLow(Char3(i))
                 THEN Utf8At(i) = Escaped(Char3(i), i + 3) ELSE ~Utf8At(i).ok
           /\ At(i) \in 240..244 =>
                 IF Cont(i + 1) /\ Cont(i + 2) /\ Cont(i + 3) /\ Char4(i) <= MaxUnicode
                 THEN Utf8At(i) = Escaped(Char4(i), i + 4) ELSE ~Utf8At(i).ok
           /\ At(i) \notin 192..244 => ~Utf8At(i).ok
  <1> DEFINE ch == At(i)
  <1>1. /\ ch \in 192..223 => ch \notin 224..239 /\ ch \notin 240..244
        /\ ch \in 224..239 => ch \notin 192..223 /\ ch \notin 240..244
        /\ ch \in 240..244 => ch \notin 192..223 /\ ch \notin 224..239
        /\ ch \notin 192..244 => ch \notin 192..223 /\ ch \notin 224..239 /\ ch \notin 240..244
    OBVIOUS
  <1> DEFINE two == ch \in 192..223
             three == ch \in 224..239
             four == ch \in 240..244
             fits == Char4(i) <= MaxUnicode
  <1>2. Utf8At(i) =
           CASE two /\ Cont(i + 1) -> Escaped(Char2(i), i + 2)
             [] /\ three /\ Cont(i + 1) /\ Cont(i + 2)
                /\ ~IsHigh(Char3(i)) /\ ~IsLow(Char3(i)) -> Escaped(Char3(i), i + 3)
             [] four /\ Cont(i + 1) /\ Cont(i + 2) /\ Cont(i + 3) /\ fits -> Escaped(Char4(i), i + 4)
             [] OTHER -> BadEscape("utf8", i)
    BY DEF Utf8At
  <1>3. ~BadEscape("utf8", i).ok
    BY DEF BadEscape
  <1> HIDE DEF two, three, four, fits
  <1>4. /\ two => ~three /\ ~four
        /\ three => ~two /\ ~four
        /\ four => ~two /\ ~three
        /\ ch \notin 192..244 => ~two /\ ~three /\ ~four
    BY <1>1 DEF two, three, four
  <1>5. two => IF Cont(i + 1) THEN Utf8At(i) = Escaped(Char2(i), i + 2) ELSE ~Utf8At(i).ok
    BY <1>2, <1>3, <1>4
  <1>6. three => IF Cont(i + 1) /\ Cont(i + 2) /\ ~IsHigh(Char3(i)) /\ ~IsLow(Char3(i))
                 THEN Utf8At(i) = Escaped(Char3(i), i + 3) ELSE ~Utf8At(i).ok
    BY <1>2, <1>3, <1>4
  <1>7. four => IF Cont(i + 1) /\ Cont(i + 2) /\ Cont(i + 3) /\ fits
                THEN Utf8At(i) = Escaped(Char4(i), i + 4) ELSE ~Utf8At(i).ok
    BY <1>2, <1>3, <1>4
  <1>8. ch \notin 192..244 => ~Utf8At(i).ok
    BY <1>2, <1>3, <1>4
  <1> QED
    BY <1>5, <1>6, <1>7, <1>8 DEF two, three, four, fits

(* The bytes of the piece behind the first h, and none but those. *)
LEMMA NextBytes ==
    ASSUME IsString, NEW h \in 0..Count, Place(h) < End, At(Place(h)) # Quote
    PROVE  LET i == Place(h)
               w == Pieces[h + 1].written
           IN  /\ i \in Nat /\ End \in Nat
               /\ 1 < Len(w) => (Cont(i + 1) => At(i + 1) = w[2] /\ i + 1 < End)
                                /\ (i + 1 < End => At(i + 1) = w[2])
               /\ 2 < Len(w) => (Cont(i + 2) => At(i + 2) = w[3] /\ i + 2 < End)
                                /\ (i + 2 < End => At(i + 2) = w[3])
               /\ 3 < Len(w) => (Cont(i + 3) => At(i + 3) = w[4] /\ i + 3 < End)
                                /\ (i + 3 < End => At(i + 3) = w[4])
  <1> DEFINE i == Place(h)
             w == Pieces[h + 1].written
  <1>1. /\ Len(w) \in Nat
        /\ \A j \in 1..Len(w) : i + j - 1 < End => At(i + j - 1) = w[j]
    BY NextPiece
  <1>2. i \in Nat /\ i >= 2 /\ End = Len(Text) + 1 /\ Len(Text) \in Nat /\ End \in Nat
    BY Places, TextFacts DEF IsString, End
  <1> HIDE DEF i, w
  <1>3. \A j \in Nat : Cont(i + j) => i + j < End
    <2> SUFFICES ASSUME NEW j \in Nat, Cont(i + j) PROVE i + j < End
      OBVIOUS
    <2>1. At(i + j) # NUL
      BY DEF Cont, NUL
    <2>2. i + j \in 1..Len(Text)
      BY <2>1 DEF At
    <2> QED
      BY <1>2, <2>2
  <1>4. ASSUME NEW j \in Nat, j < Len(w)
        PROVE  (Cont(i + j) => At(i + j) = w[j + 1] /\ i + j < End)
               /\ (i + j < End => At(i + j) = w[j + 1])
    <2>1. j + 1 \in 1..Len(w) /\ i + (j + 1) - 1 = i + j
      BY <1>1, <1>2, <1>4
    <2>2. i + (j + 1) - 1 < End => At(i + (j + 1) - 1) = w[j + 1]
      BY <1>1, <2>1
    <2> QED
      BY <1>3, <2>1, <2>2
  <1>5. 1 \in Nat /\ 2 \in Nat /\ 3 \in Nat /\ 1 + 1 = 2 /\ 2 + 1 = 3 /\ 3 + 1 = 4
    OBVIOUS
  <1> QED
    BY <1>2, <1>4, <1>5 DEF i, w

(* Bytes that are no UTF-8 are not taken for a character. *)
LEMMA NotUtf8Refused ==
    ASSUME IsString, NEW h \in 0..Count, Place(h) < End, At(Place(h)) # Quote,
           NotUtf8(Pieces[h + 1].written)
    PROVE  ~Utf8At(Place(h)).ok
  <1> DEFINE i == Place(h)
             w == Pieces[h + 1].written
             b == At(i)
  <1>1. Len(w) \in Nat /\ w[1] = b
    BY NextPiece
  <1>2. /\ 1 < Len(w) /\ Cont(i + 1) => At(i + 1) = w[2]
        /\ 2 < Len(w) /\ Cont(i + 2) => At(i + 2) = w[3]
        /\ 3 < Len(w) /\ Cont(i + 3) => At(i + 3) = w[4]
    BY NextBytes
  <1>3. \/ b \in (128..191) \cup (245..255)
        \/ Len(w) \in 2..(Announced(b) + 1) /\ w[Len(w)] \notin 128..191
        \/ Len(w) = 3 /\ b = 237 /\ w[2] \in 160..191
        \/ Len(w) = 4 /\ b = 244 /\ w[2] \in 144..191
    BY <1>1 DEF NotUtf8
  <1> HIDE DEF i, w
  <1>4. CASE b \in (128..191) \cup (245..255)
    <2>1. b \notin 192..244
      BY <1>4
    <2> QED
      BY <2>1, Utf8Cases DEF i
  <1>5. CASE Len(w) \in 2..(Announced(b) + 1) /\ w[Len(w)] \notin 128..191
    <2>1. \/ b \in 192..223 /\ Announced(b) = 1
          \/ b \in 224..239 /\ Announced(b) = 2
          \/ b \in 240..244 /\ Announced(b) = 3
      <3>1. b \in 192..223 \/ b \in 224..239 \/ b \in 240..244 \/ Announced(b) = 0
        BY DEF Announced
      <3>2. Announced(b) # 0
        BY <1>1, <1>5
      <3>3. /\ b \in 192..223 => Announced(b) = 1
            /\ b \in 224..239 => Announced(b) = 2
            /\ b \in 240..244 => Announced(b) = 3
        BY DEF Announced
      <3> QED
        BY <3>1, <3>2, <3>3
    <2>2. \A n \in 1..3 : Announced(b) = n => Len(w) \in 2..(n + 1)
      BY <1>5
    <2>3. ASSUME NEW n \in 1..3, Len(w) = n + 1 PROVE ~Cont(i + n)
      <3>1. w[n + 1] \notin 128..191
        BY <1>5, <2>3
      <3>2. CASE n = 1
        BY <1>2, <2>3, <3>1, <3>2 DEF Cont
      <3>3. CASE n = 2
        BY <1>2, <2>3, <3>1, <3>3 DEF Cont
      <3>4. CASE n = 3
        BY <1>2, <2>3, <3>1, <3>4 DEF Cont
      <3> QED
        BY <3>2, <3>3, <3>4
    <2>4. /\ Len(w) = 2 => ~Cont(i + 1)
          /\ Len(w) = 3 => ~Cont(i + 2)
          /\ Len(w) = 4 => ~Cont(i + 3)
      <3>1. 1 \in 1..3 /\ 2 \in 1..3 /\ 3 \in 1..3 /\ 2 = 1 + 1 /\ 3 = 2 + 1 /\ 4 = 3 + 1
        OBVIOUS
      <3> QED
        BY ONLY <2>3, <3>1
    <2>5. CASE b \in 192..223 /\ Announced(b) = 1
      <3>1. Len(w) = 2
        <4>1. Len(w) \in 2..(1 + 1)
          BY <2>2, <2>5
        <4> QED
          BY <1>1, <4>1
      <3> QED
        BY <2>4, <2>5, <3>1, Utf8Cases DEF i
    <2>6. CASE b \in 224..239 /\ Announced(b) = 2
      <3>1. Len(w) = 2 \/ Len(w) = 3
        <4>1. Len(w) \in 2..(2 + 1)
          BY <2>2, <2>6
        <4> QED
          BY <1>1, <4>1
      <3> QED
        BY <2>4, <2>6, <3>1, Utf8Cases DEF i
    <2>7. CASE b \in 240..244 /\ Announced(b) = 3
      <3>1. Len(w) = 2 \/ Len(w) = 3 \/ Len(w) = 4
        <4>1. Len(w) \in 2..(3 + 1)
          BY <2>2, <2>7
        <4> QED
          BY <1>1, <4>1
      <3> QED
        BY <2>4, <2>7, <3>1, Utf8Cases DEF i
    <2> QED
      BY <2>1, <2>5, <2>6, <2>7
  <1>6. CASE Len(w) = 3 /\ b = 237 /\ w[2] \in 160..191
    <2>1. SUFFICES ASSUME Cont(i + 1), Cont(i + 2) PROVE IsHigh(Char3(i)) \/ IsLow(Char3(i))
      <3>1. b \in 224..239
        BY <1>6
      <3> QED
        BY <3>1, Utf8Cases DEF i
    <2>2. At(i + 1) = w[2]
      BY <1>2, <1>6, <2>1
    <2> DEFINE y == At(i + 1)
               x == At(i + 2)
    <2>3. y \in 160..191 /\ x \in 128..191
      BY <1>6, <2>1, <2>2 DEF Cont
    <2>4. Char3(i) = (b % 16) * 4096 + (y % 64) * 64 + (x % 64)
      BY DEF Char3, Part
    <2> HIDE DEF x, y, b
    <2>5. b % 16 = 13 /\ y % 64 \in 32..63 /\ x % 64 \in 0..63
      BY <1>6, <2>3
    <2>6. Char3(i) \in 55296..57343
      BY ONLY <2>4, <2>5
    <2> QED
      BY ONLY <2>6 DEF IsHigh, IsLow
  <1>7. CASE Len(w) = 4 /\ b = 244 /\ w[2] \in 144..191
    <2>1. SUFFICES ASSUME Cont(i + 1), Cont(i + 2), Cont(i + 3) PROVE ~(Char4(i) <= MaxUnicode)
      <3>1. b \in 240..244
        BY <1>7
      <3> QED
        BY <3>1, Utf8Cases DEF i
    <2>2. At(i + 1) = w[2]
      BY <1>2, <1>7, <2>1
    <2> DEFINE z == At(i + 1)
               y == At(i + 2)
               x == At(i + 3)
    <2>3. z \in 144..191 /\ y \in 128..191 /\ x \in 128..191
      BY <1>7, <2>1, <2>2 DEF Cont
    <2>4. Char4(i) = (b % 8) * 262144 + (z % 64) * 4096 + (y % 64) * 64 + (x % 64)
      BY DEF Char4, Part
    <2> HIDE DEF x, y, z, b
    <2>5. b % 8 = 4 /\ z % 64 \in 16..63 /\ y % 64 \in 0..63 /\ x % 64 \in 0..63
      BY <1>7, <2>3
    <2>6. Char4(i) \in Nat /\ Char4(i) >= 1114112
      <3> DEFINE d == b % 8
                 s == z % 64
                 f == y % 64
                 g == x % 64
      <3> HIDE DEF d, s, f, g
      <3>1. d = 4 /\ s \in 16..63 /\ f \in 0..63 /\ g \in 0..63
        BY <2>5 DEF d, s, f, g
      <3>2. Char4(i) = d * 262144 + s * 4096 + f * 64 + g
        BY <2>4 DEF d, s, f, g
      <3>3. d * 262144 + s * 4096 + f * 64 + g \in Nat /\ d * 262144 + s * 4096 + f * 64 + g >= 1114112
        BY ONLY <3>1
      <3> QED
        BY <3>2, <3>3
    <2> QED
      BY ONLY <2>6 DEF MaxUnicode
  <1> QED
    BY <1>3, <1>4, <1>5, <1>6, <1>7 DEF i

(* A character is read from its bytes, if the text has them all. *)
LEMMA BytesRead ==
    ASSUME IsString, input.kind = "bytes", NEW h \in 0..Count, Place(h) < End,
           At(Place(h)) # Quote, ~(At(Place(h)) < 128), Verbatim(Pieces[h + 1], input.kind)
    PROVE  LET i == Place(h)
               p == Pieces[h + 1]
           IN  \/ Utf8At(i) = Escaped(p.char, i + Len(p.written))
               \/ ~Utf8At(i).ok /\ i + Len(p.written) - 1 >= End
  <1> DEFINE i == Place(h)
             p == Pieces[h + 1]
             w == p.written
             c == p.char
             b == At(i)
  <1>1. w[1] = b /\ i \in Nat /\ End \in Nat
    BY NextPiece, NextBytes
  <1>2. /\ 1 < Len(w) => (Cont(i + 1) => At(i + 1) = w[2] /\ i + 1 < End)
                         /\ (i + 1 < End => At(i + 1) = w[2])
        /\ 2 < Len(w) => (Cont(i + 2) => At(i + 2) = w[3] /\ i + 2 < End)
                         /\ (i + 2 < End => At(i + 2) = w[3])
        /\ 3 < Len(w) => (Cont(i + 3) => At(i + 3) = w[4] /\ i + 3 < End)
                         /\ (i + 3 < End => At(i + 3) = w[4])
    BY NextBytes
  <1>3. c \in 0..MaxUnicode /\ ~IsHigh(c) /\ ~IsLow(c) /\ w = Utf8(c)
    BY DEF Verbatim, InAlphabet
  <1>4. c \in Nat /\ c <= MaxUnicode
    BY <1>3, MaxUnicodeFacts
  <1> HIDE DEF i, p, w, c
  <1>5. c >= 128
    <2> SUFFICES ASSUME ~(c >= 128) PROVE FALSE
      OBVIOUS
    <2>1. c < 128
      BY <1>4
    <2>2. w = <<c>>
      BY <1>3, <1>4, <2>1, Utf8Starts
    <2>3. w[1] = c
      BY <2>2
    <2>4. ~(b < 128)
      BY DEF i
    <2> QED
      BY <1>1, <2>1, <2>3, <2>4
  <1>6. CASE c < 2048
    <2>1. w = TwoBytes(c)
      BY <1>3, <1>4, <1>5, <1>6 DEF Utf8
    <2>2. Len(w) = 2 /\ b \in 192..223 /\ IsCont(w[2]) /\ (b % 32) * 64 + (w[2] % 64) = c
      BY <1>1, <1>4, <1>5, <1>6, <2>1, TwoBytesDecode
    <2>3. CASE i + 1 < End
      <3>1. At(i + 1) = w[2]
        BY <1>2, <2>2, <2>3
      <3>2. Cont(i + 1) /\ Char2(i) = c
        BY <2>2, <3>1 DEF Cont, IsCont, Char2, Part
      <3>3. Utf8At(i) = Escaped(c, i + 2)
        BY <2>2, <3>2, Utf8Cases
      <3> QED
        BY <2>2, <3>3 DEF i, p, w, c
    <2>4. CASE ~(i + 1 < End)
      <3>1. ~Cont(i + 1)
        BY <1>2, <2>2, <2>4
      <3>2. ~Utf8At(i).ok
        BY <2>2, <3>1, Utf8Cases
      <3>3. i + Len(w) - 1 >= End
        BY <1>1, <2>2, <2>4
      <3> QED
        BY <3>2, <3>3 DEF i, p, w
    <2> QED
      BY <2>3, <2>4
  <1>7. CASE 2048 <= c /\ c < 65536
    <2>1. w = ThreeBytes(c)
      BY <1>3, <1>4, <1>7 DEF Utf8
    <2>2. /\ Len(w) = 3 /\ b \in 224..239 /\ IsCont(w[2]) /\ IsCont(w[3])
          /\ (b % 16) * 4096 + (w[2] % 64) * 64 + (w[3] % 64) = c
      BY <1>1, <1>4, <1>7, <2>1, ThreeBytesDecode
    <2>3. CASE i + 2 < End
      <3>1. i + 1 < End
        BY <1>1, <2>3
      <3>2. At(i + 1) = w[2] /\ At(i + 2) = w[3]
        BY <1>2, <2>2, <2>3, <3>1
      <3>3. Cont(i + 1) /\ Cont(i + 2) /\ Char3(i) = c
        BY <2>2, <3>2 DEF Cont, IsCont, Char3, Part
      <3>4. Utf8At(i) = Escaped(c, i + 3)
        BY <1>3, <2>2, <3>3, Utf8Cases
      <3> QED
        BY <2>2, <3>4 DEF i, p, w, c
    <2>4. CASE ~(i + 2 < End)
      <3>1. ~Cont(i + 2)
        BY <1>2, <2>2, <2>4
      <3>2. ~Utf8At(i).ok
        BY <2>2, <3>1, Utf8Cases
      <3>3. i + Len(w) - 1 >= End
        BY <1>1, <2>2, <2>4
      <3> QED
        BY <3>2, <3>3 DEF i, p, w
    <2> QED
      BY <2>3, <2>4
  <1>8. CASE 65536 <= c
    <2>1. w = FourBytes(c)
      BY <1>3, <1>4, <1>8 DEF Utf8
    <2>2. /\ Len(w) = 4 /\ b \in 240..244 /\ IsCont(w[2]) /\ IsCont(w[3]) /\ IsCont(w[4])
          /\ (b % 8) * 262144 + (w[2] % 64) * 4096 + (w[3] % 64) * 64 + (w[4] % 64) = c
      BY <1>1, <1>4, <1>8, <2>1, FourBytesDecode
    <2>3. CASE i + 3 < End
      <3>1. i + 1 < End /\ i + 2 < End
        BY <1>1, <2>3
      <3>2. At(i + 1) = w[2] /\ At(i + 2) = w[3] /\ At(i + 3) = w[4]
        BY <1>2, <2>2, <2>3, <3>1
      <3>3. Cont(i + 1) /\ Cont(i + 2) /\ Cont(i + 3) /\ Char4(i) = c
        BY <2>2, <3>2 DEF Cont, IsCont, Char4, Part
      <3>4. Utf8At(i) = Escaped(c, i + 4)
        BY <1>4, <2>2, <3>3, Utf8Cases
      <3> QED
        BY <2>2, <3>4 DEF i, p, w, c
    <2>4. CASE ~(i + 3 < End)
      <3>1. ~Cont(i + 3)
        BY <1>2, <2>2, <2>4
      <3>2. ~Utf8At(i).ok
        BY <2>2, <3>1, Utf8Cases
      <3>3. i + Len(w) - 1 >= End
        BY <1>1, <2>2, <2>4
      <3> QED
        BY <3>2, <3>3 DEF i, p, w
    <2> QED
      BY <2>3, <2>4
  <1> QED
    BY <1>4, <1>6, <1>7, <1>8

(* ReadChar of BytesReader. *)
CharAt(i) == IF At(i) < 128 THEN Escaped(At(i), i + 1) ELSE Utf8At(i)

LEMMA Utf8Reads ==
    ASSUME IsString, input.kind = "bytes", NEW h \in 0..Count, Good(h), Place(h) < End,
           At(Place(h)) # Quote, At(Place(h)) # Backslash
    PROVE  ReadsOn(h, CharAt(Place(h)))
  <1> DEFINE i == Place(h)
             p == Pieces[h + 1]
             w == p.written
  <1>1. /\ h + 1 \in 1..Count /\ IsPiece(p, input.kind) /\ w[1] = At(i)
        /\ Place(h + 1) = i + Len(w) /\ Len(w) \in Nat
    BY NextPiece
  <1>2. i \in Nat /\ End \in Nat /\ Count \in Nat /\ h + 1 \in 0..Count
    BY <1>1, NextBytes, PiecesAre
  <1>3. CASE At(i) < 128
    <2>1. /\ h + 1 \in 0..Count /\ Good(h + 1) /\ Place(h + 1) = i + 1
          /\ CharsTo(h + 1) = CharsTo(h) \o <<At(i)>>
      BY <1>3, VerbatimNext
    <2>2. CharAt(i) = Escaped(At(i), i + 1)
      BY <1>3 DEF CharAt
    <2> HIDE DEF i
    <2>3. CharAt(i).ok /\ CharAt(i).char = At(i) /\ CharAt(i).next = i + 1
      BY <2>2 DEF Escaped
    <2> QED
      BY <2>1, <2>3, ReadsOne DEF i
  <1>4. CASE ~(At(i) < 128) /\ Verbatim(p, input.kind)
    <2>1. CharAt(i) = Utf8At(i)
      BY <1>4 DEF CharAt
    <2>2. \/ Utf8At(i) = Escaped(p.char, i + Len(w))
          \/ ~Utf8At(i).ok /\ i + Len(w) - 1 >= End
      BY <1>4, BytesRead
    <2>3. CASE Utf8At(i) = Escaped(p.char, i + Len(w))
      <3>1. ~(p.char < 0)
        <4>1. p.char \in 0..MaxUnicode
          BY <1>4 DEF Verbatim, InAlphabet
        <4> HIDE DEF p
        <4> QED
          BY <4>1, MaxUnicodeFacts
      <3>2. ~HighHalf(p) /\ ~LowHalf(p)
        BY <1>4 DEF Verbatim, HighHalf, LowHalf
      <3>3. Good(h + 1) /\ CharsTo(h + 1) = CharsTo(h) \o <<p.char>>
        BY <1>1, <3>1, <3>2, GoodMore
      <3> HIDE DEF i, p, w
      <3>4. CharAt(i).ok /\ CharAt(i).char = p.char /\ CharAt(i).next = i + Len(w)
        BY <2>1, <2>3 DEF Escaped
      <3> QED
        BY <1>1, <1>2, <3>3, <3>4, ReadsOne DEF i
    <2>4. CASE ~Utf8At(i).ok /\ i + Len(w) - 1 >= End
      <3>1. ~Acceptable
        <4> SUFFICES ASSUME Acceptable PROVE FALSE
          OBVIOUS
        <4>1. Place(h + 1) < End
          BY <1>1, AcceptableMore
        <4> QED
          BY <1>1, <1>2, <2>4, <4>1
      <3> QED
        BY <2>1, <2>4, <3>1, ReadsNone
    <2> QED
      BY <2>2, <2>3, <2>4
  <1>5. CASE ~(At(i) < 128) /\ Meaningless(p, input.kind) /\ NotUtf8(w)
    <2>1. ~CharAt(i).ok
      BY <1>5, NotUtf8Refused DEF CharAt
    <2>2. ~Acceptable
      <3> SUFFICES ASSUME Acceptable PROVE FALSE
        OBVIOUS
      <3>1. ~Wrong(Pieces, h + 1)
        BY <1>1, AcceptableMore
      <3>2. p.char = -1 /\ -1 < 0
        BY <1>5 DEF Meaningless
      <3> QED
        BY <3>1, <3>2 DEF Wrong
    <2> QED
      BY <2>1, <2>2, ReadsNone
  <1>6. Verbatim(p, input.kind) \/ (Meaningless(p, input.kind) /\ NotUtf8(w))
    <2> HIDE DEF p
    <2> QED
      BY <1>1, PieceStarts
  <1> QED
    BY <1>3, <1>4, <1>5, <1>6

-----------------------------------------------------------------------------
(* maxchar is at least every character that was read.  or of BitOr is the   *)
(* one function f with Ors(f, m), widened the one with Widenings.           *)

OddBit(k, j) == IF k % 2 = 1 \/ j % 2 = 1 THEN 1 ELSE 0
Ors(f, m) == f = [k \in 0..m |-> [j \in Nat |->
                     IF k = 0 THEN j ELSE 2 * f[k \div 2][j \div 2] + OddBit(k, j)]]

LEMMA OrsExist ==
    ASSUME NEW m \in Nat
    PROVE  \E f : Ors(f, m)
  <1> DEFINE S == {n \in Nat : ~\E f : Ors(f, n)}
  <1> SUFFICES ASSUME S # {} PROVE FALSE
    OBVIOUS
  <1>1. PICK n \in S : \A i \in S : n <= i
    <2>1. S \in SUBSET Nat
      OBVIOUS
    <2> HIDE DEF S
    <2> QED
      BY <2>1, LeastNumber
  <1>2. n \in Nat /\ ~\E f : Ors(f, n)
    BY <1>1
  <1> DEFINE Row(f, k) == [j \in Nat |->
                 IF k = 0 THEN j ELSE 2 * f[k \div 2][j \div 2] + OddBit(k, j)]
  <1>3. n # 0
    <2> DEFINE g == [k \in 0..0 |-> [j \in Nat |-> j]]
    <2>1. \A k \in 0..0 : Row(g, k) = [j \in Nat |-> j]
      OBVIOUS
    <2>2. g = [k \in 0..0 |-> Row(g, k)]
      BY <2>1
    <2>3. Ors(g, 0)
      BY <2>2 DEF Ors
    <2> QED
      BY <1>2, <2>3
  <1>4. n - 1 \in Nat /\ n - 1 \notin S
    BY <1>1, <1>2, <1>3
  <1>5. PICK f : Ors(f, n - 1)
    BY <1>4
  <1>6. f = [k \in 0..(n - 1) |-> Row(f, k)]
    BY <1>5 DEF Ors
  <1> DEFINE g == [k \in 0..n |-> IF k = n THEN Row(f, n) ELSE f[k]]
  <1>7. \A k \in 0..(n - 1) : g[k] = f[k]
    BY <1>2, <1>3
  <1>8. ASSUME NEW k \in 0..n PROVE Row(g, k) = Row(f, k)
    <2>1. CASE k = 0
      BY <2>1
    <2>2. CASE k # 0
      <3>1. k \div 2 \in 0..(n - 1)
        BY <1>2, <2>2
      <3>2. g[k \div 2] = f[k \div 2]
        <4> HIDE DEF g
        <4> QED
          BY <1>7, <3>1
      <3> HIDE DEF g
      <3> QED
        BY <3>2
    <2> QED
      BY <2>1, <2>2
  <1>9. ASSUME NEW k \in 0..n PROVE g[k] = Row(g, k)
    <2>1. CASE k = n
      <3>1. g[k] = Row(f, n)
        BY <2>1
      <3> HIDE DEF g, Row
      <3> QED
        BY <1>8, <2>1, <3>1
    <2>2. CASE k # n
      <3>1. k \in 0..(n - 1)
        BY <1>2, <2>2
      <3> HIDE DEF Row, g
      <3>2. f[k] = Row(f, k)
        BY <1>6, <3>1
      <3> QED
        BY <1>7, <1>8, <3>1, <3>2
    <2> QED
      BY <2>1, <2>2
  <1>10. Ors(g, n)
    <2>1. g = [k \in 0..n |-> g[k]]
      OBVIOUS
    <2> HIDE DEF g, Row
    <2>2. g = [k \in 0..n |-> Row(g, k)]
      BY <1>9, <2>1
    <2> QED
      BY <2>2 DEF Ors, Row
  <1> QED
    BY <1>2, <1>10

LEMMA BitOrBounds ==
    ASSUME NEW m \in Nat, NEW n \in Nat
    PROVE  BitOr(m, n) \in Nat /\ BitOr(m, n) >= m /\ BitOr(m, n) >= n /\ BitOr(m, n) <= m + n
  <1> DEFINE f == CHOOSE g : Ors(g, m)
  <1>1. Ors(f, m)
    BY OrsExist
  <1>2. BitOr(m, n) = f[m][n]
    BY DEF BitOr, Ors, OddBit
  <1> HIDE DEF f
  <1> DEFINE Above(k) == \A j \in Nat :
                f[k][j] \in Nat /\ f[k][j] >= k /\ f[k][j] >= j /\ f[k][j] <= k + j
             S == {k \in 0..m : ~Above(k)}
  <1>3. \A k \in 0..m : \A j \in Nat :
           f[k][j] = IF k = 0 THEN j ELSE 2 * f[k \div 2][j \div 2] + OddBit(k, j)
    BY <1>1 DEF Ors
  <1>4. S = {}
    <2> SUFFICES ASSUME S # {} PROVE FALSE
      OBVIOUS
    <2>1. PICK k \in S : \A i \in S : k <= i
      <3>1. S \in SUBSET Nat
        OBVIOUS
      <3> HIDE DEF S
      <3> QED
        BY <3>1, LeastNumber
    <2>2. k \in 0..m /\ ~Above(k)
      BY <2>1
    <2>3. CASE k = 0
      BY <1>3, <2>2, <2>3
    <2>4. CASE k # 0
      <3>1. k \div 2 \in 0..m /\ k \div 2 \in Nat /\ k \div 2 < k
        BY <2>2, <2>4
      <3>2. Above(k \div 2)
        <4>1. k \div 2 \notin S
          BY <2>1, <2>2, <3>1
        <4> HIDE DEF Above
        <4> QED
          BY <3>1, <4>1
      <3>3. ASSUME NEW j \in Nat
            PROVE  f[k][j] \in Nat /\ f[k][j] >= k /\ f[k][j] >= j /\ f[k][j] <= k + j
        <4> DEFINE a == k \div 2
                   b == j \div 2
                   r == f[k \div 2][j \div 2]
                   bit == OddBit(k, j)
        <4>1. /\ a \in Nat /\ b \in Nat /\ k \in Nat
              /\ k = 2 * a + (k % 2) /\ j = 2 * b + (j % 2)
              /\ k % 2 \in 0..1 /\ j % 2 \in 0..1
          BY <2>2
        <4>2. bit \in 0..1 /\ bit >= k % 2 /\ bit >= j % 2 /\ bit <= (k % 2) + (j % 2)
          BY <4>1 DEF OddBit
        <4>3. r \in Nat /\ r >= a /\ r >= b /\ r <= a + b
          BY <3>2, <4>1
        <4>4. f[k][j] = 2 * r + bit
          BY <1>3, <2>2, <2>4
        <4> HIDE DEF a, b, r, bit
        <4> DEFINE x == k % 2
                   y == j % 2
        <4>5. k = 2 * a + x /\ j = 2 * b + y /\ x \in 0..1 /\ y \in 0..1 /\ bit >= x /\ bit >= y
              /\ bit <= x + y
          BY <4>1, <4>2
        <4> HIDE DEF x, y
        <4> QED
          BY <4>1, <4>2, <4>3, <4>4, <4>5
      <3> QED
        BY <2>2, <3>3
    <2> QED
      BY <2>3, <2>4
  <1>5. Above(m)
    <2>1. m \in 0..m
      OBVIOUS
    <2> HIDE DEF Above
    <2> QED
      BY <1>4, <2>1
  <1> QED
    BY <1>2, <1>5

Widenings(f, chars, m) ==
    f = [n \in 0..m |-> IF n = 0 THEN maxchar ELSE BitOr(f[n - 1], chars[n])]

LEMMA WideningsExist ==
    ASSUME NEW chars, NEW m \in Nat
    PROVE  \E f : Widenings(f, chars, m)
  <1> DEFINE S == {k \in Nat : ~\E f : Widenings(f, chars, k)}
  <1> SUFFICES ASSUME S # {} PROVE FALSE
    OBVIOUS
  <1>1. PICK k \in S : \A i \in S : k <= i
    <2>1. S \in SUBSET Nat
      OBVIOUS
    <2> HIDE DEF S
    <2> QED
      BY <2>1, LeastNumber
  <1>2. k \in Nat /\ ~\E f : Widenings(f, chars, k)
    BY <1>1
  <1>3. k # 0
    <2>1. Widenings([n \in 0..0 |-> maxchar], chars, 0)
      BY DEF Widenings
    <2> QED
      BY <1>2, <2>1
  <1>4. k - 1 \in Nat /\ k - 1 \notin S
    BY <1>1, <1>2, <1>3
  <1>5. PICK f : Widenings(f, chars, k - 1)
    BY <1>4
  <1> DEFINE g == [n \in 0..k |-> IF n = k THEN BitOr(f[k - 1], chars[k]) ELSE f[n]]
  <1>6. \A n \in 0..(k - 1) : g[n] = f[n]
    BY <1>2, <1>3
  <1>7. ASSUME NEW n \in 0..k
        PROVE  g[n] = IF n = 0 THEN maxchar ELSE BitOr(g[n - 1], chars[n])
    <2>1. CASE n = 0
      BY <1>2, <1>3, <1>5, <2>1 DEF Widenings
    <2>2. CASE n # 0
      <3>1. n - 1 \in 0..(k - 1) /\ g[n - 1] = f[n - 1]
        <4>1. n - 1 \in 0..(k - 1)
          BY <1>2, <2>2
        <4> HIDE DEF g
        <4> QED
          BY <1>6, <4>1
      <3>2. CASE n = k
        <4>1. g[n] = BitOr(f[n - 1], chars[n])
          BY <3>2
        <4> HIDE DEF g
        <4> QED
          BY <2>2, <3>1, <4>1
      <3>3. CASE n # k
        <4>1. n \in 0..(k - 1)
          BY <1>2, <3>3
        <4>2. f[n] = BitOr(f[n - 1], chars[n])
          BY <1>5, <2>2, <4>1 DEF Widenings
        <4>3. g[n] = f[n]
          BY <1>6, <4>1
        <4> HIDE DEF g
        <4> QED
          BY <2>2, <3>1, <4>2, <4>3
      <3> QED
        BY <3>2, <3>3
    <2> QED
      BY <2>1, <2>2
  <1>8. Widenings(g, chars, k)
    <2>1. g = [n \in 0..k |-> g[n]]
      OBVIOUS
    <2> HIDE DEF g
    <2> QED
      BY <1>7, <2>1 DEF Widenings
  <1> QED
    BY <1>2, <1>8

LEMMA WidenedBounds ==
    ASSUME maxchar \in Nat, NEW chars, chars \in Seq(0..MaxUnicode)
    PROVE  /\ Widened(chars) \in Nat /\ Widened(chars) >= maxchar
           /\ \A i \in 1..Len(chars) : Widened(chars) >= chars[i]
  <1> DEFINE m == Len(chars)
             f == CHOOSE g : Widenings(g, chars, m)
  <1>1. m \in Nat /\ \A i \in 1..m : chars[i] \in Nat
    <2>1. m \in Nat
      BY LenProperties
    <2>2. \A i \in 1..m : chars[i] \in 0..MaxUnicode
      BY ElementOfSeq
    <2> QED
      BY <2>1, <2>2, MaxUnicodeFacts
  <1>2. Widenings(f, chars, m)
    BY <1>1, WideningsExist
  <1>3. Widened(chars) = f[m]
    BY DEF Widened, Widenings
  <1> HIDE DEF f, m
  <1>4. \A n \in 0..m : f[n] = IF n = 0 THEN maxchar ELSE BitOr(f[n - 1], chars[n])
    BY <1>2 DEF Widenings
  <1> DEFINE Above(n) == /\ f[n] \in Nat /\ f[n] >= maxchar
                         /\ \A i \in 1..n : f[n] >= chars[i]
             S == {n \in 0..m : ~Above(n)}
  <1>5. S = {}
    <2> SUFFICES ASSUME S # {} PROVE FALSE
      OBVIOUS
    <2>1. PICK n \in S : \A i \in S : n <= i
      <3>1. S \in SUBSET Nat
        BY <1>1
      <3> HIDE DEF S
      <3> QED
        BY <3>1, LeastNumber
    <2>2. n \in 0..m /\ ~Above(n)
      BY <2>1
    <2>3. CASE n = 0
      BY <1>4, <2>2, <2>3
    <2>4. CASE n # 0
      <3>1. n \in 1..m /\ n - 1 \in 0..m /\ n - 1 \notin S /\ n \in Nat
        BY <1>1, <2>1, <2>2, <2>4
      <3>2. Above(n - 1)
        <4> HIDE DEF Above
        <4> QED
          BY <3>1
      <3>3. f[n] = BitOr(f[n - 1], chars[n])
        BY <1>4, <2>2, <2>4
      <3>4. f[n] \in Nat /\ f[n] >= f[n - 1] /\ f[n] >= chars[n]
        BY <1>1, <3>1, <3>2, <3>3, BitOrBounds
      <3>5. \A i \in 1..n : i \in 1..(n - 1) \/ i = n
        BY <3>1
      <3>6. \A i \in 1..n : f[n] >= chars[i]
        <4> SUFFICES ASSUME NEW i \in 1..n PROVE f[n] >= chars[i]
          OBVIOUS
        <4>1. chars[i] \in Nat
          BY <1>1, <3>1
        <4> QED
          BY <3>2, <3>4, <3>5, <4>1
      <3>7. f[n] >= maxchar
        BY <3>2, <3>4
      <3> QED
        BY <2>2, <3>4, <3>6, <3>7
    <2> QED
      BY <2>3, <2>4
  <1>6. Above(m)
    <2>1. m \in 0..m
      BY <1>1
    <2> HIDE DEF Above
    <2> QED
      BY <1>5, <2>1
  <1> QED
    BY <1>3, <1>6 DEF m

-----------------------------------------------------------------------------
(* What depends on the input alone does not change. *)

LEMMA SameDates ==
    ASSUME input' = input
    PROVE  ReadDate(2)' = ReadDate(2) /\ (IsDate' <=> IsDate)
  <1>1. \A i : At(i)' = At(i) /\ (IsDigit(i)' <=> IsDigit(i)) /\ End' = End
    BY SameText
  <1>2. \A i : AfterDigits(i)' = AfterDigits(i)
    <2> SUFFICES ASSUME NEW i PROVE AfterDigits(i)' = AfterDigits(i)
      OBVIOUS
    <2> QED
      BY DEF AfterDigits, IsDigit, At, Text, End
  <1>3. \A i : Fraction(i)' = Fraction(i)
    <2> SUFFICES ASSUME NEW i PROVE Fraction(i)' = Fraction(i)
      OBVIOUS
    <2> QED
      BY DEF Fraction, ValueOf, AfterFraction, HasFraction, AfterDigits, IsDigit, At, Text, End
  <1>4. \A i : /\ (HasFraction(i)' <=> HasFraction(i)) /\ AfterFraction(i)' = AfterFraction(i)
               /\ TwoDigit(i)' = TwoDigit(i)
    BY <1>1, <1>2 DEF HasFraction, AfterFraction, TwoDigit, Digit
  <1>5. \A i : TZAt(i)' = TZAt(i)
    <2> SUFFICES ASSUME NEW i PROVE TZAt(i)' = TZAt(i)
      OBVIOUS
    <2> QED
      BY DEF TZAt, TwoDigit, Digit, IsDigit, At, Text, End
  <1>6. \A i, form : HasForm(i, form)' <=> HasForm(i, form)
    BY <1>1 DEF HasForm
  <1>7. \A i : DateAt(i)' = DateAt(i) /\ TimeAt(i)' = TimeAt(i)
    BY <1>3, <1>4 DEF DateAt, TimeAt
  <1>8. MomentsAt(2)' = MomentsAt(2)
    BY <1>1, <1>4, <1>5, <1>6, <1>7 DEF MomentsAt
  <1>9. ReadDate(2)' = ReadDate(2)
    BY <1>1, <1>8 DEF ReadDate
  <1> QED
    BY <1>9 DEF IsDate

LEMMA SameString ==
    ASSUME input' = input
    PROVE  /\ Pieces' = Pieces /\ Count' = Count /\ End' = End /\ (IsString' <=> IsString)
           /\ \A k : /\ CharsTo(k)' = CharsTo(k) /\ Place(k)' = Place(k)
                     /\ (Good(k)' <=> Good(k))
           /\ (Acceptable' <=> Acceptable) /\ (RawControl' <=> RawControl)
           /\ (Narrow' <=> Narrow)
  <1>1. /\ Pieces' = Pieces /\ Count' = Count /\ End' = End /\ Text' = Text
        /\ (IsString' <=> IsString) /\ (Narrow' <=> Narrow)
    BY DEF Pieces, Count, End, Text, IsString, Narrow
  <1>2. \A k : CharsFor(k)' = CharsFor(k)
    BY <1>1 DEF CharsFor
  <1>3. \A k : CharsTo(k)' = CharsTo(k) /\ WrittenTo(k)' = WrittenTo(k)
    BY <1>1, <1>2 DEF CharsTo, WrittenTo
  <1>4. \A k : Place(k)' = Place(k)
    BY <1>3 DEF Place
  <1>5. \A k : Good(k)' <=> Good(k)
    BY <1>1 DEF Good
  <1>6. Acceptable' <=> Acceptable
    BY <1>1 DEF Acceptable
  <1>7. RawControl' <=> RawControl
    BY DEF RawControl
  <1> QED
    BY <1>1, <1>3, <1>4, <1>5, <1>6, <1>7

-----------------------------------------------------------------------------
(* The end of a string. *)

(* The only quote that begins no piece is the closing one. *)
LEMMA AtClosingQuote ==
    ASSUME IsString, NEW m \in 0..Count, Good(m), At(Place(m)) = Quote
    PROVE  /\ Acceptable
           /\ CharsTo(m) = CharsOf(Pieces)
           /\ Place(m) + 1 = Len(Written(Pieces)) + 3
  <1>1. Count \in Nat /\ DOMAIN Pieces = 1..Count /\ m \in Nat
    BY PiecesAre
  <1>2. /\ Place(m) \in Nat /\ Place(m) < End /\ End = Len(Text) + 1 /\ Len(Text) \in Nat
    <2>1. Quote # NUL
      BY DEF Quote, NUL
    <2> QED
      BY <2>1, Places, Positions, TextFacts DEF IsString, End
  <1>3. m = Count
    <2> SUFFICES ASSUME m # Count PROVE FALSE
      OBVIOUS
    <2> DEFINE w == Pieces[m + 1].written
    <2>1. m + 1 \in 1..Count /\ (m + 1) - 1 = m
      BY <1>1
    <2>2. Len(w) \in Nat \ {0} /\ w[1] # Quote
      <3> DEFINE p == Pieces[m + 1]
      <3>1. IsPiece(p, input.kind)
        BY <2>1, PiecesAre
      <3> HIDE DEF p
      <3> QED
        BY <3>1, PieceStarts DEF p
    <2>3. 1 \in 1..Len(w) /\ Place((m + 1) - 1) + 1 - 1 = Place(m)
      BY <1>2, <2>1, <2>2
    <2>4. At(Place((m + 1) - 1) + 1 - 1) = w[1]
      BY <1>2, <2>1, <2>3, PieceText
    <2> QED
      BY <2>2, <2>3, <2>4
  <1>4. Acceptable
    <2>1. \A k \in DOMAIN Pieces : ~Wrong(Pieces, k)
      BY <1>1, <1>3 DEF Good
    <2>2. Len(Quoted(Pieces)) = Place(Count) /\ Place(Count) \in Nat
      BY QuotedIs
    <2>3. Len(Text) >= Len(Quoted(Pieces))
      BY <1>2, <1>3, <2>2
    <2> QED
      BY <2>1, <2>3 DEF Acceptable, Pieces
  <1>5. CharsTo(m) = CharsOf(Pieces)
    BY <1>1, <1>3 DEF CharsTo, CharsOf, CharsFor
  <1>6. Place(m) + 1 = Len(Written(Pieces)) + 3
    <2>1. Written(Pieces) = WrittenTo(Count)
      BY QuotedIs
    <2>2. Len(WrittenTo(Count)) \in Nat
      <3>1. Count \in 0..Count
        BY <1>1
      <3> QED
        BY <3>1, WrittenTypes, LenProperties
    <2> DEFINE n == Len(WrittenTo(Count))
    <2> HIDE DEF n
    <2>3. Place(m) = n + 2 /\ n \in Nat /\ Len(Written(Pieces)) = n
      BY <1>3, <2>1, <2>2 DEF Place, n
    <2> QED
      BY <2>3
  <1> QED
    BY <1>4, <1>5, <1>6

(* The new str is wide enough for the characters that are written into it. *)
LEMMA NewStringHolds ==
    ASSUME strBuffer \in Seq(0..MaxUnicode), NEW max \in Nat, max <= MaxUnicode,
           \A i \in 1..Len(strBuffer) : strBuffer[i] <= max
    PROVE  NewString(max) = [kind |-> "str", text |-> strBuffer]
  <1> DEFINE width == Capacity(max)
  <1>1. width \in Nat /\ max < width
    <2>1. CASE max < 128
      BY <2>1 DEF Capacity
    <2>2. CASE 128 <= max /\ max < 256
      BY <2>2 DEF Capacity
    <2>3. CASE 256 <= max /\ max < 65536
      BY <2>3 DEF Capacity
    <2>4. CASE 65536 <= max
      <3>1. width = MaxUnicode + 1
        BY <2>4 DEF Capacity
      <3> QED
        BY <3>1, MaxUnicodeFacts
    <2> QED
      BY <2>1, <2>2, <2>3, <2>4
  <1> HIDE DEF width
  <1>2. \A i \in DOMAIN strBuffer : strBuffer[i] % width = strBuffer[i]
    <2> SUFFICES ASSUME NEW i \in DOMAIN strBuffer PROVE strBuffer[i] % width = strBuffer[i]
      OBVIOUS
    <2>1. i \in 1..Len(strBuffer)
      BY LenProperties
    <2>2. strBuffer[i] \in Nat
      <3>1. strBuffer[i] \in 0..MaxUnicode
        BY <2>1, ElementOfSeq
      <3> QED
        BY <3>1, MaxUnicodeFacts
    <2> DEFINE c == strBuffer[i]
    <2>3. c \in Nat /\ c < width
      BY <1>1, <2>1, <2>2
    <2> HIDE DEF c
    <2>4. c % width = c
      BY <1>1, <2>3
    <2> QED
      BY <2>4 DEF c
  <1>3. strBuffer = [i \in DOMAIN strBuffer |-> strBuffer[i]]
    OBVIOUS
  <1>4. [i \in DOMAIN strBuffer |-> strBuffer[i] % width] = strBuffer
    BY <1>2, <1>3
  <1>5. ~(max > MaxUnicode)
    BY MaxUnicodeFacts
  <1> QED
    BY <1>4, <1>5 DEF NewString, width

-----------------------------------------------------------------------------
(* The invariant: at every step of a reader, what lies before the cursor    *)
(* are whole pieces, and strBuffer holds what they stand for.               *)

Fresh == strBuffer = <<>> /\ maxchar = 127
Wide == maxchar \in Nat /\ \A i \in 1..Len(strBuffer) : strBuffer[i] <= maxchar
AtPiece ==
    \E k \in 0..Count : Good(k) /\ cursor = Place(k) /\ strBuffer = CharsTo(k)

StringInv ==
    IsString =>
        /\ pc \in {"value", "string", "ascii", "read", "done"}
        /\ pc = "value" => cursor = 1
        /\ pc \in {"string", "ascii"} => cursor = 2
        /\ pc \in {"value", "string", "ascii"} => Fresh
        /\ pc = "ascii" => Narrow
        /\ pc = "read" => Wide /\ AtPiece
        /\ pc \in {"ascii", "read"} /\ IsDate => starved
        /\ StringIsRead

(* The ways a step can end. *)
LEMMA Refused ==
    ASSUME input' = input, pc' = "done",
           NEW what, result' = Error(what),
           Acceptable => starved' \/ (what = "maxchar" /\ maxchar' > MaxUnicode)
    PROVE  StringInv'
  <1>1. Acceptable' <=> Acceptable
    BY SameString
  <1>2. result'.kind = "error" /\ result'.kind # "str" /\ result'.what = what
    BY DEF Error
  <1>3. StringIsRead'
    BY <1>1, <1>2 DEF StringIsRead
  <1> QED
    BY <1>3 DEF StringInv

LEMMA Finished ==
    ASSUME input' = input, pc' = "done",
           NEW text, result' = [kind |-> "str", text |-> text], IsDate => starved',
           Acceptable, text = CharsOf(Pieces), cursor' = Len(Written(Pieces)) + 3
    PROVE  StringInv'
  <1>1. (Acceptable' <=> Acceptable) /\ (IsDate' <=> IsDate) /\ input.pieces = Pieces
    BY SameString, SameDates DEF Pieces
  <1>2. result'.kind = "str" /\ result'.text = text
    OBVIOUS
  <1>3. StringIsRead'
    BY <1>1, <1>2 DEF StringIsRead
  <1> QED
    BY <1>3 DEF StringInv

LEMMA ReadOn ==
    ASSUME input' = input, pc' = "read", Wide', IsDate => starved',
           NEW m \in 0..Count, Good(m), cursor' = Place(m), strBuffer' = CharsTo(m)
    PROVE  StringInv'
  <1>1. /\ Count' = Count /\ (Good(m)' <=> Good(m)) /\ Place(m)' = Place(m)
        /\ CharsTo(m)' = CharsTo(m) /\ (IsDate' <=> IsDate)
    BY SameString, SameDates
  <1>2. AtPiece'
    BY <1>1 DEF AtPiece
  <1>3. StringIsRead'
    BY DEF StringIsRead, StringText
  <1> QED
    BY <1>1, <1>2, <1>3 DEF StringInv

LEMMA TakeReads ==
    ASSUME input' = input, pc = "read", IsString, Wide, IsDate => starved, starved' = starved,
           NEW k \in 0..Count, Good(k), strBuffer = CharsTo(k),
           NEW chars, chars \in Seq(0..MaxUnicode), NEW next, Take(chars, next),
           NEW m \in 0..Count, Good(m), Place(m) = next, CharsTo(m) = CharsTo(k) \o chars
    PROVE  StringInv'
  <1> DEFINE C == 0..MaxUnicode
  <1>1. /\ strBuffer' = strBuffer \o chars /\ maxchar' = Widened(chars)
        /\ cursor' = next /\ pc' = "read"
    BY DEF Take
  <1>2. strBuffer \in Seq(C)
    BY GoodChars
  <1>3. /\ maxchar \in Nat /\ maxchar' \in Nat /\ maxchar' >= maxchar
        /\ \A i \in 1..Len(chars) : maxchar' >= chars[i]
        /\ \A i \in 1..Len(strBuffer) : strBuffer[i] <= maxchar
    BY <1>1, WidenedBounds DEF Wide
  <1>4. /\ \A i \in 1..Len(strBuffer) : strBuffer[i] \in Nat
        /\ \A i \in 1..Len(chars) : chars[i] \in Nat
    <2>1. \A i \in 1..Len(strBuffer) : strBuffer[i] \in C
      BY <1>2, ElementOfSeq
    <2>2. \A i \in 1..Len(chars) : chars[i] \in C
      BY ElementOfSeq
    <2> QED
      BY <2>1, <2>2, MaxUnicodeFacts
  <1> HIDE DEF C
  <1>5. /\ Len(strBuffer \o chars) = Len(strBuffer) + Len(chars)
        /\ Len(strBuffer) \in Nat /\ Len(chars) \in Nat
        /\ \A i \in 1..(Len(strBuffer) + Len(chars)) :
              (strBuffer \o chars)[i] =
                 IF i <= Len(strBuffer) THEN strBuffer[i] ELSE chars[i - Len(strBuffer)]
    BY <1>2, ConcatProperties, LenProperties DEF C
  <1> DEFINE s == strBuffer
             t == strBuffer \o chars
             a == Len(strBuffer)
             b == Len(chars)
  <1>6. ASSUME NEW i \in 1..Len(t) PROVE t[i] <= maxchar'
    <2>1. i \in 1..(a + b) /\ a \in Nat /\ b \in Nat
      BY <1>5
    <2>2. t[i] = IF i <= a THEN s[i] ELSE chars[i - a]
      BY <1>5, <2>1
    <2>3. CASE i <= a
      <3>1. i \in 1..a
        BY <2>1, <2>3
      <3>2. s[i] \in Nat /\ s[i] <= maxchar
        BY <1>3, <1>4, <3>1
      <3>3. t[i] = s[i]
        BY <2>2, <2>3
      <3> HIDE DEF t, s
      <3> QED
        BY <1>3, <3>2, <3>3
    <2>4. CASE ~(i <= a)
      <3>1. i - a \in 1..b
        BY <2>1, <2>4
      <3>2. chars[i - a] \in Nat /\ maxchar' >= chars[i - a]
        BY <1>3, <1>4, <3>1
      <3>3. t[i] = chars[i - a]
        BY <2>2, <2>4
      <3> HIDE DEF t, a
      <3> QED
        BY <1>3, <3>2, <3>3
    <2> QED
      BY <2>3, <2>4
  <1>7. Wide'
    BY <1>1, <1>3, <1>6 DEF Wide
  <1> QED
    BY <1>1, <1>7, ReadOn

-----------------------------------------------------------------------------
(* The actions. *)

LEMMA StringInitInv == Init => StringInv
  BY DEF Init, StringInit, StringInv, Fresh, StringIsRead, StringText

LEMMA ReadValueString == StringInv /\ ReadValue => StringInv'
  <1> SUFFICES ASSUME StringInv, ReadValue, IsString' PROVE StringInv'
    BY DEF StringInv
  <1>1. IsString /\ input' = input /\ pc = "value" /\ UNCHANGED stringVars
    BY SameString DEF ReadValue
  <1>2. cursor = 1 /\ Fresh
    BY <1>1 DEF StringInv
  <1>3. At(cursor) = Quote
    BY <1>1, <1>2, QuoteAtStart
  <1>4. cursor' = cursor + 1 /\ pc' = "string"
    <2>1. Quote \notin {9, 10, 13, 32}
      BY DEF Quote
    <2>2. ~BeginsNumber(Quote)
      BY DEF BeginsNumber
    <2> QED
      BY <1>3, <2>1, <2>2 DEF ReadValue
  <1>5. StringIsRead'
    BY <1>4 DEF StringIsRead, StringText
  <1> QED
    BY <1>1, <1>2, <1>4, <1>5 DEF StringInv, Fresh, stringVars

LEMMA ReadWordString == StringInv /\ ReadWord => StringInv'
  <1> SUFFICES ASSUME StringInv, ReadWord, IsString' PROVE FALSE
    BY DEF StringInv
  <1>1. IsString /\ pc = "value"
    BY SameString DEF ReadWord
  <1>2. At(cursor) = Quote
    BY <1>1, QuoteAtStart DEF StringInv
  <1>3. PICK w \in Words : At(cursor) = w.word[1]
    BY DEF ReadWord
  <1>4. w.word[1] # Quote
    <2>1. w.word = <<116, 114, 117, 101>> \/ w.word = <<102, 97, 108, 115, 101>>
             \/ w.word = <<110, 117, 108, 108>>
      BY DEF Words
    <2>2. w.word[1] = 116 \/ w.word[1] = 102 \/ w.word[1] = 110
      BY <2>1
    <2> QED
      BY <2>2 DEF Quote
  <1> QED
    BY <1>2, <1>3, <1>4

LEMMA NumberNoString == StringInv /\ NumberNext => StringInv'
  <1> SUFFICES ASSUME StringInv, NumberNext, IsString' PROVE FALSE
    BY DEF StringInv
  <1>1. pc \in NumberLabels /\ input' = input
    BY DEF NumberNext, ReadNumber, IntDigit, BigDigit, Point, FractionDigit, Exponent,
           ExponentDigit, MakeFloat, NumberLabels
  <1>2. IsString
    BY <1>1, SameString
  <1>3. pc \in {"value", "string", "ascii", "read", "done"}
    BY <1>2 DEF StringInv
  <1> QED
    BY <1>1, <1>3 DEF NumberLabels

LEMMA ReadStringString == StringInv /\ ReadString => StringInv'
  <1> SUFFICES ASSUME StringInv, ReadString, IsString' PROVE StringInv'
    BY DEF StringInv
  <1>1. IsString /\ input' = input /\ pc = "string" /\ UNCHANGED <<strBuffer, maxchar>>
    BY SameString DEF ReadString
  <1>2. cursor = 2 /\ Fresh
    BY <1>1 DEF StringInv
  <1> DEFINE dates == IF input.parseDate THEN ReadDate(cursor) ELSE {}
  <1>3. IsDate <=> dates # {}
    BY <1>2 DEF IsDate
  <1>4. \/ \E r \in dates : Done([kind |-> "moment", moment |-> r.moment], r.next + 1)
        \/ /\ pc' = (IF Narrow THEN "ascii" ELSE "read")
           /\ starved' = (dates # {})
           /\ cursor' = cursor
    BY DEF ReadString
  <1>5. CASE \E r \in dates : Done([kind |-> "moment", moment |-> r.moment], r.next + 1)
    <2>1. IsDate /\ pc' = "done" /\ result'.kind = "moment"
      BY <1>3, <1>5 DEF Done
    <2>2. IsDate'
      BY <1>1, <2>1, SameDates
    <2>3. StringIsRead'
      BY <2>1, <2>2 DEF StringIsRead
    <2> QED
      BY <2>1, <2>3 DEF StringInv
  <1>6. CASE pc' = "ascii" /\ Narrow /\ starved' = (dates # {}) /\ cursor' = cursor
    <2>1. StringIsRead' /\ Narrow' /\ (IsDate' <=> IsDate)
      BY <1>1, <1>6, SameString, SameDates DEF StringIsRead, StringText
    <2>2. IsDate' => starved'
      BY <1>3, <1>6, <2>1
    <2> HIDE DEF dates
    <2> QED
      BY <1>1, <1>2, <1>6, <2>1, <2>2 DEF StringInv, Fresh
  <1>7. CASE pc' = "read" /\ starved' = (dates # {}) /\ cursor' = cursor
    <2>1. Good(0) /\ Place(0) = 2 /\ CharsTo(0) = <<>> /\ 0 \in 0..Count
      BY <1>1, GoodStart, PiecesAre
    <2>2. strBuffer' = <<>> /\ maxchar' = 127
      BY <1>1, <1>2 DEF Fresh
    <2>3. Wide'
      BY <2>2 DEF Wide
    <2>4. IsDate => starved'
      BY <1>3, <1>7
    <2> HIDE DEF dates
    <2> QED
      BY <1>1, <1>2, <1>7, <2>1, <2>2, <2>3, <2>4, ReadOn
  <1> QED
    BY <1>4, <1>5, <1>6, <1>7

LEMMA ReadAsciiString == TypeInv /\ StringInv /\ ReadAscii => StringInv'
  <1> SUFFICES ASSUME TypeInv, StringInv, ReadAscii, IsString' PROVE StringInv'
    BY DEF StringInv
  <1> DEFINE i == SliceEnd(cursor, NotAscii)
             C == 0..MaxUnicode
  <1>1. IsString /\ input' = input /\ pc = "ascii" /\ maxchar' = maxchar
    BY SameString DEF ReadAscii
  <1>2. cursor = 2 /\ Fresh /\ Narrow /\ (IsDate => starved)
    BY <1>1 DEF StringInv
  <1>3. /\ cursor \in 1..End /\ End \in Nat /\ input \in Inputs
    BY StringTypes
  <1>4. /\ i \in cursor..End
        /\ \A j \in cursor..(i - 1) : At(j) \notin NotAscii
    BY <1>3, SliceEnds
  <1>5. \A j : At(j) \in 0..255
    <2>1. Text \in Seq(0..255)
      <3>1. Text \in Seq(0..Widest(input.kind))
        BY <1>3, InputAssumption DEF Text
      <3>2. Widest(input.kind) = 255
        BY <1>2 DEF Narrow, Widest
      <3> QED
        BY <3>1, <3>2
    <2>2. Len(Text) \in Nat
      BY <2>1, LenProperties
    <2>3. NUL \in 0..255
      BY DEF NUL
    <2> QED
      BY <2>1, <2>2, <2>3, ElementOfSeq DEF At
  <1>6. \A j \in cursor..(i - 1) : At(j) # Quote /\ At(j) # Backslash /\ At(j) < 128
    <2>1. ASSUME NEW ch \in 0..255, ch \notin NotAscii
          PROVE  ch # Quote /\ ch # Backslash /\ ch < 128
      BY <2>1 DEF NotAscii, Special
    <2> QED
      BY <1>4, <1>5, <2>1
  <1>7. Good(0) /\ Place(0) = cursor /\ CharsTo(0) = <<>> /\ 0 \in 0..Count
    BY <1>1, <1>2, GoodStart, PiecesAre
  <1> DEFINE slice == SubSeq(Text, cursor, i - 1)
  <1> HIDE DEF i
  <1>8. PICK m \in 0..Count : Good(m) /\ Place(m) = i /\ CharsTo(m) = <<>> \o slice
    BY <1>1, <1>4, <1>6, <1>7, SliceReads
  <1>9. /\ slice \in Seq(C) /\ Len(slice) = i - cursor
        /\ \A n \in 1..(i - cursor) : slice[n] = At(cursor + n - 1)
    BY <1>3, <1>4, Stretch
  <1>10. CharsTo(m) = slice
    <2> HIDE DEF slice, C
    <2> QED
      BY <1>8, <1>9, ConcatEmptySeq
  <1>11. \/ /\ At(i) = Quote /\ Done([kind |-> "str", text |-> slice], i + 1)
            /\ starved' = starved
         \/ strBuffer' = slice /\ cursor' = i /\ pc' = "read" /\ starved' = starved
         \/ starved' = TRUE /\ Done(Error("memory"), cursor)
    BY DEF ReadAscii, i, AsciiPrefix
  <1>12. CASE /\ At(i) = Quote /\ Done([kind |-> "str", text |-> slice], i + 1)
              /\ starved' = starved
    <2>1. Acceptable /\ slice = CharsOf(Pieces) /\ i + 1 = Len(Written(Pieces)) + 3
      BY <1>1, <1>8, <1>10, <1>12, AtClosingQuote
    <2> HIDE DEF slice
    <2> QED
      BY <1>1, <1>2, <1>12, <2>1, Finished DEF Done
  <1>13. CASE strBuffer' = slice /\ cursor' = i /\ pc' = "read" /\ starved' = starved
    <2>1. maxchar' = 127
      BY <1>1, <1>2 DEF Fresh
    <2>2. \A n \in 1..Len(slice) : slice[n] <= 127
      <3> SUFFICES ASSUME NEW n \in 1..(i - cursor) PROVE slice[n] <= 127
        BY <1>9
      <3> DEFINE j == cursor + n - 1
      <3>1. j \in cursor..(i - 1)
        BY <1>3, <1>4
      <3>2. slice[n] = At(j)
        BY <1>9
      <3>3. At(j) < 128 /\ At(j) \in 0..255
        BY <1>5, <1>6, <3>1
      <3> HIDE DEF j, slice
      <3> QED
        BY <3>2, <3>3
    <2>3. Wide'
      BY <1>13, <2>1, <2>2 DEF Wide
    <2> QED
      BY <1>1, <1>2, <1>8, <1>10, <1>13, <2>3, ReadOn
  <1>14. CASE starved' = TRUE /\ Done(Error("memory"), cursor)
    BY <1>1, <1>14, Refused DEF Done
  <1> QED
    BY <1>11, <1>12, <1>13, <1>14

(* Where the readers are. *)
LEMMA AtReader ==
    ASSUME TypeInv, StringInv, IsString, pc = "read"
    PROVE  /\ input \in Inputs /\ cursor \in 1..End /\ cursor \in Nat /\ End \in Nat
           /\ Wide /\ strBuffer \in Seq(0..MaxUnicode) /\ (IsDate => starved)
           /\ \E k \in 0..Count : Good(k) /\ cursor = Place(k) /\ strBuffer = CharsTo(k)
  BY ReadingTypes DEF StringInv, AtPiece

LEMMA EndStringString == TypeInv /\ StringInv /\ EndString => StringInv'
  <1> SUFFICES ASSUME TypeInv, StringInv, EndString, IsString' PROVE StringInv'
    BY DEF StringInv
  <1>1. /\ IsString /\ input' = input /\ pc = "read" /\ At(cursor) = Quote
        /\ maxchar' = maxchar
        /\ \/ Done(NewString(maxchar), cursor + 1) /\ starved' = starved
           \/ Done(Error("memory"), cursor + 1) /\ starved' = TRUE
    BY SameString DEF EndString, AtQuote, Reading
  <1>2. PICK k \in 0..Count : Good(k) /\ cursor = Place(k) /\ strBuffer = CharsTo(k)
    BY <1>1, AtReader
  <1>3. Wide /\ strBuffer \in Seq(0..MaxUnicode) /\ (IsDate => starved)
    BY <1>1, AtReader
  <1>4. /\ Acceptable /\ strBuffer = CharsOf(Pieces) /\ cursor + 1 = Len(Written(Pieces)) + 3
    BY <1>1, <1>2, AtClosingQuote
  <1>5. CASE Done(Error("memory"), cursor + 1) /\ starved' = TRUE
    BY <1>1, <1>5, Refused DEF Done
  <1>6. CASE /\ maxchar > MaxUnicode
             /\ Done(NewString(maxchar), cursor + 1) /\ starved' = starved
    <2>1. NewString(maxchar) = Error("maxchar")
      BY <1>6 DEF NewString
    <2> QED
      BY <1>1, <1>6, <2>1, Refused DEF Done
  <1>7. CASE /\ ~(maxchar > MaxUnicode)
             /\ Done(NewString(maxchar), cursor + 1) /\ starved' = starved
    <2>1. maxchar \in Nat /\ maxchar <= MaxUnicode
      BY <1>3, <1>7, MaxUnicodeFacts DEF Wide
    <2>2. NewString(maxchar) = [kind |-> "str", text |-> strBuffer]
      BY <1>3, <2>1, NewStringHolds DEF Wide
    <2> QED
      BY <1>1, <1>3, <1>4, <1>7, <2>2, Finished DEF Done
  <1> QED
    BY <1>1, <1>5, <1>6, <1>7

LEMMA ReadEscapeString == TypeInv /\ StringInv /\ ReadEscape => StringInv'
  <1> SUFFICES ASSUME TypeInv, StringInv, ReadEscape, IsString' PROVE StringInv'
    BY DEF StringInv
  <1> DEFINE esc == EscapeAt(cursor)
  <1>1. /\ IsString /\ input' = input /\ pc = "read"
        /\ cursor < End /\ At(cursor) = Backslash
        /\ starved' = starved
        /\ \/ esc.ok /\ Take(<<esc.char>>, esc.next)
           \/ ~esc.ok /\ Done(Error(esc.what), esc.next)
    BY SameString DEF ReadEscape, AtEscape, Reading
  <1>2. PICK k \in 0..Count : Good(k) /\ cursor = Place(k) /\ strBuffer = CharsTo(k)
    BY <1>1, AtReader
  <1>3. Wide /\ cursor \in Nat /\ input \in Inputs /\ (IsDate => starved)
    BY <1>1, AtReader
  <1>4. ReadsOn(k, esc) /\ ReadsWell(esc, cursor)
    BY <1>1, <1>2, <1>3, EscapeReads, EscapeFacts
  <1> HIDE DEF esc
  <1>5. CASE esc.ok /\ Take(<<esc.char>>, esc.next)
    <2>1. PICK m \in 0..Count : /\ Good(m) /\ Place(m) = esc.next
                                /\ CharsTo(m) = CharsTo(k) \o <<esc.char>>
      BY <1>4, <1>5 DEF ReadsOn
    <2>2. <<esc.char>> \in Seq(0..MaxUnicode)
      BY <1>4, <1>5 DEF ReadsWell
    <2> QED
      BY <1>1, <1>2, <1>3, <1>5, <2>1, <2>2, TakeReads
  <1>6. CASE ~esc.ok /\ Done(Error(esc.what), esc.next)
    <2>1. ~Acceptable
      BY <1>4, <1>6 DEF ReadsOn
    <2> QED
      BY <1>1, <1>6, <2>1, Refused DEF Done
  <1> QED
    BY <1>1, <1>5, <1>6

LEMMA ReadUtf8String == TypeInv /\ StringInv /\ ReadUtf8 => StringInv'
  <1> SUFFICES ASSUME TypeInv, StringInv, ReadUtf8, IsString' PROVE StringInv'
    BY DEF StringInv
  <1> DEFINE char == CharAt(cursor)
  <1>1. /\ IsString /\ input' = input /\ pc = "read" /\ input.kind = "bytes"
        /\ cursor < End /\ At(cursor) # Quote /\ At(cursor) # Backslash
        /\ starved' = starved
        /\ \/ char.ok /\ Take(<<char.char>>, char.next)
           \/ ~char.ok /\ Done(Error(char.what), char.next)
    BY SameString DEF ReadUtf8, AtText, Reading, Special, CharAt
  <1>2. PICK k \in 0..Count : Good(k) /\ cursor = Place(k) /\ strBuffer = CharsTo(k)
    BY <1>1, AtReader
  <1>3. /\ Wide /\ cursor \in Nat /\ End \in Nat /\ input \in Inputs
        /\ (IsDate => starved)
    BY <1>1, AtReader
  <1>4. ReadsOn(k, char)
    BY <1>1, <1>2, Utf8Reads
  <1>5. char.ok => char.char \in 0..MaxUnicode
    <2>1. CASE At(cursor) < 128
      BY <1>3, <2>1, TextFacts DEF CharAt, Escaped
    <2>2. CASE ~(At(cursor) < 128)
      <3>1. At(cursor) >= 128
        BY <1>3, <2>2, TextFacts, MaxUnicodeFacts
      <3> QED
        BY <1>1, <1>3, <2>2, <3>1, Utf8Facts DEF CharAt, ReadsWell
    <2> QED
      BY <2>1, <2>2
  <1> HIDE DEF char
  <1>6. CASE char.ok /\ Take(<<char.char>>, char.next)
    <2>1. PICK m \in 0..Count : /\ Good(m) /\ Place(m) = char.next
                                /\ CharsTo(m) = CharsTo(k) \o <<char.char>>
      BY <1>4, <1>6 DEF ReadsOn
    <2>2. <<char.char>> \in Seq(0..MaxUnicode)
      BY <1>5, <1>6
    <2> QED
      BY <1>1, <1>2, <1>3, <1>6, <2>1, <2>2, TakeReads
  <1>7. CASE ~char.ok /\ Done(Error(char.what), char.next)
    <2>1. ~Acceptable
      BY <1>4, <1>7 DEF ReadsOn
    <2> QED
      BY <1>1, <1>7, <2>1, Refused DEF Done
  <1> QED
    BY <1>1, <1>6, <1>7

LEMMA ReadSliceString == TypeInv /\ StringInv /\ ReadSlice => StringInv'
  <1> SUFFICES ASSUME TypeInv, StringInv, ReadSlice, IsString' PROVE StringInv'
    BY DEF StringInv
  <1> DEFINE next == SliceEnd(cursor, Special)
             slice == SubSeq(Text, cursor, next - 1)
  <1>1. /\ IsString /\ input' = input /\ pc = "read" /\ input.kind # "bytes"
        /\ Take(slice, next) /\ starved' = starved
    BY SameString DEF ReadSlice, AtText, Reading
  <1>2. PICK k \in 0..Count : Good(k) /\ cursor = Place(k) /\ strBuffer = CharsTo(k)
    BY <1>1, AtReader
  <1>3. Wide /\ cursor \in 1..End /\ input \in Inputs /\ (IsDate => starved)
    BY <1>1, AtReader
  <1>4. next \in cursor..End /\ \A j \in cursor..(next - 1) : At(j) # Quote /\ At(j) # Backslash
    <2>1. \A j \in cursor..(next - 1) : At(j) \notin Special
      BY <1>3, SliceEnds
    <2> QED
      BY <1>3, <2>1, SliceEnds DEF Special
  <1> HIDE DEF next
  <1>5. PICK m \in 0..Count : Good(m) /\ Place(m) = next /\ CharsTo(m) = CharsTo(k) \o slice
    BY <1>1, <1>2, <1>4, SliceReads
  <1>6. slice \in Seq(0..MaxUnicode)
    BY <1>3, <1>4, Stretch
  <1> HIDE DEF slice
  <1> QED
    BY <1>1, <1>2, <1>3, <1>5, <1>6, TakeReads

LEMMA StringEndString == TypeInv /\ StringInv /\ (NoMemory \/ EndMissing) => StringInv'
  <1> SUFFICES ASSUME TypeInv, StringInv, NoMemory \/ EndMissing, IsString' PROVE StringInv'
    BY DEF StringInv
  <1>1. IsString /\ input' = input /\ pc = "read"
    BY SameString DEF NoMemory, EndMissing, Reading
  <1>2. CASE NoMemory
    BY <1>1, <1>2, Refused DEF NoMemory, Done
  <1>3. CASE EndMissing
    <2>1. PICK k \in 0..Count : Good(k) /\ cursor = Place(k)
      BY <1>1, AtReader
    <2>2. ~Acceptable
      <3> SUFFICES ASSUME Acceptable PROVE FALSE
        OBVIOUS
      <3>1. Place(k) \in Nat /\ Place(k) <= Place(Count) /\ Place(Count) < End
        BY <1>1, Places
      <3>2. cursor = End /\ End \in Nat /\ Place(Count) \in Nat
        BY <1>1, <1>3, AtReader, QuotedIs DEF EndMissing
      <3> QED
        BY <2>1, <3>1, <3>2
    <2> QED
      BY <1>1, <1>3, <2>2, Refused DEF EndMissing, Done
  <1> QED
    BY <1>2, <1>3

LEMMA StringStays == StringInv /\ UNCHANGED vars => StringInv'
  <1> SUFFICES ASSUME StringInv, UNCHANGED vars PROVE StringInv'
    OBVIOUS
  <1>1. /\ input' = input /\ cursor' = cursor /\ pc' = pc /\ result' = result
        /\ strBuffer' = strBuffer /\ maxchar' = maxchar /\ starved' = starved
    BY DEF vars, inputVars, stringVars
  <1>2. /\ Count' = Count /\ (IsString' <=> IsString) /\ (Acceptable' <=> Acceptable)
        /\ (Narrow' <=> Narrow) /\ (IsDate' <=> IsDate) /\ (RawControl' <=> RawControl)
        /\ \A k : /\ CharsTo(k)' = CharsTo(k) /\ Place(k)' = Place(k)
                  /\ (Good(k)' <=> Good(k))
    BY <1>1, SameString, SameDates
  <1>3. (Fresh' <=> Fresh) /\ (Wide' <=> Wide)
    BY <1>1 DEF Fresh, Wide
  <1>4. AtPiece' <=> AtPiece
    BY <1>1, <1>2 DEF AtPiece
  <1>5. StringIsRead' <=> StringIsRead
    BY <1>1, <1>2 DEF StringIsRead, StringText
  <1> QED
    BY <1>1, <1>2, <1>3, <1>4, <1>5 DEF StringInv

LEMMA NextString == TypeInv /\ StringInv /\ [Next]_vars => StringInv'
  <1> SUFFICES ASSUME TypeInv, StringInv, [Next]_vars PROVE StringInv'
    OBVIOUS
  <1>1. CASE ReadValue
    BY <1>1, ReadValueString
  <1>2. CASE ReadWord
    BY <1>2, ReadWordString
  <1>3. CASE NumberNext
    BY <1>3, NumberNoString
  <1>4. CASE StringNext
    BY <1>4, ReadStringString, ReadAsciiString, EndStringString, ReadEscapeString,
       ReadSliceString, ReadUtf8String, StringEndString DEF StringNext
  <1>5. CASE UNCHANGED vars
    BY <1>5, StringStays
  <1> QED
    BY <1>1, <1>2, <1>3, <1>4, <1>5 DEF Next

LEMMA StringInvariance == Spec => []StringInv
  <1>1. StringInv /\ TypeInv /\ [Next]_vars => StringInv'
    BY NextString
  <1> QED
    BY <1>1, StringInitInv, TypeInvariance, PTL DEF Spec

(* A string is read to the characters its pieces stand for, with the cursor *)
(* behind its quote, whichever reader reads which part of it; one that has  *)
(* a bad piece or no end is refused, and nothing else is but for want of    *)
(* memory, for a raw control character or for a maxchar that PyUnicode_New  *)
(* does not accept; only a date is read as one, and for want of memory only *)
(* as a str.                                                                *)
THEOREM StringsRead == Spec => []StringIsRead
  <1>1. TypeInv /\ StringInv => StringIsRead
    <2>1. TypeInv /\ StringText => IsString
      BY DEF TypeInv, StringText, IsString
    <2> QED
      BY <2>1 DEF StringInv, StringIsRead
  <1> QED
    BY <1>1, TypeInvariance, StringInvariance, PTL
=============================================================================
