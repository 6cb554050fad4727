--------------------------- MODULE SequenceLemmas ---------------------------
(***************************************************************************)
(* Facts about numbers and sequences that several proofs rest on.          *)
(***************************************************************************)
EXTENDS Naturals, Sequences, SequencesExt, SequenceTheorems, WellFoundedInduction, TLAPS

(* A set of numbers that is not empty has a least element. *)
LEMMA LeastNumber ==
    ASSUME NEW S \in SUBSET Nat, S # {}
    PROVE  \E n \in S : \A m \in S : n <= m
  <1> DEFINE R == {p \in Nat \X Nat : p[1] < p[2]}
  <1>1. IsWellFoundedOn(R, Nat)
    BY NatLessThanWellFounded DEF OpToRel
  <1>2. PICK n \in S : \A m \in S : ~(<<m, n>> \in R)
    <2> HIDE DEF R
    <2> QED
      BY <1>1, WFMin
  <1>3. \A m \in S : ~(m < n)
    BY <1>2
  <1> QED
    BY <1>3

(* A function on 1..n is a sequence of length n. *)
LEMMA FunctionIsSeq ==
    ASSUME NEW S, NEW n \in Nat, NEW f \in [1..n -> S]
    PROVE  f \in Seq(S) /\ Len(f) = n
  <1>1. f \in Seq(S)
    BY SeqDef
  <1>2. DOMAIN f = 1..Len(f) /\ Len(f) \in Nat
    BY <1>1, LenProperties
  <1> QED
    BY <1>1, <1>2

(* The first elements of a sequence. *)
LEMMA Prefix ==
    ASSUME NEW S, NEW s \in Seq(S), NEW c \in Nat, c <= Len(s)
    PROVE  /\ SubSeq(s, 1, c) \in Seq(S)
           /\ Len(SubSeq(s, 1, c)) = c
           /\ \A i \in 1..c : SubSeq(s, 1, c)[i] = s[i]
  <1>1. \A i \in 1..c : s[i] \in S
    BY ElementOfSeq
  <1>2. /\ SubSeq(s, 1, c) \in Seq(S)
        /\ Len(SubSeq(s, 1, c)) = IF 1 <= c THEN c - 1 + 1 ELSE 0
        /\ \A i \in 1..(c - 1 + 1) : SubSeq(s, 1, c)[i] = s[1 + i - 1]
    BY <1>1, SubSeqProperties
  <1> QED
    BY <1>2

(* A stretch of a sequence that is one element longer. *)
LEMMA LongerStretch ==
    ASSUME NEW S, NEW s \in Seq(S), NEW i \in 1..(Len(s) + 1), NEW j \in i..Len(s)
    PROVE  SubSeq(s, i, j) = Append(SubSeq(s, i, j - 1), s[j])
  <1>1. Len(s) \in Nat /\ i \in Nat /\ j \in Nat /\ j \in 1..Len(s)
    BY LenProperties
  <1>2. s[j] \in S
    BY <1>1, ElementOfSeq
  <1>3. SubSeq(s, i, j - 1) \o SubSeq(s, j, j) = SubSeq(s, i, j)
    <2> DEFINE k == j - 1
    <2>1. k \in (i - 1)..Len(s) /\ j \in k..Len(s) /\ k + 1 = j
      BY <1>1
    <2> HIDE DEF k
    <2>2. SubSeq(s, i, k) \o SubSeq(s, k + 1, j) = SubSeq(s, i, j)
      BY <2>1, ConcatAdjacentSubSeq
    <2> QED
      BY <2>1, <2>2 DEF k
  <1>4. SubSeq(s, j, j) = <<s[j]>>
    <2> DEFINE last == SubSeq(s, j, j)
    <2>1. \A k \in j..j : s[k] \in S
      BY <1>1, <1>2
    <2>2. /\ last \in Seq(S)
          /\ Len(last) = IF j <= j THEN j - j + 1 ELSE 0
          /\ \A k \in 1..(j - j + 1) : last[k] = s[j + k - 1]
      BY <1>1, <2>1, SubSeqProperties
    <2>3. Len(last) = 1 /\ last[1] = s[j]
      BY <1>1, <2>2
    <2> HIDE DEF last
    <2>4. last = <<s[j]>>
      BY <1>2, <2>2, <2>3
    <2> QED
      BY <2>4 DEF last
  <1>5. SubSeq(s, i, j - 1) \in Seq(S)
    <2>1. \A k \in i..(j - 1) : s[k] \in S
      BY <1>1, ElementOfSeq
    <2> QED
      BY <1>1, <2>1, SubSeqProperties
  <1> QED
    BY <1>2, <1>3, <1>4, <1>5, AppendIsConcat

-----------------------------------------------------------------------------
(* FlattenSeq, which concatenates from the left, over a longer sequence.    *)

(* f[i] is what the first i elements of g make. *)
Joins(f, g, n) == f = [i \in 1..n |-> IF i = 1 THEN g[i] ELSE f[i - 1] \o g[i]]

LEMMA JoinsAt ==
    ASSUME NEW f, NEW g, NEW n \in Nat, Joins(f, g, n), NEW i \in 1..n
    PROVE  f[i] = IF i = 1 THEN g[i] ELSE f[i - 1] \o g[i]
  BY DEF Joins

LEMMA JoinsExist ==
    ASSUME NEW g, NEW n \in Nat
    PROVE  \E f : Joins(f, g, n)
  <1> DEFINE S == {m \in Nat : ~\E f : Joins(f, g, m)}
  <1> SUFFICES ASSUME S # {} PROVE FALSE
    OBVIOUS
  <1>1. PICK k \in S : \A m \in S : k <= m
    BY LeastNumber
  <1>2. k \in Nat /\ ~\E f : Joins(f, g, k)
    BY <1>1
  <1>3. k # 0
    <2>1. Joins([i \in 1..0 |-> g[i]], g, 0)
      BY DEF Joins
    <2> QED
      BY <1>2, <2>1
  <1>4. k - 1 \in Nat /\ k - 1 \notin S
    BY <1>1, <1>2, <1>3
  <1>5. PICK f : Joins(f, g, k - 1)
    BY <1>4
  <1> DEFINE h == [i \in 1..k |-> IF i = 1 THEN g[i]
                                  ELSE IF i = k THEN f[k - 1] \o g[k] ELSE f[i]]
  <1>6. \A i \in 1..(k - 1) : h[i] = f[i]
    BY <1>2, <1>3, <1>5 DEF Joins
  <1>7. \A i \in 1..k : h[i] = IF i = 1 THEN g[i] ELSE h[i - 1] \o g[i]
    <2> SUFFICES ASSUME NEW i \in 1..k, i # 1
                 PROVE  h[i] = h[i - 1] \o g[i]
      BY <1>2
    <2>1. i - 1 \in 1..(k - 1) /\ h[i - 1] = f[i - 1]
      <3>1. i - 1 \in 1..(k - 1)
        BY <1>2
      <3> HIDE DEF h
      <3> QED
        BY <1>6, <3>1
    <2>2. CASE i = k
      BY <2>1, <2>2
    <2>3. CASE i # k
      <3>1. i \in 1..(k - 1)
        BY <1>2, <2>3
      <3>2. f[i] = f[i - 1] \o g[i]
        BY <1>5, <3>1 DEF Joins
      <3> QED
        BY <1>6, <2>1, <3>1, <3>2
    <2> QED
      BY <2>2, <2>3
  <1>8. Joins(h, g, k)
    <2>1. h = [i \in 1..k |-> h[i]]
      OBVIOUS
    <2> HIDE DEF h
    <2> QED
      BY <1>7, <2>1 DEF Joins
  <1> QED
    BY <1>2, <1>8

LEMMA JoinsAgree ==
    ASSUME NEW g, NEW h, NEW n \in Nat, NEW m \in Nat, n <= m,
           \A i \in 1..n : g[i] = h[i],
           NEW f, Joins(f, g, n), NEW e, Joins(e, h, m)
    PROVE  \A i \in 1..n : f[i] = e[i]
  <1> DEFINE S == {i \in 1..n : f[i] # e[i]}
  <1> SUFFICES ASSUME S # {} PROVE FALSE
    OBVIOUS
  <1>1. PICK k \in S : \A i \in S : k <= i
    <2>1. S \in SUBSET Nat
      OBVIOUS
    <2> HIDE DEF S
    <2> QED
      BY <2>1, LeastNumber
  <1>2. /\ k \in 1..n /\ k \in 1..m
        /\ f[k] = IF k = 1 THEN g[k] ELSE f[k - 1] \o g[k]
        /\ e[k] = IF k = 1 THEN h[k] ELSE e[k - 1] \o h[k]
    <2>1. k \in 1..n /\ k \in 1..m
      BY <1>1
    <2> QED
      BY <2>1, JoinsAt
  <1>3. k # 1 => f[k - 1] = e[k - 1]
    BY <1>1, <1>2
  <1> QED
    BY <1>1, <1>2, <1>3

(* What the flattening of a sequence of n elements is. *)
LEMMA FlattenJoins ==
    ASSUME NEW g, NEW n \in Nat, Len(g) = n, n # 0
    PROVE  \E f : Joins(f, g, n) /\ FlattenSeq(g) = f[n]
  <1> DEFINE c == CHOOSE f : Joins(f, g, n)
  <1>1. Joins(c, g, n)
    BY JoinsExist
  <1>2. FlattenSeq(g) = c[n]
    BY DEF FlattenSeq, Joins
  <1> QED
    BY <1>1, <1>2

(* A sequence of n elements of any kind. *)
Lists(g, n) == g = [i \in 1..n |-> g[i]]

(* One element more: its sequence is appended. *)
LEMMA FlattenMore ==
    ASSUME NEW S, NEW m \in Nat, m # 0, NEW g, NEW h, Lists(g, m - 1), Lists(h, m),
           \A i \in 1..(m - 1) : g[i] = h[i], h[m] \in Seq(S)
    PROVE  FlattenSeq(h) = FlattenSeq(g) \o h[m]
  <1> DEFINE n == m - 1
             T == {g[i] : i \in 1..n} \cup {h[i] : i \in 1..m}
  <1>1. n \in Nat /\ m = n + 1
    OBVIOUS
  <1>2. g \in [1..n -> T] /\ h \in [1..m -> T]
    BY DEF Lists
  <1>3. \A i \in 1..n : g[i] = h[i]
    OBVIOUS
  <1>4. h[m] \in Seq(S)
    OBVIOUS
  <1> HIDE DEF n, T
  <1>5. Len(g) = n /\ g \in Seq(T) /\ Len(h) = m /\ m \in Nat /\ m # 0
    BY <1>1, <1>2, FunctionIsSeq
  <1>6. PICK e : Joins(e, h, m) /\ FlattenSeq(h) = e[m]
    BY <1>5, FlattenJoins
  <1>7. CASE n = 0
    <2>1. FlattenSeq(h) = h[1]
      BY <1>1, <1>6, <1>7 DEF Joins
    <2>2. FlattenSeq(g) = <<>>
      BY <1>5, <1>7, EmptySeq DEF FlattenSeq
    <2> QED
      BY <1>7, <1>1, <1>4, <2>1, <2>2, ConcatEmptySeq
  <1>8. CASE n # 0
    <2>1. PICK f : Joins(f, g, n) /\ FlattenSeq(g) = f[n]
      BY <1>1, <1>5, <1>8, FlattenJoins
    <2>2. f[n] = e[n]
      <3>1. n \in 1..n /\ n <= m
        BY <1>1, <1>8
      <3>2. \A i \in 1..n : f[i] = e[i]
        <4>1. m \in Nat /\ n <= m /\ Joins(e, h, m) /\ Joins(f, g, n)
          BY <1>5, <1>6, <2>1, <3>1
        <4> QED
          BY ONLY <1>1, <1>3, <4>1, JoinsAgree
      <3> QED
        BY <3>1, <3>2
    <2>3. e[m] = e[n] \o h[m]
      <3>1. m \in 1..m /\ m # 1 /\ m - 1 = n
        BY <1>1, <1>8
      <3>2. e[m] = e[m - 1] \o h[m]
        <4>1. m \in Nat /\ m \in 1..m /\ m # 1 /\ Joins(e, h, m)
          BY <1>5, <1>6, <3>1
        <4> QED
          BY ONLY <4>1 DEF Joins
      <3> QED
        BY <3>1, <3>2
    <2> QED
      BY <1>6, <2>1, <2>2, <2>3
  <1> QED
    BY <1>1, <1>7, <1>8
=============================================================================
