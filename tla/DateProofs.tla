----------------------------- MODULE DateProofs -----------------------------
(***************************************************************************)
(* For every set of inputs: the reader of dates inverts the writer.        *)
(***************************************************************************)
EXTENDS StringProofs

-----------------------------------------------------------------------------
(* Numbers as digits. *)

LEMMA Powers == /\ 10^0 = 1 /\ 10^1 = 10 /\ 10^2 = 100
                /\ 10^3 = 1000 /\ 10^4 = 10000 /\ 10^5 = 100000
  OBVIOUS

LEMMA TwoDecimal ==
    ASSUME NEW n \in Nat, n <= 99
    PROVE  /\ Decimal(n, 2) \in Seq(Int) /\ Len(Decimal(n, 2)) = 2
           /\ Decimal(n, 2)[1] = 48 + (n \div 10) /\ Decimal(n, 2)[2] = 48 + (n % 10)
  <1>1. Decimal(n, 2) = [k \in 1..2 |-> 48 + ((n \div 10 ^ (2 - k)) % 10)]
    BY DEF Decimal, Zero
  <1>2. Decimal(n, 2)[1] = 48 + ((n \div 10) % 10) /\ Decimal(n, 2)[2] = 48 + ((n \div 1) % 10)
    BY <1>1, Powers
  <1>3. (n \div 10) % 10 = n \div 10 /\ n \div 1 = n
    OBVIOUS
  <1>4. \A k \in 1..2 : k = 1 \/ k = 2
    OBVIOUS
  <1>5. \A k \in 1..2 : Decimal(n, 2)[k] \in Int
    BY <1>2, <1>3, <1>4
  <1>6. Decimal(n, 2) = [k \in 1..2 |-> Decimal(n, 2)[k]]
    BY <1>1
  <1>7. Decimal(n, 2) \in [1..2 -> Int]
    BY <1>5, <1>6
  <1> QED
    BY <1>2, <1>3, <1>7, FunctionIsSeq

LEMMA FourDecimal ==
    ASSUME NEW n \in Nat, n <= 9999
    PROVE  /\ Decimal(n, 4) \in Seq(Int) /\ Len(Decimal(n, 4)) = 4
           /\ Decimal(n, 4)[1] = 48 + (n \div 1000)
           /\ Decimal(n, 4)[2] = 48 + ((n \div 100) % 10)
           /\ Decimal(n, 4)[3] = 48 + ((n \div 10) % 10)
           /\ Decimal(n, 4)[4] = 48 + (n % 10)
  <1>1. Decimal(n, 4) = [k \in 1..4 |-> 48 + ((n \div 10 ^ (4 - k)) % 10)]
    BY DEF Decimal, Zero
  <1>2. /\ Decimal(n, 4)[1] = 48 + ((n \div 1000) % 10)
        /\ Decimal(n, 4)[2] = 48 + ((n \div 100) % 10)
        /\ Decimal(n, 4)[3] = 48 + ((n \div 10) % 10)
        /\ Decimal(n, 4)[4] = 48 + ((n \div 1) % 10)
    BY <1>1, Powers
  <1>3. (n \div 1000) % 10 = n \div 1000 /\ n \div 1 = n
    OBVIOUS
  <1>4. \A k \in 1..4 : k = 1 \/ k = 2 \/ k = 3 \/ k = 4
    OBVIOUS
  <1>5. \A k \in 1..4 : Decimal(n, 4)[k] \in Int
    BY <1>2, <1>3, <1>4
  <1>6. Decimal(n, 4) = [k \in 1..4 |-> Decimal(n, 4)[k]]
    BY <1>1
  <1>7. Decimal(n, 4) \in [1..4 -> Int]
    BY <1>5, <1>6
  <1> DEFINE d == Decimal(n, 4)
             w == 4
  <1>8. d \in [1..w -> Int] /\ w \in Nat
    BY <1>7
  <1> HIDE DEF d, w
  <1>9. d \in Seq(Int) /\ Len(d) = w
    BY <1>8, FunctionIsSeq
  <1> QED
    BY <1>2, <1>3, <1>9 DEF d, w

LEMMA TwoLong ==
    ASSUME NEW n \in Nat, n <= 99
    PROVE  Decimal(n, 2) \in Seq(Int) /\ Len(Decimal(n, 2)) = 2
  BY TwoDecimal

LEMMA FourLong ==
    ASSUME NEW n \in Nat, n <= 9999
    PROVE  Decimal(n, 4) \in Seq(Int) /\ Len(Decimal(n, 4)) = 4
  BY FourDecimal

LEMMA SixDecimal ==
    ASSUME NEW n \in Nat, n <= 999999
    PROVE  /\ Decimal(n, 6) \in Seq(Int) /\ Len(Decimal(n, 6)) = 6
           /\ \A k \in 1..6 : Decimal(n, 6)[k] \in Digits
           /\ 100000 * (Decimal(n, 6)[1] - 48) + 10000 * (Decimal(n, 6)[2] - 48)
                + 1000 * (Decimal(n, 6)[3] - 48) + 100 * (Decimal(n, 6)[4] - 48)
                + 10 * (Decimal(n, 6)[5] - 48) + (Decimal(n, 6)[6] - 48) = n
  <1> DEFINE d == Decimal(n, 6)
  <1>1. d = [k \in 1..6 |-> 48 + ((n \div 10 ^ (6 - k)) % 10)]
    BY SMT DEF Decimal, Zero
  <1>2. /\ d[1] = 48 + ((n \div 100000) % 10) /\ d[2] = 48 + ((n \div 10000) % 10)
        /\ d[3] = 48 + ((n \div 1000) % 10) /\ d[4] = 48 + ((n \div 100) % 10)
        /\ d[5] = 48 + ((n \div 10) % 10) /\ d[6] = 48 + ((n \div 1) % 10)
    BY SMT, <1>1, Powers
  <1> HIDE DEF d
  <1>3. d = [k \in 1..6 |-> d[k]]
    BY SMTT(30), <1>1
  <1>4. n \div 1 = n
    BY SMT
  <1>5. 100000 * ((n \div 100000) % 10) + 10000 * ((n \div 10000) % 10)
           + 1000 * ((n \div 1000) % 10) + 100 * ((n \div 100) % 10)
           + 10 * ((n \div 10) % 10) + (n % 10) = n
    <2> DEFINE a == n \div 10
               b == n \div 100
               c == n \div 1000
               e10 == n \div 10000
               f == n \div 100000
    <2>1. a \in Int /\ n = 10 * a + (n % 10)
      BY SMTT(30)
    <2>2. b \in Int /\ a = 10 * b + (a % 10)
      BY SMTT(30)
    <2>3. c \in Int /\ b = 10 * c + (b % 10)
      BY SMTT(30)
    <2>4. e10 \in Int /\ c = 10 * e10 + (c % 10)
      BY SMTT(30)
    <2>5. f \in Int /\ e10 = 10 * f + (e10 % 10)
      BY SMTT(30)
    <2>6. f % 10 = f
      BY SMTT(30)
    <2>7. n % 10 \in Int /\ a % 10 \in Int /\ b % 10 \in Int /\ c % 10 \in Int
          /\ e10 % 10 \in Int
      BY SMTT(30)
    <2> HIDE DEF a, b, c, e10, f
    <2>8. n % 10 = n - 10 * a /\ a % 10 = a - 10 * b /\ b % 10 = b - 10 * c
          /\ c % 10 = c - 10 * e10 /\ e10 % 10 = e10 - 10 * f
      BY SMT, <2>1, <2>2, <2>3, <2>4, <2>5, <2>7
    <2>9. 100000 * (f % 10) + 10000 * (e10 % 10) + 1000 * (c % 10) + 100 * (b % 10)
             + 10 * (a % 10) + (n % 10) = n
      BY SMT, <2>1, <2>2, <2>3, <2>4, <2>5, <2>6, <2>8
    <2> QED
      BY <2>9 DEF a, b, c, e10, f
  <1>6. \A k \in 1..6 : k = 1 \/ k = 2 \/ k = 3 \/ k = 4 \/ k = 5 \/ k = 6
    BY SMT
  <1>7. /\ (n \div 100000) % 10 \in 0..9 /\ (n \div 10000) % 10 \in 0..9
        /\ (n \div 1000) % 10 \in 0..9 /\ (n \div 100) % 10 \in 0..9
        /\ (n \div 10) % 10 \in 0..9 /\ n % 10 \in 0..9
    BY SMT
  <1>8. \A k \in 1..6 : d[k] \in Digits
    BY SMT, <1>2, <1>4, <1>6, <1>7 DEF Digits
  <1>9. d \in [1..6 -> Int]
    BY SMT, <1>3, <1>8 DEF Digits
  <1>10. d \in Seq(Int) /\ Len(d) = 6
    <2> DEFINE w == 6
    <2>1. d \in [1..w -> Int] /\ w \in Nat
      BY SMT, <1>9
    <2> HIDE DEF w
    <2>2. d \in Seq(Int) /\ Len(d) = w
      BY SMT, <2>1, FunctionIsSeq
    <2> QED
      BY SMT, <2>2 DEF w
  <1>11. 100000 * (d[1] - 48) + 10000 * (d[2] - 48) + 1000 * (d[3] - 48) + 100 * (d[4] - 48)
            + 10 * (d[5] - 48) + (d[6] - 48) = n
    BY SMT, <1>2, <1>4, <1>5, <1>7
  <1> QED
    BY SMT, <1>8, <1>10, <1>11 DEF d

-----------------------------------------------------------------------------
(* What is read where a part of the text of a moment is written. *)

LEMMA ReadsParts ==
    ASSUME NEW a \in Seq(Int), NEW b \in Seq(Int), NEW i \in Int, Reads(i, a \o b)
    PROVE  Reads(i, a) /\ Reads(i + Len(a), b)
  <1>1. /\ Len(a) \in Nat /\ Len(b) \in Nat /\ Len(a \o b) = Len(a) + Len(b)
        /\ \A k \in 1..(Len(a) + Len(b)) :
              (a \o b)[k] = IF k <= Len(a) THEN a[k] ELSE b[k - Len(a)]
    BY ConcatProperties, LenProperties
  <1>2. \A k \in 1..(Len(a) + Len(b)) : At(i + k - 1) = (a \o b)[k]
    BY <1>1 DEF Reads
  <1>3. ASSUME NEW k \in 1..Len(a) PROVE At(i + k - 1) = a[k]
    <2>1. k \in 1..(Len(a) + Len(b)) /\ k <= Len(a)
      BY <1>1
    <2> QED
      BY <1>1, <1>2, <2>1
  <1>4. ASSUME NEW k \in 1..Len(b) PROVE At(i + Len(a) + k - 1) = b[k]
    <2> DEFINE h == k + Len(a)
    <2>1. h \in 1..(Len(a) + Len(b)) /\ ~(h <= Len(a)) /\ h - Len(a) = k
          /\ i + h - 1 = i + Len(a) + k - 1
      BY <1>1
    <2> HIDE DEF h
    <2>2. (a \o b)[h] = b[h - Len(a)]
      BY <1>1, <2>1
    <2>3. At(i + h - 1) = (a \o b)[h]
      BY <1>2, <2>1
    <2> QED
      BY <2>1, <2>2, <2>3
  <1> QED
    BY <1>3, <1>4 DEF Reads

LEMMA ReadsOneChar ==
    ASSUME NEW c \in Int, NEW i \in Int, Reads(i, <<c>>)
    PROVE  At(i) = c
  <1>1. Len(<<c>>) = 1 /\ <<c>>[1] = c /\ 1 \in 1..1 /\ i + 1 - 1 = i
    OBVIOUS
  <1> QED
    BY <1>1 DEF Reads

LEMMA TwoRead ==
    ASSUME NEW n \in Nat, n <= 99, NEW i \in Int, Reads(i, Decimal(n, 2))
    PROVE  IsDigit(i) /\ IsDigit(i + 1) /\ TwoDigit(i) = n
  <1>1. At(i) = 48 + (n \div 10) /\ At(i + 1) = 48 + (n % 10)
    <2>1. At(i + 1 - 1) = Decimal(n, 2)[1] /\ At(i + 2 - 1) = Decimal(n, 2)[2]
      BY TwoDecimal, 1 \in 1..2, 2 \in 1..2 DEF Reads
    <2>2. i + 1 - 1 = i /\ i + 2 - 1 = i + 1
      OBVIOUS
    <2> QED
      BY <2>1, <2>2, TwoDecimal
  <1>2. n \div 10 \in 0..9 /\ n % 10 \in 0..9 /\ 10 * (n \div 10) + (n % 10) = n
    OBVIOUS
  <1> QED
    BY <1>1, <1>2 DEF IsDigit, Digits, TwoDigit, Digit, Zero

LEMMA FourRead ==
    ASSUME NEW n \in Nat, n <= 9999, NEW i \in Int, Reads(i, Decimal(n, 4))
    PROVE  /\ IsDigit(i) /\ IsDigit(i + 1) /\ IsDigit(i + 2) /\ IsDigit(i + 3)
           /\ 100 * TwoDigit(i) + TwoDigit(i + 2) = n
  <1>1. /\ At(i) = 48 + (n \div 1000) /\ At(i + 1) = 48 + ((n \div 100) % 10)
        /\ At(i + 2) = 48 + ((n \div 10) % 10) /\ At(i + 3) = 48 + (n % 10)
    <2>1. /\ At(i + 1 - 1) = Decimal(n, 4)[1] /\ At(i + 2 - 1) = Decimal(n, 4)[2]
          /\ At(i + 3 - 1) = Decimal(n, 4)[3] /\ At(i + 4 - 1) = Decimal(n, 4)[4]
      <3> DEFINE d == Decimal(n, 4)
      <3>a. Len(d) = 4
        BY FourDecimal
      <3> HIDE DEF d
      <3>1. 1 \in 1..Len(d) /\ 2 \in 1..Len(d) /\ 3 \in 1..Len(d) /\ 4 \in 1..Len(d)
        BY <3>a
      <3>2. \A k \in 1..Len(d) : At(i + k - 1) = d[k]
        BY DEF d, Reads
      <3> QED
        BY <3>1, <3>2 DEF d
    <2>2. i + 1 - 1 = i /\ i + 2 - 1 = i + 1 /\ i + 3 - 1 = i + 2 /\ i + 4 - 1 = i + 3
      OBVIOUS
    <2> QED
      BY <2>1, <2>2, FourDecimal
  <1>2. /\ n \div 1000 \in 0..9 /\ (n \div 100) % 10 \in 0..9 /\ (n \div 10) % 10 \in 0..9
        /\ n % 10 \in 0..9
        /\ 100 * (10 * (n \div 1000) + ((n \div 100) % 10))
              + (10 * ((n \div 10) % 10) + (n % 10)) = n
    OBVIOUS
  <1>3. i + 2 + 1 = i + 3
    OBVIOUS
  <1> QED
    BY <1>1, <1>2, <1>3 DEF IsDigit, Digits, TwoDigit, Digit, Zero

(* Six digits are worth what they are read as. *)
LEMMA SixValue ==
    ASSUME NEW d, d \in [1..6 -> Int]
    PROVE  ValueOf(d) = 100000 * (d[1] - 48) + 10000 * (d[2] - 48) + 1000 * (d[3] - 48)
                           + 100 * (d[4] - 48) + 10 * (d[5] - 48) + (d[6] - 48)
  <1>1. Len(d) = 6
    BY SMT, FunctionIsSeq
  <1> DEFINE w == 6
  <1>2. PICK f : Values(f, d, w) /\ ValueOf(d) = f[w]
    <2>1. Len(d) = w /\ w \in Nat
      BY SMT, <1>1
    <2> HIDE DEF w
    <2> QED
      BY SMT, <2>1, ValueIs
  <1>3. /\ f[0] = 0 /\ f[1] = 10 * f[0] + d[1] - 48 /\ f[2] = 10 * f[1] + d[2] - 48
        /\ f[3] = 10 * f[2] + d[3] - 48 /\ f[4] = 10 * f[3] + d[4] - 48
        /\ f[5] = 10 * f[4] + d[5] - 48 /\ f[6] = 10 * f[5] + d[6] - 48
    BY SMT, <1>2 DEF Values, Zero
  <1>4. /\ d[1] \in Int /\ d[2] \in Int /\ d[3] \in Int /\ d[4] \in Int /\ d[5] \in Int
        /\ d[6] \in Int
    BY SMT
  <1> QED
    BY SMT, <1>2, <1>3, <1>4

LEMMA SixRead ==
    ASSUME NEW n \in Nat, n <= 999999, NEW i \in Int, Reads(i + 1, Decimal(n, 6))
    PROVE  /\ \A k \in 1..6 : IsDigit(i + k)
           /\ ValueOf([k \in 1..6 |-> At(i + k)]) = n
  <1> DEFINE d == Decimal(n, 6)
             w == 6
  <1>1. Len(d) = w /\ \A k \in 1..w : d[k] \in Digits
    BY SMT, SixDecimal
  <1>2. ASSUME NEW k \in 1..w PROVE At(i + k) = d[k]
    <2>1. \A j \in 1..Len(d) : At((i + 1) + j - 1) = d[j]
      <3> HIDE DEF d, w
      <3> QED
        BY SMT DEF Reads, d
    <2>2. k \in 1..Len(d)
      BY SMT, <1>1
    <2>3. (i + 1) + k - 1 = i + k
      BY SMT
    <2> HIDE DEF d, w
    <2> QED
      BY SMT, <2>1, <2>2, <2>3
  <1>3. d = [k \in 1..w |-> d[k]]
    BY SMT DEF Decimal
  <1>4. d = [k \in 1..w |-> At(i + k)] /\ d \in [1..w -> Int]
    <2> HIDE DEF d, w
    <2> QED
      BY SMT, <1>1, <1>2, <1>3 DEF Digits
  <1>5. ValueOf(d) = n
    <2>1. d \in [1..6 -> Int]
      BY SMT, <1>4
    <2>2. 100000 * (d[1] - 48) + 10000 * (d[2] - 48) + 1000 * (d[3] - 48)
            + 100 * (d[4] - 48) + 10 * (d[5] - 48) + (d[6] - 48) = n
      BY SMT, SixDecimal
    <2> HIDE DEF d
    <2> QED
      BY SMT, <2>1, <2>2, SixValue
  <1>6. \A k \in 1..w : IsDigit(i + k)
    BY SMT, <1>1, <1>2 DEF IsDigit
  <1>7. ValueOf([k \in 1..w |-> At(i + k)]) = n
    <2> HIDE DEF d, w
    <2> QED
      BY SMT, <1>4, <1>5
  <1> QED
    BY SMT, <1>6, <1>7


LEMMA Joined ==
    ASSUME NEW a \in Seq(Int), NEW b \in Seq(Int)
    PROVE  a \o b \in Seq(Int) /\ Len(a \o b) = Len(a) + Len(b)
  BY ConcatProperties

LEMMA OneChar ==
    ASSUME NEW c \in Int
    PROVE  <<c>> \in Seq(Int) /\ Len(<<c>>) = 1
  OBVIOUS

LEMMA Named ==
    /\ Quote \in Int /\ Plus \in Int /\ Minus \in Int /\ Dot \in Int /\ Colon \in Int
    /\ UpperZ \in Int
    /\ Colon \notin Digits /\ Minus \notin Digits /\ Dot \notin Digits /\ Quote \notin Digits
    /\ Plus \notin Digits /\ UpperZ \notin Digits
    /\ Quote # Dot /\ Plus # Dot /\ Minus # Dot /\ UpperZ # Dot /\ Colon # Quote
    /\ Quote \notin {UpperZ, 122, Plus, Minus} /\ UpperZ \notin {Plus, Minus}
    /\ Plus \notin {UpperZ, 122} /\ Minus \notin {UpperZ, 122} /\ Plus # Minus
    /\ Quote \notin {32, 84, 116}
  BY DEF Quote, Plus, Minus, Dot, Colon, UpperZ, Digits

LEMMA DateFields ==
    ASSUME NEW d, ValidDate(d), d \in Int \X Int \X Int
    PROVE  d[1] \in Nat /\ d[1] <= 9999 /\ d[2] \in Nat /\ d[2] <= 99 /\ d[3] \in Nat /\ d[3] <= 99
  <1>1. d[1] \in Int /\ d[2] \in Int /\ d[3] \in Int
    OBVIOUS
  <1>2. 1 <= d[1] /\ d[1] <= 9999 /\ d[2] \in 1..12 /\ d[3] \in 1..DaysIn(d[1], d[2])
    BY DEF ValidDate
  <1>3. DaysIn(d[1], d[2]) \in 28..31
    BY DEF DaysIn
  <1> DEFINE days == DaysIn(d[1], d[2])
  <1> HIDE DEF days
  <1>4. days \in 28..31 /\ d[3] \in 1..days
    BY <1>2, <1>3 DEF days
  <1> QED
    BY SMT, <1>1, <1>2, <1>4

(* A text that goes on with a character, two digits, the character again,   *)
(* and two digits, as dates and clocks do.                                  *)
GoesOn(a, c, m, n) == a \o <<c>> \o Decimal(m, 2) \o <<c>> \o Decimal(n, 2)

LEMMA PeelChar ==
    ASSUME NEW a \in Seq(Int), NEW c \in Int
    PROVE  /\ a \o <<c>> \in Seq(Int) /\ Len(a \o <<c>>) = Len(a) + 1
           /\ \A i \in Int : Reads(i, a \o <<c>>) => Reads(i, a) /\ At(i + Len(a)) = c
  <1> DEFINE w == <<c>>
  <1>1. w \in Seq(Int) /\ Len(w) = 1
    OBVIOUS
  <1>2. \A i \in Int : Reads(i, w) => At(i) = c
    BY ReadsOneChar
  <1> HIDE DEF w
  <1>3. a \o w \in Seq(Int) /\ Len(a \o w) = Len(a) + 1
    BY <1>1, Joined
  <1>4. ASSUME NEW i \in Int, Reads(i, a \o w) PROVE Reads(i, a) /\ At(i + Len(a)) = c
    <2>1. Reads(i, a) /\ Reads(i + Len(a), w)
      BY <1>1, <1>4, ReadsParts
    <2>2. i + Len(a) \in Int
      BY LenProperties
    <2> QED
      BY <1>2, <2>1, <2>2
  <1> QED
    BY <1>3, <1>4 DEF w

LEMMA PeelTwo ==
    ASSUME NEW a \in Seq(Int), NEW n \in Nat, n <= 99
    PROVE  /\ a \o Decimal(n, 2) \in Seq(Int) /\ Len(a \o Decimal(n, 2)) = Len(a) + 2
           /\ \A i \in Int : Reads(i, a \o Decimal(n, 2)) =>
                 Reads(i, a) /\ Reads(i + Len(a), Decimal(n, 2))
  <1> DEFINE w == Decimal(n, 2)
  <1>1. w \in Seq(Int) /\ Len(w) = 2
    BY TwoLong
  <1> HIDE DEF w
  <1>2. a \o w \in Seq(Int) /\ Len(a \o w) = Len(a) + 2
    BY <1>1, Joined
  <1>3. ASSUME NEW i \in Int, Reads(i, a \o w) PROVE Reads(i, a) /\ Reads(i + Len(a), w)
    BY <1>1, <1>3, ReadsParts
  <1> QED
    BY <1>2, <1>3 DEF w

LEMMA GoesOnReads ==
    ASSUME NEW a \in Seq(Int), NEW c \in Int, NEW m \in Nat, m <= 99, NEW n \in Nat, n <= 99
    PROVE  /\ GoesOn(a, c, m, n) \in Seq(Int) /\ Len(GoesOn(a, c, m, n)) = Len(a) + 6
           /\ \A i \in Int : Reads(i, GoesOn(a, c, m, n)) =>
                 /\ Reads(i, a) /\ At(i + Len(a)) = c
                 /\ Reads(i + Len(a) + 1, Decimal(m, 2)) /\ At(i + Len(a) + 3) = c
                 /\ Reads(i + Len(a) + 4, Decimal(n, 2))
  <1> DEFINE p == a \o <<c>>
             q == p \o Decimal(m, 2)
             r == q \o <<c>>
             s == r \o Decimal(n, 2)
             l == Len(a)
  <1>1. /\ p \in Seq(Int) /\ Len(p) = l + 1 /\ l \in Nat
        /\ \A i \in Int : Reads(i, p) => Reads(i, a) /\ At(i + l) = c
    BY PeelChar, LenProperties
  <1>2. s = GoesOn(a, c, m, n)
    BY DEF GoesOn
  <1> HIDE DEF p, l
  <1>3. /\ q \in Seq(Int) /\ Len(q) = Len(p) + 2
        /\ \A i \in Int : Reads(i, q) => Reads(i, p) /\ Reads(i + Len(p), Decimal(m, 2))
    BY <1>1, PeelTwo
  <1> HIDE DEF q
  <1>4. /\ r \in Seq(Int) /\ Len(r) = Len(q) + 1
        /\ \A i \in Int : Reads(i, r) => Reads(i, q) /\ At(i + Len(q)) = c
    BY <1>3, PeelChar
  <1> HIDE DEF r
  <1>5. /\ s \in Seq(Int) /\ Len(s) = Len(r) + 2
        /\ \A i \in Int : Reads(i, s) => Reads(i, r) /\ Reads(i + Len(r), Decimal(n, 2))
    BY <1>4, PeelTwo
  <1> HIDE DEF s
  <1>6. Len(p) = l + 1 /\ Len(q) = l + 3 /\ Len(r) = l + 4 /\ Len(s) = l + 6
    BY <1>1, <1>3, <1>4, <1>5
  <1>7. ASSUME NEW i \in Int, Reads(i, s)
        PROVE  /\ Reads(i, a) /\ At(i + l) = c /\ Reads(i + l + 1, Decimal(m, 2))
               /\ At(i + l + 3) = c /\ Reads(i + l + 4, Decimal(n, 2))
    <2>1. /\ i + (l + 1) = i + l + 1 /\ i + (l + 3) = i + l + 3 /\ i + (l + 4) = i + l + 4
      BY <1>1
    <2> QED
      BY <1>1, <1>3, <1>4, <1>5, <1>6, <1>7, <2>1
  <1> QED
    BY <1>2, <1>5, <1>6, <1>7 DEF l

LEMMA DateIsText ==
    ASSUME NEW d, ValidDate(d), d \in Int \X Int \X Int
    PROVE  EncodeDate(d) \in Seq(Int) /\ Len(EncodeDate(d)) = 10
  <1>1. d[1] \in Nat /\ d[1] <= 9999 /\ d[2] \in Nat /\ d[2] <= 99 /\ d[3] \in Nat /\ d[3] <= 99
    BY DateFields
  <1>2. Decimal(d[1], 4) \in Seq(Int) /\ Len(Decimal(d[1], 4)) = 4
    BY <1>1, FourLong
  <1>3. Minus \in Int
    BY Named
  <1>4. EncodeDate(d) = GoesOn(Decimal(d[1], 4), Minus, d[2], d[3])
    BY DEF EncodeDate, GoesOn
  <1> DEFINE year == Decimal(d[1], 4)
             month == d[2]
             day == d[3]
  <1>5. /\ year \in Seq(Int) /\ Len(year) = 4
        /\ month \in Nat /\ month <= 99 /\ day \in Nat /\ day <= 99
    BY <1>1, <1>2
  <1> HIDE DEF year, month, day
  <1>6. /\ GoesOn(year, Minus, month, day) \in Seq(Int)
        /\ Len(GoesOn(year, Minus, month, day)) = Len(year) + 6
    BY <1>3, <1>5, GoesOnReads
  <1>7. Len(GoesOn(year, Minus, month, day)) = 10
    BY <1>5, <1>6
  <1>8. EncodeDate(d) = GoesOn(year, Minus, month, day)
    BY <1>4 DEF year, month, day
  <1> QED
    BY <1>6, <1>7, <1>8

LEMMA DateHasForm ==
    ASSUME NEW i \in Int,
           IsDigit(i), IsDigit(i + 1), IsDigit(i + 2), IsDigit(i + 3), At(i + 4) = Minus,
           IsDigit(i + 5), IsDigit(i + 6), At(i + 7) = Minus, IsDigit(i + 8), IsDigit(i + 9)
    PROVE  HasForm(i, DateForm)
  <1> DEFINE form == DateForm
  <1>1. /\ Len(form) = 10 /\ form[1] = 57 /\ form[2] = 57 /\ form[3] = 57 /\ form[4] = 57
        /\ form[5] = Minus /\ form[6] = 57 /\ form[7] = 57 /\ form[8] = Minus
        /\ form[9] = 57 /\ form[10] = 57 /\ Minus # 57
    BY DEF DateForm, Minus
  <1> HIDE DEF form
  <1> SUFFICES ASSUME NEW k \in 1..10
               PROVE  IF form[k] = 57 THEN IsDigit(i + k - 1) ELSE At(i + k - 1) = form[k]
    BY <1>1 DEF HasForm, form
  <1>2. /\ i + 1 - 1 = i /\ i + 2 - 1 = i + 1 /\ i + 3 - 1 = i + 2 /\ i + 4 - 1 = i + 3
        /\ i + 5 - 1 = i + 4 /\ i + 6 - 1 = i + 5 /\ i + 7 - 1 = i + 6 /\ i + 8 - 1 = i + 7
        /\ i + 9 - 1 = i + 8 /\ i + 10 - 1 = i + 9
    OBVIOUS
  <1>3. \/ k = 1 \/ k = 2 \/ k = 3 \/ k = 4 \/ k = 5 \/ k = 6 \/ k = 7 \/ k = 8
        \/ k = 9 \/ k = 10
    OBVIOUS
  <1> QED
    BY <1>1, <1>2, <1>3

LEMMA DateRead ==
    ASSUME NEW d, ValidDate(d), d \in Int \X Int \X Int, NEW i \in Int,
           Reads(i, EncodeDate(d))
    PROVE  HasForm(i, DateForm) /\ DateAt(i) = d
  <1>1. d[1] \in Nat /\ d[1] <= 9999 /\ d[2] \in Nat /\ d[2] <= 99 /\ d[3] \in Nat /\ d[3] <= 99
    BY DateFields
  <1>2. /\ Reads(i, Decimal(d[1], 4)) /\ At(i + 4) = Minus
        /\ Reads(i + 5, Decimal(d[2], 2)) /\ At(i + 7) = Minus
        /\ Reads(i + 8, Decimal(d[3], 2))
    <2> DEFINE year == Decimal(d[1], 4)
               month == d[2]
               day == d[3]
    <2>1. /\ year \in Seq(Int) /\ Len(year) = 4
          /\ month \in Nat /\ month <= 99 /\ day \in Nat /\ day <= 99 /\ Minus \in Int
      BY <1>1, FourLong, Named
    <2>2. Reads(i, GoesOn(year, Minus, month, day))
      BY DEF EncodeDate, GoesOn
    <2> HIDE DEF year, month, day
    <2>3. /\ Reads(i, year) /\ At(i + Len(year)) = Minus
          /\ Reads(i + Len(year) + 1, Decimal(month, 2)) /\ At(i + Len(year) + 3) = Minus
          /\ Reads(i + Len(year) + 4, Decimal(day, 2))
      BY <2>1, <2>2, GoesOnReads
    <2>4. /\ i + Len(year) = i + 4 /\ i + Len(year) + 1 = i + 5
          /\ i + Len(year) + 3 = i + 7 /\ i + Len(year) + 4 = i + 8
      BY <2>1
    <2> QED
      BY <2>3, <2>4 DEF year, month, day
  <1>3. /\ IsDigit(i) /\ IsDigit(i + 1) /\ IsDigit(i + 2) /\ IsDigit(i + 3)
        /\ 100 * TwoDigit(i) + TwoDigit(i + 2) = d[1]
    BY <1>1, <1>2, FourRead
  <1>4. /\ IsDigit(i + 5) /\ IsDigit(i + 6) /\ TwoDigit(i + 5) = d[2]
        /\ IsDigit(i + 8) /\ IsDigit(i + 9) /\ TwoDigit(i + 8) = d[3]
    <2>1. i + 5 \in Int /\ i + 8 \in Int /\ i + 5 + 1 = i + 6 /\ i + 8 + 1 = i + 9
      OBVIOUS
    <2> QED
      BY <1>1, <1>2, <2>1, TwoRead
  <1>5. DateAt(i) = d
    BY <1>3, <1>4 DEF DateAt
  <1>6. HasForm(i, DateForm)
    BY <1>2, <1>3, <1>4, DateHasForm
  <1> QED
    BY <1>5, <1>6

-----------------------------------------------------------------------------
LEMMA TimeFields ==
    ASSUME NEW t, ValidTime(t), t \in Int \X Int \X Int \X Int
    PROVE  /\ t[1] \in Nat /\ t[1] <= 99 /\ t[2] \in Nat /\ t[2] <= 99 /\ t[3] \in Nat /\ t[3] <= 99
           /\ t[4] \in Nat /\ t[4] <= 999999
  BY SMT DEF ValidTime

(* What a clock at i is read as. *)
ClockAt(t, i) ==
    /\ IsDigit(i) /\ IsDigit(i + 1) /\ At(i + 2) = Colon
    /\ IsDigit(i + 3) /\ IsDigit(i + 4) /\ At(i + 5) = Colon
    /\ IsDigit(i + 6) /\ IsDigit(i + 7)
    /\ TwoDigit(i) = t[1] /\ TwoDigit(i + 3) = t[2] /\ TwoDigit(i + 6) = t[3]

LEMMA TimeHasForm ==
    ASSUME NEW i \in Int,
           IsDigit(i), IsDigit(i + 1), At(i + 2) = Colon, IsDigit(i + 3), IsDigit(i + 4),
           At(i + 5) = Colon, IsDigit(i + 6), IsDigit(i + 7)
    PROVE  HasForm(i, TimeForm)
  <1> DEFINE form == TimeForm
  <1>1. /\ Len(form) = 8 /\ form[1] = 57 /\ form[2] = 57 /\ form[3] = Colon /\ form[4] = 57
        /\ form[5] = 57 /\ form[6] = Colon /\ form[7] = 57 /\ form[8] = 57 /\ Colon # 57
    BY DEF TimeForm, Colon
  <1> HIDE DEF form
  <1> SUFFICES ASSUME NEW k \in 1..8
               PROVE  IF form[k] = 57 THEN IsDigit(i + k - 1) ELSE At(i + k - 1) = form[k]
    BY <1>1 DEF HasForm, form
  <1>2. /\ i + 1 - 1 = i /\ i + 2 - 1 = i + 1 /\ i + 3 - 1 = i + 2 /\ i + 4 - 1 = i + 3
        /\ i + 5 - 1 = i + 4 /\ i + 6 - 1 = i + 5 /\ i + 7 - 1 = i + 6 /\ i + 8 - 1 = i + 7
    OBVIOUS
  <1>3. k = 1 \/ k = 2 \/ k = 3 \/ k = 4 \/ k = 5 \/ k = 6 \/ k = 7 \/ k = 8
    OBVIOUS
  <1> QED
    BY <1>1, <1>2, <1>3

LEMMA ClockRead ==
    ASSUME NEW t, ValidTime(t), t \in Int \X Int \X Int \X Int, NEW i \in Int,
           Reads(i, Decimal(t[1], 2)), At(i + 2) = Colon, Reads(i + 3, Decimal(t[2], 2)),
           At(i + 5) = Colon, Reads(i + 6, Decimal(t[3], 2))
    PROVE  ClockAt(t, i) /\ HasForm(i, TimeForm)
  <1>1. t[1] \in Nat /\ t[1] <= 99 /\ t[2] \in Nat /\ t[2] <= 99 /\ t[3] \in Nat /\ t[3] <= 99
    BY TimeFields
  <1>2. /\ IsDigit(i) /\ IsDigit(i + 1) /\ TwoDigit(i) = t[1]
        /\ IsDigit(i + 3) /\ IsDigit(i + 4) /\ TwoDigit(i + 3) = t[2]
        /\ IsDigit(i + 6) /\ IsDigit(i + 7) /\ TwoDigit(i + 6) = t[3]
    <2>1. i + 3 \in Int /\ i + 6 \in Int /\ i + 3 + 1 = i + 4 /\ i + 6 + 1 = i + 7
      OBVIOUS
    <2> QED
      BY <1>1, <2>1, TwoRead
  <1>3. HasForm(i, TimeForm)
    BY <1>2, TimeHasForm
  <1> QED
    BY <1>2, <1>3 DEF ClockAt


-----------------------------------------------------------------------------
(* Microseconds. *)

(* A character and what follows it. *)
LEMMA FirstChar ==
    ASSUME NEW c \in Int, NEW d \in Seq(Int)
    PROVE  /\ <<c>> \o d \in Seq(Int) /\ Len(<<c>> \o d) = 1 + Len(d)
           /\ \A i \in Int : Reads(i, <<c>> \o d) => At(i) = c /\ Reads(i + 1, d)
  <1> DEFINE w == <<c>>
  <1>1. w \in Seq(Int) /\ Len(w) = 1 /\ \A i \in Int : Reads(i, w) => At(i) = c
    BY OneChar, ReadsOneChar
  <1> HIDE DEF w
  <1>2. w \o d \in Seq(Int) /\ Len(w \o d) = Len(w) + Len(d)
    BY <1>1, Joined
  <1>3. ASSUME NEW i \in Int, Reads(i, w \o d) PROVE At(i) = c /\ Reads(i + 1, d)
    <2>1. Reads(i, w) /\ Reads(i + Len(w), d)
      BY <1>1, <1>3, ReadsParts
    <2> QED
      BY <1>1, <2>1
  <1> QED
    BY <1>1, <1>2, <1>3 DEF w

LEMMA MicrosecondsWritten ==
    ASSUME NEW f \in Nat, f <= 999999
    PROVE  /\ EncodeMicroseconds(f) \in Seq(Int)
           /\ Len(EncodeMicroseconds(f)) = IF f = 0 THEN 0 ELSE 7
           /\ f # 0 => \A i \in Int : Reads(i, EncodeMicroseconds(f)) =>
                          At(i) = Dot /\ Reads(i + 1, Decimal(f, 6))
  <1> DEFINE digits == Decimal(f, 6)
  <1>1. digits \in Seq(Int) /\ Len(digits) = 6 /\ Dot \in Int
    BY SMT, SixDecimal, Named
  <1>2. EncodeMicroseconds(f) = IF f > 0 THEN <<Dot>> \o digits ELSE <<>>
    BY SMT DEF EncodeMicroseconds
  <1> HIDE DEF digits
  <1>3. /\ <<Dot>> \o digits \in Seq(Int) /\ Len(<<Dot>> \o digits) = 7
        /\ \A i \in Int : Reads(i, <<Dot>> \o digits) => At(i) = Dot /\ Reads(i + 1, digits)
    <2>1. /\ <<Dot>> \o digits \in Seq(Int) /\ Len(<<Dot>> \o digits) = 1 + Len(digits)
          /\ \A i \in Int : Reads(i, <<Dot>> \o digits) => At(i) = Dot /\ Reads(i + 1, digits)
      BY ONLY <1>1, FirstChar
    <2> QED
      BY SMT, <1>1, <2>1
  <1>4. CASE f = 0
    BY SMT, <1>2, <1>4
  <1>5. CASE f # 0
    <2>1. EncodeMicroseconds(f) = <<Dot>> \o digits
      BY SMT, <1>2, <1>5
    <2> QED
      BY SMT, <1>3, <1>5, <2>1 DEF digits
  <1> QED
    BY SMT, <1>4, <1>5

(* The digits end where they are known to. *)
LEMMA DigitsEndAt ==
    ASSUME input \in Inputs, NEW i \in 1..End, NEW j \in i..End,
           \A k \in i..(j - 1) : IsDigit(k), ~IsDigit(j)
    PROVE  AfterDigits(i) = j
  <1> DEFINE a == AfterDigits(i)
  <1>1. a \in i..End /\ ~IsDigit(a) /\ \A k \in i..(a - 1) : IsDigit(k)
    BY DigitsEnd
  <1>2. i \in Int /\ End \in Int
    BY TextFacts
  <1> HIDE DEF a
  <1>3. ~(a < j)
    <2> SUFFICES ASSUME a < j PROVE FALSE
      OBVIOUS
    <2>1. a \in i..(j - 1)
      BY <1>1, <1>2
    <2> QED
      BY <1>1, <2>1
  <1>4. ~(j < a)
    <2> SUFFICES ASSUME j < a PROVE FALSE
      OBVIOUS
    <2>1. j \in i..(a - 1)
      BY <1>1, <1>2
    <2> QED
      BY <1>1, <2>1
  <1>5. a = j
    BY <1>1, <1>2, <1>3, <1>4
  <1> QED
    BY <1>5 DEF a

LEMMA MicrosecondsRead ==
    ASSUME input \in Inputs, NEW f \in Nat, f <= 999999, NEW i \in 1..End,
           Reads(i, EncodeMicroseconds(f)),
           At(i + Len(EncodeMicroseconds(f))) \notin Digits \cup {Dot, NUL}
    PROVE  /\ AfterFraction(i) = i + Len(EncodeMicroseconds(f))
           /\ (IF HasFraction(i) THEN Fraction(i) ELSE 0) = f
  <1>1. i \in Int /\ End \in Nat /\ \A k : At(k) # NUL => k \in 1..Len(Text) /\ k < End
    BY SMT, TextFacts DEF End
  <1>2. CASE f = 0
    <2>1. Len(EncodeMicroseconds(f)) = 0 /\ i + 0 = i
      BY SMT, <1>1, <1>2, MicrosecondsWritten
    <2>2. At(i) # Dot
      BY SMT, <1>1, <2>1
    <2> QED
      BY SMT, <1>2, <2>1, <2>2 DEF HasFraction, AfterFraction
  <1>3. CASE f # 0
    <2>1. Len(EncodeMicroseconds(f)) = 7 /\ At(i) = Dot /\ Reads(i + 1, Decimal(f, 6))
      BY SMT, <1>1, <1>3, MicrosecondsWritten
    <2>2. (\A k \in 1..6 : IsDigit(i + k)) /\ ValueOf([k \in 1..6 |-> At(i + k)]) = f
      BY SMT, <1>1, <2>1, SixRead
    <2>3. ~IsDigit(i + 7) /\ At(i + 7) # NUL
      BY SMT, <2>1 DEF IsDigit
    <2>4. AfterDigits(i + 1) = i + 7
      <3>1. i + 7 < End /\ i + 1 \in 1..End /\ i + 7 \in (i + 1)..End
        BY SMT, <1>1, <2>3
      <3>2. ASSUME NEW k \in (i + 1)..((i + 7) - 1) PROVE IsDigit(k)
        <4>1. k - i \in 1..6 /\ i + (k - i) = k
          BY SMT, <1>1
        <4> QED
          BY SMT, <2>2, <4>1
      <3> DEFINE a == i + 1
                 b == i + 7
      <3>3. a \in 1..End /\ b \in a..End /\ (\A k \in a..(b - 1) : IsDigit(k)) /\ ~IsDigit(b)
        BY SMT, <2>3, <3>1, <3>2
      <3> HIDE DEF a, b
      <3>4. AfterDigits(a) = b
        BY SMT, <3>3, DigitsEndAt
      <3> QED
        BY SMT, <3>4 DEF a, b
    <2>5. HasFraction(i) /\ AfterFraction(i) = i + 7
      BY SMT, <2>1, <2>2, <2>4 DEF HasFraction, AfterFraction
    <2>6. Fraction(i) = f
      <3>1. \A k \in 1..6 : i + k < i + 7
        BY SMT, <1>1
      <3>2. [k \in 1..6 |-> IF i + k < AfterFraction(i) THEN At(i + k) ELSE Zero]
               = [k \in 1..6 |-> At(i + k)]
        BY SMT, <2>5, <3>1
      <3> QED
        BY SMT, <2>2, <3>2 DEF Fraction
    <2> QED
      BY SMT, <2>1, <2>5, <2>6
  <1> QED
    BY SMT, <1>2, <1>3


-----------------------------------------------------------------------------
(* Offsets from UTC. *)

Size(o) == IF o < 0 THEN -o ELSE o
Hours(o) == ((Size(o) \div 60) \div 60) % 24
Minutes(o) == (Size(o) \div 60) % 60

(* The offset without its seconds. *)
Whole(o) == IF o < 0 THEN -((-o) - ((-o) % 60)) ELSE o - (o % 60)

LEMMA OffsetParts ==
    ASSUME NEW o \in Int, -86400 < o, o < 86400
    PROVE  /\ Hours(o) \in Nat /\ Hours(o) <= 99 /\ Minutes(o) \in Nat /\ Minutes(o) <= 99
           /\ Hours(o) * 3600 + Minutes(o) * 60 = IF o < 0 THEN -Whole(o) ELSE Whole(o)
  <1> DEFINE z == Size(o)
             q == z \div 60
             r == z % 60
             h == q \div 60
             m == q % 60
  <1>1. z \in Nat /\ z < 86400 /\ Whole(o) = IF o < 0 THEN -(z - r) ELSE z - r
    BY SMT DEF Size, Whole
  <1> HIDE DEF z
  <1>2. q \in Nat /\ r \in 0..59 /\ z = 60 * q + r
    BY SMT, <1>1
  <1>3. q < 1440
    BY SMT, <1>1, <1>2
  <1> HIDE DEF q, r
  <1>4. h \in 0..23 /\ m \in 0..59 /\ q = 60 * h + m
    BY SMT, <1>2, <1>3
  <1> HIDE DEF m
  <1>5. h % 24 = h
    BY SMT, <1>4
  <1>6. Hours(o) = h /\ Minutes(o) = m
    BY SMT, <1>5 DEF Hours, Minutes, m, q, z
  <1> HIDE DEF h
  <1>7. h * 3600 + m * 60 = z - r
    BY SMT, <1>1, <1>2, <1>4
  <1>8. z - r \in Int
    BY SMT, <1>1, <1>2
  <1> QED
    BY SMT, <1>1, <1>4, <1>6, <1>7, <1>8

LEMMA OffsetText ==
    ASSUME NEW c \in Int, NEW g \in Nat, g <= 99, NEW k \in Nat, k <= 99
    PROVE  LET s == <<c>> \o Decimal(g, 2) \o <<Colon>> \o Decimal(k, 2)
           IN  /\ s \in Seq(Int) /\ Len(s) = 6
               /\ \A i \in Int : Reads(i, s) =>
                     /\ At(i) = c /\ Reads(i + 1, Decimal(g, 2)) /\ At(i + 3) = Colon
                     /\ Reads(i + 4, Decimal(k, 2))
  <1> DEFINE p == <<c>>
             q == p \o Decimal(g, 2)
             r == q \o <<Colon>>
             s == r \o Decimal(k, 2)
  <1>1. /\ p \in Seq(Int) /\ Len(p) = 1 /\ \A i \in Int : Reads(i, p) => At(i) = c
    BY OneChar, ReadsOneChar
  <1> HIDE DEF p
  <1>2. /\ q \in Seq(Int) /\ Len(q) = Len(p) + 2
        /\ \A i \in Int : Reads(i, q) => Reads(i, p) /\ Reads(i + Len(p), Decimal(g, 2))
    BY <1>1, PeelTwo
  <1> HIDE DEF q
  <1>3. /\ r \in Seq(Int) /\ Len(r) = Len(q) + 1
        /\ \A i \in Int : Reads(i, r) => Reads(i, q) /\ At(i + Len(q)) = Colon
    BY <1>2, Named, PeelChar
  <1> HIDE DEF r
  <1>4. /\ s \in Seq(Int) /\ Len(s) = Len(r) + 2
        /\ \A i \in Int : Reads(i, s) => Reads(i, r) /\ Reads(i + Len(r), Decimal(k, 2))
    BY <1>3, PeelTwo
  <1>5. s = <<c>> \o Decimal(g, 2) \o <<Colon>> \o Decimal(k, 2)
    BY DEF s, r, q, p
  <1> HIDE DEF s
  <1>6. Len(p) = 1 /\ Len(q) = 3 /\ Len(r) = 4 /\ Len(s) = 6
    BY <1>1, <1>2, <1>3, <1>4
  <1>7. ASSUME NEW i \in Int, Reads(i, s)
        PROVE  /\ At(i) = c /\ Reads(i + 1, Decimal(g, 2)) /\ At(i + 3) = Colon
               /\ Reads(i + 4, Decimal(k, 2))
    BY <1>1, <1>2, <1>3, <1>4, <1>6, <1>7
  <1> QED
    BY <1>4, <1>5, <1>6, <1>7

LEMMA OffsetWritten ==
    ASSUME NEW o \in Int, -86400 < o, o < 86400
    PROVE  /\ EncodeOffset(o) \in Seq(Int)
           /\ o = 0 => /\ Len(EncodeOffset(o)) = 1
                       /\ \A i \in Int : Reads(i, EncodeOffset(o)) => At(i) = UpperZ
           /\ o # 0 => /\ Len(EncodeOffset(o)) = 6
                       /\ \A i \in Int : Reads(i, EncodeOffset(o)) =>
                             /\ At(i) = (IF o < 0 THEN Minus ELSE Plus)
                             /\ Reads(i + 1, Decimal(Hours(o), 2)) /\ At(i + 3) = Colon
                             /\ Reads(i + 4, Decimal(Minutes(o), 2))
  <1> DEFINE c == IF o < 0 THEN Minus ELSE Plus
             g == Hours(o)
             k == Minutes(o)
  <1>1. c \in Int /\ g \in Nat /\ g <= 99 /\ k \in Nat /\ k <= 99
    BY SMT, OffsetParts, Named
  <1>2. CASE o = 0
    <2>1. EncodeOffset(o) = <<UpperZ>>
      BY SMT, <1>2 DEF EncodeOffset
    <2>2. /\ <<UpperZ>> \in Seq(Int) /\ Len(<<UpperZ>>) = 1
          /\ \A i \in Int : Reads(i, <<UpperZ>>) => At(i) = UpperZ
      BY ONLY Named, OneChar, ReadsOneChar
    <2>3. /\ EncodeOffset(o) \in Seq(Int) /\ Len(EncodeOffset(o)) = 1
          /\ \A i \in Int : Reads(i, EncodeOffset(o)) => At(i) = UpperZ
      BY ONLY <2>1, <2>2
    <2> QED
      BY SMT, <1>2, <2>3
  <1>3. CASE o # 0
    <2> DEFINE s == <<c>> \o Decimal(g, 2) \o <<Colon>> \o Decimal(k, 2)
    <2>1. EncodeOffset(o) = s
      BY SMT, <1>3 DEF EncodeOffset, Hours, Minutes, Size
    <2> HIDE DEF c, g, k
    <2>2. /\ s \in Seq(Int) /\ Len(s) = 6
          /\ \A i \in Int : Reads(i, s) =>
                /\ At(i) = c /\ Reads(i + 1, Decimal(g, 2)) /\ At(i + 3) = Colon
                /\ Reads(i + 4, Decimal(k, 2))
      BY ONLY <1>1, OffsetText
    <2> HIDE DEF s
    <2>3. /\ EncodeOffset(o) \in Seq(Int) /\ Len(EncodeOffset(o)) = 6
          /\ \A i \in Int : Reads(i, EncodeOffset(o)) =>
                /\ At(i) = c /\ Reads(i + 1, Decimal(g, 2)) /\ At(i + 3) = Colon
                /\ Reads(i + 4, Decimal(k, 2))
      BY ONLY <2>1, <2>2
    <2>4. ASSUME NEW i \in Int, Reads(i, EncodeOffset(o))
          PROVE  /\ At(i) = (IF o < 0 THEN Minus ELSE Plus)
                 /\ Reads(i + 1, Decimal(Hours(o), 2)) /\ At(i + 3) = Colon
                 /\ Reads(i + 4, Decimal(Minutes(o), 2))
      <3>1. /\ At(i) = c /\ Reads(i + 1, Decimal(g, 2)) /\ At(i + 3) = Colon
            /\ Reads(i + 4, Decimal(k, 2))
        BY ONLY <2>3, <2>4
      <3> QED
        BY SMT, <3>1 DEF c, g, k
    <2> QED
      BY SMT, <1>3, <2>3, <2>4
  <1> QED
    BY SMT, <1>2, <1>3

LEMMA OffsetRead ==
    ASSUME NEW o \in Int, -86400 < o, o < 86400, NEW i \in Int, Reads(i, EncodeOffset(o))
    PROVE  /\ TZAt(i) = [offset |-> <<Whole(o)>>, next |-> i + Len(EncodeOffset(o))]
           /\ At(i) \in {UpperZ, Plus, Minus}
  <1>1. CASE o = 0
    <2>1. At(i) = UpperZ /\ Len(EncodeOffset(o)) = 1
      BY SMT, <1>1, OffsetWritten
    <2>2. TZAt(i) = [offset |-> <<0>>, next |-> i + 1]
      BY SMT, <2>1, Named DEF TZAt
    <2>3. Whole(o) = 0
      BY SMT, <1>1 DEF Whole
    <2> QED
      BY SMT, <2>1, <2>2, <2>3
  <1>2. CASE o # 0
    <2> DEFINE g == Hours(o)
               k == Minutes(o)
               c == IF o < 0 THEN Minus ELSE Plus
    <2>1. /\ Len(EncodeOffset(o)) = 6 /\ At(i) = c /\ Reads(i + 1, Decimal(g, 2))
          /\ At(i + 3) = Colon /\ Reads(i + 4, Decimal(k, 2))
      BY SMT, <1>2, OffsetWritten
    <2>2. /\ g \in Nat /\ g <= 99 /\ k \in Nat /\ k <= 99
          /\ g * 3600 + k * 60 = IF o < 0 THEN -Whole(o) ELSE Whole(o)
      BY SMT, OffsetParts
    <2>3. Whole(o) \in Int
      BY SMT DEF Whole
    <2> HIDE DEF g, k
    <2>4. /\ IsDigit(i + 1) /\ IsDigit(i + 2) /\ TwoDigit(i + 1) = g
          /\ IsDigit(i + 4) /\ IsDigit(i + 5) /\ TwoDigit(i + 4) = k
      <3>1. i + 1 \in Int /\ i + 4 \in Int /\ i + 1 + 1 = i + 2 /\ i + 4 + 1 = i + 5
        BY SMT
      <3> QED
        BY SMT, <2>1, <2>2, <3>1, TwoRead
    <2> DEFINE seconds == g * 3600 + k * 60
    <2>5. c \in {Plus, Minus} /\ c \notin {UpperZ, 122} /\ (c = Minus <=> o < 0)
      BY SMT, Named
    <2>6. (IF At(i) = Minus THEN -seconds ELSE seconds) = Whole(o)
      BY SMT, <2>1, <2>2, <2>3, <2>5
    <2> HIDE DEF c
    <2>7. TZAt(i) = [offset |-> <<IF At(i) = Minus THEN -seconds ELSE seconds>>,
                     next |-> i + 4 + 2]
      BY SMT, <2>1, <2>4, <2>5 DEF TZAt
    <2>8. i + 4 + 2 = i + 6
      BY SMT
    <2> HIDE DEF seconds
    <2> QED
      BY SMT, <2>1, <2>5, <2>6, <2>7, <2>8
  <1> QED
    BY SMT, <1>1, <1>2


-----------------------------------------------------------------------------
(* The text of a moment in quotes, and what is read from it. *)

LEMMA QuotedText ==
    ASSUME input \in Inputs, NEW s \in Seq(Int),
           input.text = <<Quote>> \o s \o <<Quote>>
    PROVE  /\ End = Len(s) + 3 /\ Len(s) \in Nat
           /\ At(1) = Quote /\ Reads(2, s) /\ At(Len(s) + 2) = Quote
  <1> DEFINE a == <<Quote>> \o s
             t == a \o <<Quote>>
  <1>1. Text = t
    BY DEF Text
  <1>2. /\ a \in Seq(Int) /\ Len(a) = 1 + Len(s)
        /\ \A i \in Int : Reads(i, a) => At(i) = Quote /\ Reads(i + 1, s)
    BY Named, FirstChar
  <1>3. Len(s) \in Nat
    BY LenProperties
  <1> HIDE DEF a
  <1>4. /\ t \in Seq(Int) /\ Len(t) = Len(a) + 1
        /\ \A i \in Int : Reads(i, t) => Reads(i, a) /\ At(i + Len(a)) = Quote
    BY <1>2, Named, PeelChar
  <1> HIDE DEF t
  <1>5. Reads(1, t)
    <2> SUFFICES ASSUME NEW k \in 1..Len(t) PROVE At(1 + k - 1) = t[k]
      BY DEF Reads
    <2>1. 1 + k - 1 = k /\ k \in 1..Len(Text)
      BY <1>1
    <2> QED
      BY <1>1, <2>1 DEF At
  <1>6. Reads(1, a) /\ At(1 + Len(a)) = Quote
    BY <1>4, <1>5
  <1>7. At(1) = Quote /\ Reads(1 + 1, s)
    BY <1>2, <1>6
  <1>8. 1 + 1 = 2 /\ 1 + Len(a) = Len(s) + 2
    BY <1>2, <1>3
  <1>9. End = Len(s) + 3
    BY <1>1, <1>2, <1>3, <1>4 DEF End
  <1> QED
    BY <1>3, <1>6, <1>7, <1>8, <1>9

LEMMA OneMoment ==
    ASSUME NEW m, Valid(m), NEW n, At(n) = Quote,
           MomentsAt(2) = {[moment |-> m, next |-> n]}
    PROVE  ReadDate(2) = {[moment |-> m, next |-> n]}
  BY DEF ReadDate

(* A clock and its microseconds, at i, before a character of another kind.  *)
LEMMA TimeRead ==
    ASSUME input \in Inputs, NEW t, ValidTime(t), t \in Int \X Int \X Int \X Int,
           NEW i \in Nat \ {0}, i + 8 < End,
           Reads(i, Decimal(t[1], 2)), At(i + 2) = Colon, Reads(i + 3, Decimal(t[2], 2)),
           At(i + 5) = Colon, Reads(i + 6, Decimal(t[3], 2)),
           Reads(i + 8, EncodeMicroseconds(t[4])),
           At(i + 8 + Len(EncodeMicroseconds(t[4]))) \notin Digits \cup {Dot, NUL}
    PROVE  /\ HasForm(i, TimeForm) /\ TimeAt(i) = t
           /\ AfterFraction(i + 8) = i + 8 + Len(EncodeMicroseconds(t[4]))
  <1>1. ClockAt(t, i) /\ HasForm(i, TimeForm)
    BY ClockRead
  <1>2. /\ AfterFraction(i + 8) = i + 8 + Len(EncodeMicroseconds(t[4]))
        /\ (IF HasFraction(i + 8) THEN Fraction(i + 8) ELSE 0) = t[4]
    <2> DEFINE f == t[4]
               j == i + 8
    <2>1. f \in Nat /\ f <= 999999 /\ j \in 1..End
      <3>1. f \in Nat /\ f <= 999999
        BY SMT, TimeFields
      <3>2. End \in Nat
        BY TextFacts
      <3>3. j \in 1..End
        BY SMT, <3>2
      <3> QED
        BY <3>1, <3>3
    <2>2. Reads(j, EncodeMicroseconds(f))
          /\ At(j + Len(EncodeMicroseconds(f))) \notin Digits \cup {Dot, NUL}
      OBVIOUS
    <2> HIDE DEF f, j
    <2>3. /\ AfterFraction(j) = j + Len(EncodeMicroseconds(f))
          /\ (IF HasFraction(j) THEN Fraction(j) ELSE 0) = f
      BY SMT, <2>1, <2>2, MicrosecondsRead
    <2> QED
      BY SMT, <2>3 DEF f, j
  <1>3. TimeAt(i) = t
    BY <1>1, <1>2 DEF TimeAt, ClockAt
  <1> QED
    BY <1>1, <1>2, <1>3

LEMMA DateBack ==
    ASSUME input \in Inputs, NEW m, IsMoment(m), m.kind = "date",
           input.text = <<Quote>> \o EncodeMoment(m) \o <<Quote>>
    PROVE  ReadDate(2) = {[moment |-> ReadBack(m), next |-> End - 1]}
  <1> DEFINE s == EncodeDate(m.date)
  <1>1. /\ m.date \in Int \X Int \X Int /\ ValidDate(m.date) /\ Valid(m)
        /\ m = Moment("date", m.date, NoTime, <<>>)
    BY DEF IsMoment, Valid
  <1>2. EncodeMoment(m) = s /\ ReadBack(m) = m
    BY DEF EncodeMoment, ReadBack, IsMoment
  <1>3. s \in Seq(Int) /\ Len(s) = 10
    BY <1>1, DateIsText
  <1> HIDE DEF s
  <1>4. End = 13 /\ Reads(2, s) /\ At(12) = Quote
    <2>1. End = Len(s) + 3 /\ Reads(2, s) /\ At(Len(s) + 2) = Quote
      BY <1>2, <1>3, QuotedText
    <2> QED
      BY <1>3, <2>1
  <1>5. HasForm(2, DateForm) /\ DateAt(2) = m.date
    BY <1>1, <1>4, DateRead DEF s
  <1>6. MomentsAt(2) = {[moment |-> m, next |-> 12]}
    <2>1. At(2 + 10) \notin {32, 84, 116} /\ 2 + 10 = 12
      BY <1>4, Named
    <2>2. MomentsAt(2) = {[moment |-> Moment("date", DateAt(2), NoTime, <<>>), next |-> 2 + 10]}
      BY <1>5, <2>1 DEF MomentsAt
    <2> QED
      BY <1>1, <1>5, <2>1, <2>2
  <1> QED
    BY <1>1, <1>2, <1>4, <1>6, OneMoment

(* What __read_date makes of each form. *)

LEMMA ClockMoment ==
    ASSUME NEW i \in Int, ~HasForm(i, DateForm), HasForm(i, TimeForm)
    PROVE  MomentsAt(i) =
              {[moment |-> Moment("time", NoDate, TimeAt(i), TZAt(AfterFraction(i + 8)).offset),
                next |-> TZAt(AfterFraction(i + 8)).next]}
  BY DEF MomentsAt

LEMMA BothMoment ==
    ASSUME NEW i \in Int, HasForm(i, DateForm), At(i + 10) \in {32, 84, 116},
           HasForm(i + 11, TimeForm), DateAt(i) # NoDate
    PROVE  MomentsAt(i) =
              {[moment |-> Moment("datetime", DateAt(i), TimeAt(i + 11),
                                  TZAt(AfterFraction(i + 11 + 8)).offset),
                next |-> TZAt(AfterFraction(i + 11 + 8)).next]}
  BY DEF MomentsAt

LEMMA NoMoment ==
    ASSUME NEW i \in Int, ~HasForm(i, DateForm), ~HasForm(i, TimeForm)
    PROVE  MomentsAt(i) = {}
  BY DEF MomentsAt

(* A clock behind a, with its microseconds. *)
Stamp(a, t) ==
    GoesOn(a \o Decimal(t[1], 2), Colon, t[2], t[3]) \o EncodeMicroseconds(t[4])

LEMMA StampReads ==
    ASSUME NEW a \in Seq(Int), NEW t, ValidTime(t), t \in Int \X Int \X Int \X Int
    PROVE  /\ Stamp(a, t) \in Seq(Int)
           /\ Len(Stamp(a, t)) = Len(a) + 8 + Len(EncodeMicroseconds(t[4]))
           /\ Len(EncodeMicroseconds(t[4])) \in Nat
           /\ \A i \in Int : Reads(i, Stamp(a, t)) =>
                 /\ Reads(i, a) /\ Reads(i + Len(a), Decimal(t[1], 2))
                 /\ At(i + Len(a) + 2) = Colon /\ Reads(i + Len(a) + 3, Decimal(t[2], 2))
                 /\ At(i + Len(a) + 5) = Colon /\ Reads(i + Len(a) + 6, Decimal(t[3], 2))
                 /\ Reads(i + Len(a) + 8, EncodeMicroseconds(t[4]))
  <1> DEFINE b == a \o Decimal(t[1], 2)
             u == EncodeMicroseconds(t[4])
             g == GoesOn(b, Colon, t[2], t[3])
  <1>1. /\ t[1] \in Nat /\ t[1] <= 99 /\ t[2] \in Nat /\ t[2] <= 99 /\ t[3] \in Nat /\ t[3] <= 99
    BY SMT, TimeFields
  <1>2. u \in Seq(Int) /\ Len(u) \in Nat /\ Len(a) \in Nat
    <2>1. u \in Seq(Int)
      BY SMT, TimeFields, MicrosecondsWritten
    <2> HIDE DEF u
    <2> QED
      BY <2>1, LenProperties
  <1>3. /\ b \in Seq(Int) /\ Len(b) = Len(a) + 2
        /\ \A i \in Int : Reads(i, b) => Reads(i, a) /\ Reads(i + Len(a), Decimal(t[1], 2))
    BY <1>1, PeelTwo
  <1> HIDE DEF b, u
  <1>4. /\ g \in Seq(Int) /\ Len(g) = Len(b) + 6
        /\ \A i \in Int : Reads(i, g) =>
                 /\ Reads(i, b) /\ At(i + Len(b)) = Colon
                 /\ Reads(i + Len(b) + 1, Decimal(t[2], 2)) /\ At(i + Len(b) + 3) = Colon
                 /\ Reads(i + Len(b) + 4, Decimal(t[3], 2))
    BY <1>1, <1>3, GoesOnReads, Named
  <1> HIDE DEF g
  <1>5. Stamp(a, t) = g \o u
    BY DEF Stamp, g, b, u
  <1>6. g \o u \in Seq(Int) /\ Len(g \o u) = Len(g) + Len(u)
    BY <1>2, <1>4, Joined
  <1>7. ASSUME NEW i \in Int, Reads(i, g \o u)
        PROVE  /\ Reads(i, a) /\ Reads(i + Len(a), Decimal(t[1], 2))
               /\ At(i + Len(a) + 2) = Colon /\ Reads(i + Len(a) + 3, Decimal(t[2], 2))
               /\ At(i + Len(a) + 5) = Colon /\ Reads(i + Len(a) + 6, Decimal(t[3], 2))
               /\ Reads(i + Len(a) + 8, u)
    <2>1. Reads(i, g) /\ Reads(i + Len(g), u)
      BY <1>2, <1>4, <1>7, ReadsParts
    <2>2. /\ i + Len(g) = i + Len(a) + 8 /\ i + Len(b) = i + Len(a) + 2
          /\ i + Len(b) + 1 = i + Len(a) + 3 /\ i + Len(b) + 3 = i + Len(a) + 5
          /\ i + Len(b) + 4 = i + Len(a) + 6
      BY <1>2, <1>3, <1>4
    <2>3. Reads(i, b) /\ At(i + Len(b)) = Colon /\ Reads(i + Len(b) + 1, Decimal(t[2], 2))
          /\ At(i + Len(b) + 3) = Colon /\ Reads(i + Len(b) + 4, Decimal(t[3], 2))
      BY <1>4, <2>1
    <2> QED
      BY <1>3, <2>1, <2>2, <2>3
  <1>8. Len(g \o u) = Len(a) + 8 + Len(u)
    BY <1>2, <1>3, <1>4, <1>6
  <1> QED
    BY <1>2, <1>5, <1>6, <1>7, <1>8 DEF u

LEMMA FormFacts ==
    ASSUME NEW i \in Int
    PROVE  /\ HasForm(i, DateForm) => IsDigit(i + 2)
           /\ HasForm(i, TimeForm) => At(i + 5) = Colon
  <1>1. ASSUME HasForm(i, DateForm) PROVE IsDigit(i + 2)
    <2>1. Len(DateForm) = 10 /\ DateForm[3] = 57
      BY DEF DateForm
    <2>2. 3 \in 1..Len(DateForm) /\ i + 3 - 1 = i + 2
      BY <2>1
    <2> QED
      BY <1>1, <2>1, <2>2 DEF HasForm
  <1>2. ASSUME HasForm(i, TimeForm) PROVE At(i + 5) = Colon
    <2>1. Len(TimeForm) = 8 /\ TimeForm[6] = Colon /\ Colon # 57
      BY DEF TimeForm, Colon
    <2>2. 6 \in 1..Len(TimeForm) /\ i + 6 - 1 = i + 5
      BY <2>1
    <2> QED
      BY <1>2, <2>1, <2>2 DEF HasForm
  <1> QED
    BY <1>1, <1>2

LEMMA NoZone ==
    ASSUME NEW i, At(i) = Quote
    PROVE  TZAt(i) = [offset |-> <<>>, next |-> i]
  <1>1. At(i) \notin {UpperZ, 122} /\ At(i) \notin {Plus, Minus}
    BY Named
  <1> QED
    BY <1>1 DEF TZAt

LEMMA Associates ==
    ASSUME NEW a \in Seq(Int), NEW b \in Seq(Int), NEW c \in Seq(Int)
    PROVE  a \o (b \o c) = (a \o b) \o c
  <1>1. (a \o b) \o c = a \o (b \o c)
    BY ConcatAssociative
  <1> QED
    BY <1>1

LEMMA ClockText ==
    ASSUME NEW t, ValidTime(t), t \in Int \X Int \X Int \X Int, t[3] > 0 \/ t[4] > 0
    PROVE  EncodeTime(t) = Stamp(<<>>, t)
  <1> DEFINE first == Decimal(t[1], 2)
             second == Decimal(t[2], 2)
             third == Decimal(t[3], 2)
             u == EncodeMicroseconds(t[4])
             colon == <<Colon>>
             clock == (first \o colon) \o second
  <1>1. first \in Seq(Int) /\ second \in Seq(Int) /\ third \in Seq(Int)
    BY SMT, TimeFields, TwoLong
  <1>2. colon \in Seq(Int)
    BY Named, OneChar
  <1>3. EncodeTime(t) = (clock \o (colon \o third)) \o u
    BY DEF EncodeTime
  <1>4. Stamp(<<>>, t) = (((((<<>> \o first) \o colon) \o second) \o colon) \o third) \o u
    BY DEF Stamp, GoesOn
  <1> HIDE DEF first, second, third, u, colon
  <1>5. clock \in Seq(Int)
    BY <1>1, <1>2, Joined
  <1>6. <<>> \o first = first
    BY <1>1, ConcatEmptySeq
  <1> HIDE DEF clock
  <1>7. clock \o (colon \o third) = (clock \o colon) \o third
    BY <1>1, <1>2, <1>5, Associates
  <1> QED
    BY <1>3, <1>4, <1>6, <1>7 DEF clock

LEMMA TimeBack ==
    ASSUME input \in Inputs, NEW m, IsMoment(m), m.kind = "time",
           m.time[3] > 0 \/ m.time[4] > 0,
           input.text = <<Quote>> \o EncodeMoment(m) \o <<Quote>>
    PROVE  ReadDate(2) = {[moment |-> Moment("time", NoDate, m.time, <<>>), next |-> End - 1]}
  <1> DEFINE t == m.time
             s == Stamp(<<>>, t)
             u == EncodeMicroseconds(t[4])
             back == Moment("time", NoDate, t, <<>>)
  <1>1. t \in Int \X Int \X Int \X Int /\ ValidTime(t) /\ (t[3] > 0 \/ t[4] > 0)
    BY DEF IsMoment, Valid
  <1>2. EncodeMoment(m) = EncodeTime(t)
    BY DEF EncodeMoment
  <1>3. Valid(back)
    <2>1. back.kind = "time" /\ back.time = t /\ back.offset = <<>>
      BY DEF Moment
    <2>2. Range(<<>>) = {}
      BY DEF Range
    <2> HIDE DEF back
    <2> QED
      BY <1>1, <2>1, <2>2 DEF Valid
  <1> HIDE DEF t, back
  <1>4. EncodeMoment(m) = s
    BY <1>1, <1>2, ClockText
  <1>5. <<>> \in Seq(Int) /\ Len(<<>>) = 0
    BY EmptySeq
  <1>6. /\ s \in Seq(Int) /\ Len(s) = Len(<<>>) + 8 + Len(u) /\ Len(u) \in Nat
        /\ \A i \in Int : Reads(i, s) =>
                 /\ Reads(i, <<>>) /\ Reads(i + Len(<<>>), Decimal(t[1], 2))
                 /\ At(i + Len(<<>>) + 2) = Colon /\ Reads(i + Len(<<>>) + 3, Decimal(t[2], 2))
                 /\ At(i + Len(<<>>) + 5) = Colon /\ Reads(i + Len(<<>>) + 6, Decimal(t[3], 2))
                 /\ Reads(i + Len(<<>>) + 8, u)
    BY <1>1, <1>5, StampReads
  <1> HIDE DEF s, u
  <1>7. End = Len(s) + 3 /\ Reads(2, s) /\ At(Len(s) + 2) = Quote
    BY <1>4, <1>6, QuotedText
  <1>8. /\ Len(s) = 8 + Len(u)
        /\ Reads(2, Decimal(t[1], 2)) /\ At(2 + 2) = Colon /\ Reads(2 + 3, Decimal(t[2], 2))
        /\ At(2 + 5) = Colon /\ Reads(2 + 6, Decimal(t[3], 2)) /\ Reads(2 + 8, u)
    <2> DEFINE z == Len(<<>>)
    <2>1. 2 \in Int /\ z = 0
      BY <1>5
    <2>2. /\ Len(s) = z + 8 + Len(u)
          /\ Reads(2 + z, Decimal(t[1], 2)) /\ At(2 + z + 2) = Colon
          /\ Reads(2 + z + 3, Decimal(t[2], 2)) /\ At(2 + z + 5) = Colon
          /\ Reads(2 + z + 6, Decimal(t[3], 2)) /\ Reads(2 + z + 8, u)
      BY <1>6, <1>7, <2>1
    <2> HIDE DEF z
    <2>3. /\ 2 + z = 2 /\ 2 + z + 2 = 2 + 2 /\ 2 + z + 3 = 2 + 3 /\ 2 + z + 5 = 2 + 5
          /\ 2 + z + 6 = 2 + 6 /\ 2 + z + 8 = 2 + 8 /\ z + 8 + Len(u) = 8 + Len(u)
      BY <1>6, <2>1
    <2> QED
      BY <2>2, <2>3
  <1>9. 2 + 8 < End /\ 2 + 8 + Len(u) = Len(s) + 2 /\ End - 1 = Len(s) + 2
    BY <1>6, <1>7, <1>8
  <1>10. At(2 + 8 + Len(u)) = Quote /\ Quote \notin Digits \cup {Dot, NUL}
    BY <1>7, <1>9, Named DEF Quote, NUL
  <1>11. /\ HasForm(2, TimeForm) /\ TimeAt(2) = t
         /\ AfterFraction(2 + 8) = 2 + 8 + Len(u)
    <2> DEFINE i == 2
    <2>1. i \in Nat \ {0} /\ u = EncodeMicroseconds(t[4])
      BY DEF u
    <2>2. /\ Reads(i, Decimal(t[1], 2)) /\ At(i + 2) = Colon /\ Reads(i + 3, Decimal(t[2], 2))
          /\ At(i + 5) = Colon /\ Reads(i + 6, Decimal(t[3], 2)) /\ Reads(i + 8, u)
          /\ i + 8 < End /\ At(i + 8 + Len(u)) \notin Digits \cup {Dot, NUL}
      BY <1>8, <1>9, <1>10
    <2> HIDE DEF i
    <2>3. HasForm(i, TimeForm) /\ TimeAt(i) = t /\ AfterFraction(i + 8) = i + 8 + Len(u)
      <3>1. input \in Inputs
        OBVIOUS
      <3>2. /\ Reads(i + 8, EncodeMicroseconds(t[4]))
            /\ At(i + 8 + Len(EncodeMicroseconds(t[4]))) \notin Digits \cup {Dot, NUL}
        BY ONLY <2>1, <2>2
      <3>3. /\ HasForm(i, TimeForm) /\ TimeAt(i) = t
            /\ AfterFraction(i + 8) = i + 8 + Len(EncodeMicroseconds(t[4]))
        BY ONLY <1>1, <2>1, <2>2, <3>1, <3>2, TimeRead
      <3> QED
        BY ONLY <2>1, <3>3
    <2> QED
      BY <2>3 DEF i
  <1>12. ~HasForm(2, DateForm)
    <2>1. ~IsDigit(2 + 2)
      BY <1>8, Named DEF IsDigit
    <2> QED
      BY <2>1, FormFacts
  <1>13. TZAt(2 + 8 + Len(u)) = [offset |-> <<>>, next |-> 2 + 8 + Len(u)]
    BY <1>10, NoZone
  <1>14. MomentsAt(2) = {[moment |-> back, next |-> 2 + 8 + Len(u)]}
    <2>1. MomentsAt(2) =
              {[moment |-> Moment("time", NoDate, TimeAt(2), TZAt(AfterFraction(2 + 8)).offset),
                next |-> TZAt(AfterFraction(2 + 8)).next]}
      BY <1>11, <1>12, ClockMoment
    <2> QED
      BY <1>11, <1>13, <2>1 DEF back
  <1>15. ReadDate(2) = {[moment |-> back, next |-> 2 + 8 + Len(u)]}
    BY <1>3, <1>10, <1>14, OneMoment
  <1> QED
    BY <1>9, <1>15 DEF back, t

(* The text of an offset, if there is one, and what is left of it. *)
Zone(offset) == IF offset = <<>> THEN <<>> ELSE EncodeOffset(offset[1])
Trimmed(offset) == IF offset = <<>> THEN <<>> ELSE <<Whole(offset[1])>>

IsOffset(offset) ==
    /\ offset \in Seq(Int) /\ Len(offset) <= 1
    /\ \A o \in Range(offset) : -86400 < o /\ o < 86400

LEMMA WholeBounds ==
    ASSUME NEW o \in Int, -86400 < o, o < 86400
    PROVE  Whole(o) \in Int /\ -86400 < Whole(o) /\ Whole(o) < 86400
  <1>1. CASE o < 0
    <2> DEFINE k == -o
               r == k % 60
    <2>1. k \in Nat /\ k < 86400
      BY <1>1
    <2> HIDE DEF k
    <2>2. r \in Nat /\ r <= k
      BY <2>1
    <2>3. Whole(o) = -(k - r)
      BY <1>1 DEF Whole, k
    <2> HIDE DEF r
    <2> QED
      BY <2>1, <2>2, <2>3
  <1>2. CASE o >= 0
    <2> DEFINE r == o % 60
    <2>1. r \in Nat /\ r <= o
      BY <1>2
    <2>2. Whole(o) = o - r
      BY <1>2 DEF Whole
    <2> HIDE DEF r
    <2> QED
      BY <1>2, <2>1, <2>2
  <1> QED
    BY <1>1, <1>2

LEMMA OneOffset ==
    ASSUME NEW offset, IsOffset(offset), offset # <<>>
    PROVE  offset[1] \in Int /\ -86400 < offset[1] /\ offset[1] < 86400
  <1>1. offset \in Seq(Int) /\ Len(offset) \in Nat \ {0}
    BY EmptySeq DEF IsOffset
  <1>2. 1 \in 1..Len(offset)
    BY <1>1
  <1>3. offset[1] \in Int
    BY <1>1, <1>2, ElementOfSeq
  <1>4. offset[1] \in Range(offset)
    <2>1. 1 \in DOMAIN offset
      BY <1>1, <1>2
    <2> QED
      BY <2>1 DEF Range
  <1> QED
    BY <1>3, <1>4 DEF IsOffset

LEMMA ZoneRead ==
    ASSUME NEW offset, IsOffset(offset)
    PROVE  /\ Zone(offset) \in Seq(Int) /\ Len(Zone(offset)) \in Nat
           /\ \A i \in Int : Reads(i, Zone(offset)) /\ At(i + Len(Zone(offset))) = Quote =>
                 /\ TZAt(i) = [offset |-> Trimmed(offset), next |-> i + Len(Zone(offset))]
                 /\ At(i) \in {Quote, UpperZ, Plus, Minus}
  <1> DEFINE z == Zone(offset)
             o == offset[1]
  <1>1. CASE offset = <<>>
    <2>1. z = <<>> /\ Trimmed(offset) = <<>>
      BY <1>1 DEF Zone, Trimmed
    <2>2. z \in Seq(Int) /\ Len(z) = 0
      BY <2>1, EmptySeq
    <2>3. ASSUME NEW i \in Int, Reads(i, z), At(i + Len(z)) = Quote
          PROVE  /\ TZAt(i) = [offset |-> Trimmed(offset), next |-> i + Len(z)]
                 /\ At(i) \in {Quote, UpperZ, Plus, Minus}
      <3>1. i + Len(z) = i /\ At(i) = Quote
        BY <2>2, <2>3
      <3> QED
        BY <2>1, <3>1, NoZone
    <2> QED
      BY <2>2, <2>3
  <1>2. CASE offset # <<>>
    <2>1. z = EncodeOffset(o) /\ Trimmed(offset) = <<Whole(o)>>
      BY <1>2 DEF Zone, Trimmed
    <2>2. o \in Int /\ -86400 < o /\ o < 86400
      BY <1>2, OneOffset
    <2> HIDE DEF o
    <2>3. z \in Seq(Int) /\ Len(z) \in Nat
      <3>1. z \in Seq(Int)
        BY <2>1, <2>2, OffsetWritten
      <3> HIDE DEF z
      <3> QED
        BY <3>1, LenProperties
    <2>4. ASSUME NEW i \in Int, Reads(i, z)
          PROVE  /\ TZAt(i) = [offset |-> Trimmed(offset), next |-> i + Len(z)]
                 /\ At(i) \in {Quote, UpperZ, Plus, Minus}
      <3>1. Reads(i, EncodeOffset(o))
        BY <2>1, <2>4
      <3>2. /\ TZAt(i) = [offset |-> <<Whole(o)>>, next |-> i + Len(EncodeOffset(o))]
            /\ At(i) \in {UpperZ, Plus, Minus}
        BY <2>2, <3>1, OffsetRead
      <3> QED
        BY <2>1, <3>2
    <2> QED
      BY <2>3, <2>4
  <1> QED
    BY <1>1, <1>2

LEMMA ReadBackDateTime ==
    ASSUME NEW m, IsMoment(m), m.kind = "datetime"
    PROVE  /\ IsOffset(m.offset)
           /\ ReadBack(m) = Moment("datetime", m.date, m.time, Trimmed(m.offset))
           /\ Valid(ReadBack(m))
  <1> DEFINE offset == m.offset
             o == offset[1]
             back == Moment("datetime", m.date, m.time, Trimmed(offset))
  <1>1. IsOffset(offset)
    BY DEF IsMoment, Valid, IsOffset
  <1>2. /\ m = Moment("datetime", m.date, m.time, offset)
        /\ ValidDate(m.date) /\ ValidTime(m.time)
    BY DEF IsMoment, Valid
  <1>3. ReadBack(m) = back
    <2>1. CASE offset = <<>>
      <3>1. ReadBack(m) = m /\ Trimmed(offset) = <<>>
        BY <2>1 DEF ReadBack, Trimmed
      <3> QED
        BY <1>2, <2>1, <3>1
    <2>2. CASE offset # <<>>
      <3>1. ReadBack(m) = [m EXCEPT !.offset = <<Whole(o)>>]
        BY <2>2 DEF ReadBack, Whole
      <3>2. Trimmed(offset) = <<Whole(o)>>
        BY <2>2 DEF Trimmed
      <3> DEFINE w == <<Whole(o)>>
      <3>3. [Moment("datetime", m.date, m.time, offset) EXCEPT !.offset = w]
               = Moment("datetime", m.date, m.time, w)
        BY DEF Moment
      <3> QED
        BY <1>2, <3>1, <3>2, <3>3
    <2> QED
      BY <2>1, <2>2
  <1>4. \A x \in Range(Trimmed(offset)) : -86400 < x /\ x < 86400
    <2>1. CASE offset = <<>>
      BY <2>1 DEF Trimmed, Range
    <2>2. CASE offset # <<>>
      <3>1. -86400 < Whole(o) /\ Whole(o) < 86400
        BY <1>1, <2>2, OneOffset, WholeBounds
      <3>2. Trimmed(offset) = <<Whole(o)>>
        BY <2>2 DEF Trimmed
      <3> DEFINE w == Whole(o)
      <3>3. Range(<<w>>) = {w}
        BY DEF Range
      <3> QED
        BY <3>1, <3>2, <3>3
    <2> QED
      BY <2>1, <2>2
  <1>5. /\ back.kind = "datetime" /\ back.date = m.date /\ back.time = m.time
        /\ back.offset = Trimmed(offset)
    BY DEF Moment
  <1> HIDE DEF back, offset
  <1>6. Valid(back)
    BY <1>2, <1>4, <1>5 DEF Valid
  <1> QED
    BY <1>1, <1>3, <1>6 DEF back, offset

LEMMA DateTimeText ==
    ASSUME NEW m
    PROVE  EncodeDateTime(m) =
              Stamp(EncodeDate(m.date) \o <<IF m.offset = <<>> THEN 32 ELSE 84>>, m.time)
                 \o Zone(m.offset)
  BY DEF EncodeDateTime, Stamp, GoesOn, Zone

LEMMA RealDate ==
    ASSUME NEW d, ValidDate(d)
    PROVE  d # NoDate
  BY DEF ValidDate, NoDate

LEMMA DatedText ==
    ASSUME NEW d, ValidDate(d), d \in Int \X Int \X Int, NEW c \in Int
    PROVE  LET text == EncodeDate(d)
               front == text \o <<c>>
           IN  /\ front \in Seq(Int) /\ Len(front) = Len(text) + 1
               /\ \A i \in Int : Reads(i, front) => Reads(i, text) /\ At(i + Len(text)) = c
  <1> DEFINE text == EncodeDate(d)
  <1>1. text \in Seq(Int)
    BY DateIsText
  <1> HIDE DEF text
  <1>2. /\ text \o <<c>> \in Seq(Int) /\ Len(text \o <<c>>) = Len(text) + 1
        /\ \A i \in Int : Reads(i, text \o <<c>>) => Reads(i, text) /\ At(i + Len(text)) = c
    BY <1>1, PeelChar
  <1> QED
    BY <1>2 DEF text

LEMMA DateTimeBack ==
    ASSUME input \in Inputs, NEW m, IsMoment(m), m.kind = "datetime",
           input.text = <<Quote>> \o EncodeMoment(m) \o <<Quote>>
    PROVE  ReadDate(2) = {[moment |-> ReadBack(m), next |-> End - 1]}
  <1> DEFINE d == m.date
             t == m.time
             space == IF m.offset = <<>> THEN 32 ELSE 84
             z == Zone(m.offset)
             u == EncodeMicroseconds(t[4])
             text == EncodeDate(d)
             front == text \o <<space>>
             p == Stamp(front, t)
             s == p \o z
             trimmed == Trimmed(m.offset)
             back == Moment("datetime", d, t, trimmed)
  <1>1. /\ t \in Int \X Int \X Int \X Int /\ ValidTime(t)
        /\ d \in Int \X Int \X Int /\ ValidDate(d)
    BY DEF IsMoment, Valid
  <1>2. ReadBack(m) = back /\ Valid(back) /\ IsOffset(m.offset)
    BY ReadBackDateTime
  <1>3. EncodeMoment(m) = s
    BY DateTimeText DEF EncodeMoment
  <1>4. space \in Int /\ space \in {32, 84, 116}
    OBVIOUS
  <1>5. /\ z \in Seq(Int) /\ Len(z) \in Nat
        /\ \A i \in Int : Reads(i, z) /\ At(i + Len(z)) = Quote =>
              /\ TZAt(i) = [offset |-> trimmed, next |-> i + Len(z)]
              /\ At(i) \in {Quote, UpperZ, Plus, Minus}
    BY <1>2, ZoneRead
  <1> HIDE DEF d, t, space, z, trimmed, back
  <1>6. text \in Seq(Int) /\ Len(text) = 10
    BY <1>1, DateIsText
  <1>7. /\ front \in Seq(Int) /\ Len(front) = Len(text) + 1
        /\ \A i \in Int : Reads(i, front) => Reads(i, text) /\ At(i + Len(text)) = space
    BY ONLY <1>1, <1>4, DatedText DEF front, text
  <1> HIDE DEF text, front
  <1>8. /\ p \in Seq(Int) /\ Len(p) = Len(front) + 8 + Len(u) /\ Len(u) \in Nat
        /\ \A i \in Int : Reads(i, p) =>
                 /\ Reads(i, front) /\ Reads(i + Len(front), Decimal(t[1], 2))
                 /\ At(i + Len(front) + 2) = Colon /\ Reads(i + Len(front) + 3, Decimal(t[2], 2))
                 /\ At(i + Len(front) + 5) = Colon /\ Reads(i + Len(front) + 6, Decimal(t[3], 2))
                 /\ Reads(i + Len(front) + 8, u)
    BY <1>1, <1>7, StampReads
  <1> HIDE DEF p, u
  <1>9. s \in Seq(Int) /\ Len(s) = Len(p) + Len(z)
    BY <1>5, <1>8, Joined
  <1>10. \A i \in Int : Reads(i, s) => Reads(i, p) /\ Reads(i + Len(p), z)
    BY <1>5, <1>8, ReadsParts
  <1> HIDE DEF s
  <1>11. End = Len(s) + 3 /\ Reads(2, s) /\ At(Len(s) + 2) = Quote
    BY <1>3, <1>9, QuotedText
  <1> DEFINE i == 13
             j == 21 + Len(u)
  <1>12. /\ Len(front) = 11 /\ Len(p) = 19 + Len(u) /\ Len(s) = 19 + Len(u) + Len(z)
         /\ End = 22 + Len(u) + Len(z) /\ i + 8 < End
    BY <1>5, <1>6, <1>7, <1>8, <1>9, <1>11
  <1>13. Reads(2, front) /\ Reads(2 + Len(p), z) /\ Reads(2 + Len(front), Decimal(t[1], 2))
         /\ At(2 + Len(front) + 2) = Colon /\ Reads(2 + Len(front) + 3, Decimal(t[2], 2))
         /\ At(2 + Len(front) + 5) = Colon /\ Reads(2 + Len(front) + 6, Decimal(t[3], 2))
         /\ Reads(2 + Len(front) + 8, u)
    <2>1. 2 \in Int
      OBVIOUS
    <2>2. Reads(2, p) /\ Reads(2 + Len(p), z)
      BY <1>10, <1>11, <2>1
    <2> QED
      BY <1>8, <2>1, <2>2
  <1>14. /\ 2 + Len(front) = i /\ 2 + Len(front) + 2 = i + 2 /\ 2 + Len(front) + 3 = i + 3
         /\ 2 + Len(front) + 5 = i + 5 /\ 2 + Len(front) + 6 = i + 6 /\ 2 + Len(front) + 8 = i + 8
         /\ 2 + Len(p) = j /\ i + 8 + Len(u) = j /\ j \in Int /\ i \in Nat \ {0}
         /\ Len(s) + 2 = j + Len(z) /\ End - 1 = j + Len(z)
    BY <1>5, <1>8, <1>12
  <1>15. Reads(2, text) /\ At(2 + 10) = space
    BY <1>6, <1>7, <1>13
  <1>16. HasForm(2, DateForm) /\ DateAt(2) = d
    BY <1>1, <1>15, DateRead DEF text
  <1> HIDE DEF i, j
  <1>17. /\ Reads(i, Decimal(t[1], 2)) /\ At(i + 2) = Colon /\ Reads(i + 3, Decimal(t[2], 2))
         /\ At(i + 5) = Colon /\ Reads(i + 6, Decimal(t[3], 2)) /\ Reads(i + 8, u)
         /\ Reads(j, z) /\ At(j + Len(z)) = Quote
    BY <1>11, <1>13, <1>14
  <1>18. /\ TZAt(j) = [offset |-> trimmed, next |-> j + Len(z)]
         /\ At(j) \in {Quote, UpperZ, Plus, Minus}
    BY <1>5, <1>14, <1>17
  <1>19. At(j) \notin Digits \cup {Dot, NUL}
    BY <1>18 DEF Digits, Quote, UpperZ, Plus, Minus, Dot, NUL
  <1>20. HasForm(i, TimeForm) /\ TimeAt(i) = t /\ AfterFraction(i + 8) = j
    <2>1. input \in Inputs
      OBVIOUS
    <2>2. u = EncodeMicroseconds(t[4])
      BY DEF u
    <2>3. /\ Reads(i + 8, EncodeMicroseconds(t[4]))
          /\ At(i + 8 + Len(EncodeMicroseconds(t[4]))) \notin Digits \cup {Dot, NUL}
      BY ONLY <1>14, <1>17, <1>19, <2>2
    <2>4. /\ HasForm(i, TimeForm) /\ TimeAt(i) = t
          /\ AfterFraction(i + 8) = i + 8 + Len(EncodeMicroseconds(t[4]))
      BY ONLY <1>1, <1>12, <1>14, <1>17, <2>1, <2>3, TimeRead
    <2> QED
      BY ONLY <1>14, <2>2, <2>4
  <1>21. MomentsAt(2) = {[moment |-> back, next |-> j + Len(z)]}
    <2>1. 2 + 11 = i /\ 2 + 11 + 8 = i + 8
      BY DEF i
    <2>2. d # NoDate
      BY <1>1, RealDate
    <2>3. MomentsAt(2) =
              {[moment |-> Moment("datetime", DateAt(2), TimeAt(2 + 11),
                                  TZAt(AfterFraction(2 + 11 + 8)).offset),
                next |-> TZAt(AfterFraction(2 + 11 + 8)).next]}
      BY <1>4, <1>15, <1>16, <1>20, <2>1, <2>2, BothMoment
    <2> QED
      BY <1>16, <1>18, <1>20, <2>1, <2>3 DEF back
  <1>22. ReadDate(2) = {[moment |-> back, next |-> j + Len(z)]}
    BY <1>2, <1>17, <1>21, OneMoment
  <1> QED
    BY <1>2, <1>14, <1>22

-----------------------------------------------------------------------------
(* A time without seconds: five characters that are no date. *)

ClockChars == Digits \cup {Colon}
Plainly(m) == m.kind = "time" /\ m.time[3] = 0 /\ m.time[4] = 0

(* The input is one. *)
Bare ==
    /\ End = 8 /\ At(7) = Quote
    /\ \A k \in 2..6 : At(k) \in ClockChars
    /\ \E m \in input.moments : Plainly(m) /\ EncodeTime(m.time) = SubSeq(Text, 2, 6)

LEMMA BareText ==
    ASSUME NEW t, ValidTime(t), t \in Int \X Int \X Int \X Int, t[3] = 0, t[4] = 0
    PROVE  /\ EncodeTime(t) \in Seq(Int) /\ Len(EncodeTime(t)) = 5
           /\ \A i \in Int : Reads(i, EncodeTime(t)) =>
                 /\ Reads(i, Decimal(t[1], 2)) /\ At(i + 2) = Colon
                 /\ Reads(i + 3, Decimal(t[2], 2))
  <1> DEFINE first == Decimal(t[1], 2)
             second == Decimal(t[2], 2)
             colon == <<Colon>>
             half == first \o colon
             clock == half \o second
  <1>1. /\ first \in Seq(Int) /\ Len(first) = 2
        /\ second \in Seq(Int) /\ Len(second) = 2
    BY SMT, TimeFields, TwoLong
  <1>2. EncodeTime(t) = (clock \o <<>>) \o <<>>
    <2>1. ~(t[3] > 0 \/ t[4] > 0) /\ ~(t[4] > 0)
      OBVIOUS
    <2> QED
      BY <2>1 DEF EncodeTime, EncodeMicroseconds
  <1> HIDE DEF first, second
  <1>3. /\ half \in Seq(Int) /\ Len(half) = Len(first) + 1
        /\ \A i \in Int : Reads(i, half) => Reads(i, first) /\ At(i + Len(first)) = Colon
    BY <1>1, Named, PeelChar
  <1> HIDE DEF half
  <1>4. clock \in Seq(Int) /\ Len(clock) = Len(half) + Len(second)
    BY <1>1, <1>3, Joined
  <1>5. EncodeTime(t) = clock
    <2> HIDE DEF clock
    <2>1. clock \o <<>> = clock
      BY <1>4, ConcatEmptySeq
    <2> QED
      BY <1>2, <2>1
  <1>6. ASSUME NEW i \in Int, Reads(i, clock)
        PROVE  Reads(i, first) /\ At(i + 2) = Colon /\ Reads(i + 3, second)
    <2>1. Reads(i, half) /\ Reads(i + Len(half), second)
      BY <1>1, <1>3, <1>6, ReadsParts
    <2>2. Len(half) = 3 /\ Len(first) = 2
      BY <1>1, <1>3
    <2> QED
      BY <1>3, <2>1, <2>2
  <1>7. Len(clock) = 5
    BY <1>1, <1>3, <1>4
  <1> HIDE DEF clock
  <1> QED
    BY <1>4, <1>5, <1>6, <1>7 DEF first, second

LEMMA BareIs ==
    ASSUME input \in Inputs, NEW m \in input.moments, IsMoment(m), Plainly(m),
           input.text = <<Quote>> \o EncodeMoment(m) \o <<Quote>>
    PROVE  Bare /\ ReadDate(2) = {}
  <1> DEFINE t == m.time
             s == EncodeTime(t)
  <1>1. /\ t \in Int \X Int \X Int \X Int /\ ValidTime(t) /\ t[3] = 0 /\ t[4] = 0
        /\ EncodeMoment(m) = s
    BY DEF IsMoment, Valid, Plainly, EncodeMoment
  <1> HIDE DEF t
  <1>2. s \in Seq(Int) /\ Len(s) = 5
    BY <1>1, BareText
  <1>3. End = 8 /\ Reads(2, s) /\ At(7) = Quote
    <2> HIDE DEF s
    <2>1. End = Len(s) + 3 /\ Reads(2, s) /\ At(Len(s) + 2) = Quote
      BY <1>1, <1>2, QuotedText
    <2> QED
      BY <1>2, <2>1
  <1>4. Reads(2, Decimal(t[1], 2)) /\ At(2 + 2) = Colon /\ Reads(2 + 3, Decimal(t[2], 2))
    <2>1. 2 \in Int
      OBVIOUS
    <2> QED
      BY <1>1, <1>3, <2>1, BareText
  <1> HIDE DEF s
  <1>5. IsDigit(2) /\ IsDigit(3) /\ IsDigit(5) /\ IsDigit(6)
    <2>1. t[1] \in Nat /\ t[1] <= 99 /\ t[2] \in Nat /\ t[2] <= 99
      BY SMT, <1>1, TimeFields
    <2>2. 2 \in Int /\ 2 + 3 \in Int /\ 2 + 1 = 3 /\ 2 + 3 = 5 /\ 2 + 3 + 1 = 6
      OBVIOUS
    <2>3. IsDigit(2) /\ IsDigit(2 + 1)
      BY <1>4, <2>1, <2>2, TwoRead
    <2>4. IsDigit(2 + 3) /\ IsDigit(2 + 3 + 1)
      BY <1>4, <2>1, <2>2, TwoRead
    <2> QED
      BY <2>2, <2>3, <2>4
  <1>6. At(4) = Colon
    <2>1. 2 + 2 = 4
      OBVIOUS
    <2> QED
      BY <1>4, <2>1
  <1>7. \A k \in 2..6 : At(k) \in ClockChars
    <2> SUFFICES ASSUME NEW k \in 2..6 PROVE At(k) \in ClockChars
      OBVIOUS
    <2>1. k = 2 \/ k = 3 \/ k = 4 \/ k = 5 \/ k = 6
      OBVIOUS
    <2> QED
      BY <1>5, <1>6, <2>1 DEF IsDigit, ClockChars
  <1>8. SubSeq(Text, 2, 6) = s
    <2> DEFINE slice == SubSeq(Text, 2, 7 - 1)
    <2>1. 2 \in 1..End /\ 7 \in 2..End
      BY <1>3
    <2>2. /\ slice \in Seq(0..MaxUnicode) /\ Len(slice) = 7 - 2
          /\ \A k \in 1..(7 - 2) : slice[k] = At(2 + k - 1)
      BY <2>1, Stretch
    <2>3. slice \in Seq(Int)
      <3>1. 0..MaxUnicode \subseteq Int
        BY MaxUnicodeFacts
      <3> HIDE DEF slice
      <3> QED
        BY <2>2, <3>1, SeqMonotonic
    <2>4. 7 - 1 = 6 /\ 7 - 2 = 5
      OBVIOUS
    <2>5. SubSeq(Text, 2, 6) = slice
      BY <2>4
    <2> HIDE DEF slice
    <2>6. Len(slice) = Len(s) /\ \A k \in 1..Len(slice) : slice[k] = s[k]
      <3>1. Len(slice) = 5 /\ Len(s) = 5
        BY <1>2, <2>2
      <3>2. \A k \in 1..5 : slice[k] = At(2 + k - 1) /\ At(2 + k - 1) = s[k]
        BY <1>2, <1>3, <2>2, <2>4 DEF Reads
      <3> QED
        BY <3>1, <3>2
    <2> QED
      BY <1>2, <2>3, <2>5, <2>6, SeqEqual
  <1>9. Bare
    BY <1>3, <1>7, <1>8 DEF Bare, s, t
  <1>10. ReadDate(2) = {}
    <2>1. ~HasForm(2, DateForm)
      <3>1. ~IsDigit(2 + 2)
        BY <1>4, Named DEF IsDigit
      <3> QED
        BY <3>1, FormFacts
    <2>2. ~HasForm(2, TimeForm)
      <3>1. At(2 + 5) # Colon
        <4>1. 2 + 5 = 7
          OBVIOUS
        <4> QED
          BY <1>3, <4>1, Named
      <3> QED
        BY <3>1, FormFacts
    <2>3. MomentsAt(2) = {}
      BY <2>1, <2>2, NoMoment
    <2> QED
      BY <2>3 DEF ReadDate
  <1> QED
    BY <1>9, <1>10

LEMMA MomentIsText ==
    ASSUME NEW m, IsMoment(m)
    PROVE  EncodeMoment(m) \in Seq(Int)
  <1>1. CASE m.kind = "date"
    <2>1. m.date \in Int \X Int \X Int /\ ValidDate(m.date) /\ EncodeMoment(m) = EncodeDate(m.date)
      BY <1>1 DEF IsMoment, Valid, EncodeMoment
    <2> QED
      BY <2>1, DateIsText
  <1>2. CASE m.kind = "time"
    <2>1. /\ m.time \in Int \X Int \X Int \X Int /\ ValidTime(m.time)
          /\ EncodeMoment(m) = EncodeTime(m.time)
      BY <1>2 DEF IsMoment, Valid, EncodeMoment
    <2>2. CASE m.time[3] > 0 \/ m.time[4] > 0
      <3>1. EncodeTime(m.time) = Stamp(<<>>, m.time)
        BY <2>1, <2>2, ClockText
      <3>2. <<>> \in Seq(Int)
        BY EmptySeq
      <3> QED
        BY <2>1, <3>1, <3>2, StampReads
    <2>3. CASE m.time[3] = 0 /\ m.time[4] = 0
      BY <2>1, <2>3, BareText
    <2> QED
      BY SMT, <2>1, <2>2, <2>3, TimeFields
  <1>3. CASE m.kind = "datetime"
    <2> DEFINE space == IF m.offset = <<>> THEN 32 ELSE 84
               front == EncodeDate(m.date) \o <<space>>
               stamp == Stamp(front, m.time)
               zone == Zone(m.offset)
    <2>1. /\ m.time \in Int \X Int \X Int \X Int /\ ValidTime(m.time)
          /\ m.date \in Int \X Int \X Int /\ ValidDate(m.date)
      BY <1>3 DEF IsMoment, Valid
    <2>2. EncodeMoment(m) = stamp \o zone
      BY <1>3, DateTimeText DEF EncodeMoment
    <2>3. space \in Int
      OBVIOUS
    <2> HIDE DEF space
    <2>4. front \in Seq(Int)
      BY <2>1, <2>3, DatedText
    <2> HIDE DEF front
    <2>5. stamp \in Seq(Int)
      BY <2>1, <2>4, StampReads
    <2>6. zone \in Seq(Int)
      BY <1>3, ReadBackDateTime, ZoneRead
    <2> HIDE DEF stamp, zone
    <2> QED
      BY <2>2, <2>5, <2>6, Joined
  <1> QED
    BY <1>1, <1>2, <1>3 DEF IsMoment

(* What a moment is read as: a time comes back without its tzinfo. *)
AsRead(m) ==
    IF m.kind = "time" THEN Moment("time", NoDate, m.time, <<>>) ELSE ReadBack(m)

LEMMA AsReadIs ==
    ASSUME NEW m, IsMoment(m), ~(m.kind = "time" /\ m.offset # <<>>)
    PROVE  AsRead(m) = ReadBack(m)
  <1>1. CASE m.kind # "time"
    BY <1>1 DEF AsRead
  <1>2. CASE m.kind = "time"
    <2>1. m.offset = <<>> /\ m.date = NoDate /\ m = Moment(m.kind, m.date, m.time, m.offset)
      BY <1>2 DEF IsMoment
    <2>2. m = Moment("time", NoDate, m.time, <<>>)
      BY <1>2, <2>1
    <2> QED
      BY <1>2, <2>1, <2>2 DEF AsRead, ReadBack
  <1> QED
    BY <1>1, <1>2

(* What an input of origin "moment" is read as. *)
LEMMA MomentText ==
    ASSUME input \in Inputs, input.origin = "moment"
    PROVE  /\ input.parseDate /\ At(1) = Quote /\ End \in Nat /\ End > 1
           /\ \/ \E m \in input.moments :
                    /\ IsMoment(m) /\ ~Plainly(m)
                    /\ ReadDate(2) = {[moment |-> AsRead(m), next |-> End - 1]}
              \/ Bare /\ ReadDate(2) = {}
  <1>1. PICK m \in input.moments :
              IsMoment(m) /\ input.text = <<Quote>> \o EncodeMoment(m) \o <<Quote>>
    BY MomentAssumption
  <1>2. input.parseDate
    BY MomentAssumption
  <1>3. At(1) = Quote /\ End \in Nat /\ End > 1
    <2> DEFINE s == EncodeMoment(m)
    <2>1. s \in Seq(Int)
      BY <1>1, MomentIsText
    <2> HIDE DEF s
    <2>2. End = Len(s) + 3 /\ Len(s) \in Nat /\ At(1) = Quote
      BY <1>1, <2>1, QuotedText DEF s
    <2> QED
      BY <2>2
  <1>4. CASE Plainly(m)
    BY <1>1, <1>2, <1>3, <1>4, BareIs
  <1>5. CASE ~Plainly(m)
    <2>1. ReadDate(2) = {[moment |-> AsRead(m), next |-> End - 1]}
      <3>1. CASE m.kind = "date"
        BY <1>1, <3>1, DateBack DEF AsRead
      <3>2. CASE m.kind = "time"
        <4>1. m.time[3] > 0 \/ m.time[4] > 0
          <5>1. m.time \in Int \X Int \X Int \X Int /\ ValidTime(m.time)
            BY <1>1, <3>2 DEF IsMoment, Valid
          <5>2. m.time[3] # 0 \/ m.time[4] # 0
            BY <1>5, <3>2 DEF Plainly
          <5> QED
            BY SMT, <5>1, <5>2, TimeFields
        <4> QED
          BY <1>1, <3>2, <4>1, TimeBack DEF AsRead
      <3>3. CASE m.kind = "datetime"
        BY <1>1, <3>3, DateTimeBack DEF AsRead
      <3> QED
        BY <1>1, <3>1, <3>2, <3>3 DEF IsMoment
    <2> QED
      BY <1>1, <1>2, <1>3, <1>5, <2>1
  <1> QED
    BY <1>4, <1>5

-----------------------------------------------------------------------------
(* maxchar while the characters of a clock are read: an OR is at most a sum. *)
LEMMA WidenedAtMost ==
    ASSUME maxchar \in Nat, NEW chars, chars \in Seq(0..MaxUnicode),
           \A i \in 1..Len(chars) : chars[i] <= 58
    PROVE  Widened(chars) <= maxchar + 58 * Len(chars)
  <1> DEFINE k == Len(chars)
             f == CHOOSE g : Widenings(g, chars, k)
  <1>1. k \in Nat /\ \A i \in 1..k : chars[i] \in Nat /\ chars[i] <= 58
    <2>1. k \in Nat
      BY LenProperties
    <2>2. \A i \in 1..k : chars[i] \in 0..MaxUnicode
      BY ElementOfSeq
    <2> QED
      BY <2>1, <2>2, MaxUnicodeFacts
  <1>2. Widenings(f, chars, k)
    BY <1>1, WideningsExist
  <1>3. Widened(chars) = f[k]
    BY DEF Widened, Widenings
  <1> HIDE DEF f, k
  <1>4. \A n \in 0..k : f[n] = IF n = 0 THEN maxchar ELSE BitOr(f[n - 1], chars[n])
    BY <1>2 DEF Widenings
  <1> DEFINE Below(n) == f[n] \in Nat /\ f[n] <= maxchar + 58 * n
             S == {n \in 0..k : ~Below(n)}
  <1>5. S = {}
    <2> SUFFICES ASSUME S # {} PROVE FALSE
      OBVIOUS
    <2>1. PICK n \in S : \A i \in S : n <= i
      <3>1. S \in SUBSET Nat
        BY <1>1
      <3> HIDE DEF S
      <3> QED
        BY <3>1, LeastNumber
    <2>2. n \in 0..k /\ ~Below(n)
      BY <2>1
    <2>3. CASE n = 0
      BY <1>4, <2>2, <2>3
    <2>4. CASE n # 0
      <3>1. n \in 1..k /\ n - 1 \in 0..k /\ n - 1 \notin S /\ n \in Nat
        BY <1>1, <2>1, <2>2, <2>4
      <3>2. Below(n - 1)
        <4> HIDE DEF Below
        <4> QED
          BY <3>1
      <3> DEFINE before == f[n - 1]
                 char == chars[n]
      <3>3. f[n] = BitOr(before, char)
        BY <1>4, <2>2, <2>4
      <3>4. before \in Nat /\ char \in Nat /\ char <= 58 /\ before <= maxchar + 58 * (n - 1)
        BY <1>1, <3>1, <3>2
      <3> HIDE DEF before, char
      <3>5. f[n] \in Nat /\ f[n] <= before + char
        BY <3>3, <3>4, BitOrBounds
      <3>6. Below(n)
        BY <3>1, <3>4, <3>5
      <3> QED
        BY <2>2, <3>6
    <2> QED
      BY <2>3, <2>4
  <1>6. Below(k)
    <2>1. k \in 0..k
      BY <1>1
    <2> HIDE DEF Below
    <2> QED
      BY <1>5, <2>1
  <1> QED
    BY <1>3, <1>6 DEF k

-----------------------------------------------------------------------------
(* The invariant: a moment that is read as such is read at once; a time     *)
(* without seconds is in strBuffer when the cursor is at its closing quote; *)
(* and where memory was wanted, the text is read as any other string.       *)

IsMomentInput == input \in Inputs /\ input.origin = "moment"

AtBare ==
    /\ Bare
    /\ \/ cursor = 2 /\ Fresh /\ ~Narrow
       \/ /\ cursor = 7 /\ strBuffer = SubSeq(Text, 2, 6)
          /\ maxchar \in 127..417

MomentInv ==
    IsMomentInput =>
        /\ pc \in {"value", "string", "ascii", "read", "done"}
        /\ pc = "value" => cursor = 1
        /\ pc \in {"string", "ascii"} => cursor = 2
        /\ pc \in {"value", "string", "ascii"} => Fresh
        /\ pc \in {"value", "string"} => ~starved
        /\ pc = "ascii" => Narrow /\ (starved \/ Bare)
        /\ pc = "read" => starved \/ AtBare
        /\ MomentsReadBack

LEMMA SameMoment ==
    ASSUME input' = input
    PROVE  /\ End' = End /\ Text' = Text /\ (Bare' <=> Bare) /\ (Narrow' <=> Narrow)
           /\ (IsMomentInput' <=> IsMomentInput)
           /\ \A i : At(i)' = At(i)
  BY DEF End, Text, At, Bare, Narrow, IsMomentInput

(* The ways a step can end. *)
LEMMA ReadAsString ==
    ASSUME input' = input, pc' = "done", Bare,
           result' = [kind |-> "str", text |-> SubSeq(Text, 2, 6)]
    PROVE  MomentInv'
  <1>1. PICK m \in input.moments : Plainly(m) /\ EncodeTime(m.time) = SubSeq(Text, 2, 6)
    BY DEF Bare
  <1>2. MomentsReadBack'
    BY <1>1 DEF MomentsReadBack, Plainly
  <1> QED
    BY <1>2 DEF MomentInv

LEMMA NotDone ==
    ASSUME pc' # "done"
    PROVE  MomentsReadBack'
  BY DEF MomentsReadBack

LEMMA OutOfMemory ==
    ASSUME starved', pc' = "read" \/ (pc' = "done" /\ result'.kind \in {"str", "error"})
    PROVE  MomentInv'
  BY DEF MomentInv, MomentsReadBack

(* From then on only a str or an error comes back. *)
LEMMA StillStarved ==
    ASSUME starved, ReadAscii \/ EndString \/ ReadEscape \/ ReadSlice \/ ReadUtf8
                       \/ NoMemory \/ EndMissing
    PROVE  MomentInv'
  <1>1. \A what : Error(what).kind = "error"
    BY DEF Error
  <1>2. NewString(maxchar).kind \in {"str", "error"}
    BY <1>1 DEF NewString
  <1>3. CASE ReadAscii
    <2> DEFINE i == SliceEnd(cursor, NotAscii)
               str == [kind |-> "str", text |-> SubSeq(Text, cursor, i - 1)]
    <2>1. \/ result' = str /\ pc' = "done" /\ starved' = starved
          \/ pc' = "read" /\ starved' = starved
          \/ result' = Error("memory") /\ pc' = "done" /\ starved' = TRUE
      BY <1>3 DEF ReadAscii, Done
    <2>2. str.kind = "str"
      OBVIOUS
    <2> HIDE DEF str
    <2> QED
      BY <1>1, <2>1, <2>2, OutOfMemory
  <1>4. CASE EndString
    BY <1>1, <1>2, <1>4, OutOfMemory DEF EndString, Done
  <1>5. CASE ReadEscape
    BY <1>1, <1>5, OutOfMemory DEF ReadEscape, AtEscape, Reading, Take, Done
  <1>6. CASE ReadSlice
    BY <1>6, OutOfMemory DEF ReadSlice, AtText, Reading, Take
  <1>7. CASE ReadUtf8
    BY <1>1, <1>7, OutOfMemory DEF ReadUtf8, AtText, Reading, Take, Done
  <1>8. CASE NoMemory
    BY <1>1, <1>8, OutOfMemory DEF NoMemory, Done
  <1>9. CASE EndMissing
    BY <1>1, <1>9, OutOfMemory DEF EndMissing, Done, stringVars
  <1> QED
    BY <1>3, <1>4, <1>5, <1>6, <1>7, <1>8, <1>9

(* The characters of a clock, up to its quote. *)
LEMMA BareStretch ==
    ASSUME IsMomentInput, Bare, NEW stops, Quote \in stops, ClockChars \cap stops = {}
    PROVE  SliceEnd(2, stops) = 7
  <1> DEFINE j == SliceEnd(2, stops)
  <1>1. End = 8 /\ At(7) = Quote /\ \A k \in 2..6 : At(k) \in ClockChars
    BY DEF Bare
  <1>2. 2 \in 1..End /\ input \in Inputs
    BY <1>1 DEF IsMomentInput
  <1>3. /\ j \in 2..End /\ (j = End \/ At(j) \in stops)
        /\ \A k \in 2..(j - 1) : At(k) \notin stops
    BY <1>2, SliceEnds
  <1> HIDE DEF j
  <1>4. j <= 7
    <2> SUFFICES ASSUME j > 7 PROVE FALSE
      BY <1>1, <1>3
    <2>1. 7 \in 2..(j - 1)
      BY <1>1, <1>3
    <2> QED
      BY <1>1, <1>3, <2>1
  <1>5. j >= 7
    <2> SUFFICES ASSUME j < 7 PROVE FALSE
      BY <1>1, <1>3
    <2>1. j \in 2..6 /\ j # End
      BY <1>1, <1>3
    <2> QED
      BY <1>1, <1>3, <2>1
  <1>6. j = 7
    BY <1>1, <1>3, <1>4, <1>5
  <1> QED
    BY <1>6 DEF j

-----------------------------------------------------------------------------
(* The actions. *)

LEMMA MomentInit == Init => MomentInv
  BY DEF Init, StringInit, MomentInv, Fresh, MomentsReadBack

LEMMA ReadValueMoment == MomentInv /\ ReadValue => MomentInv'
  <1> SUFFICES ASSUME MomentInv, ReadValue, IsMomentInput' PROVE MomentInv'
    BY DEF MomentInv
  <1>1. IsMomentInput /\ input' = input /\ pc = "value" /\ UNCHANGED stringVars
    BY SameMoment DEF ReadValue
  <1>2. cursor = 1 /\ Fresh /\ ~starved
    BY <1>1 DEF MomentInv
  <1>3. At(cursor) = Quote
    BY <1>1, <1>2, MomentText DEF IsMomentInput
  <1>4. cursor' = cursor + 1 /\ pc' = "string"
    <2>1. Quote \notin {9, 10, 13, 32}
      BY DEF Quote
    <2>2. ~BeginsNumber(Quote)
      BY DEF BeginsNumber
    <2> QED
      BY <1>3, <2>1, <2>2 DEF ReadValue
  <1>5. MomentsReadBack'
    BY <1>4, NotDone
  <1> QED
    BY <1>1, <1>2, <1>4, <1>5 DEF MomentInv, Fresh, stringVars

LEMMA ReadWordMoment == MomentInv /\ ReadWord => MomentInv'
  <1> SUFFICES ASSUME MomentInv, ReadWord, IsMomentInput' PROVE FALSE
    BY DEF MomentInv
  <1>1. IsMomentInput /\ pc = "value"
    BY SameMoment DEF ReadWord
  <1>2. At(cursor) = Quote
    BY <1>1, MomentText DEF MomentInv, IsMomentInput
  <1>3. PICK w \in Words : At(cursor) = w.word[1]
    BY DEF ReadWord
  <1>4. w.word[1] # Quote
    <2>1. w.word = <<116, 114, 117, 101>> \/ w.word = <<102, 97, 108, 115, 101>>
             \/ w.word = <<110, 117, 108, 108>>
      BY DEF Words
    <2>2. w.word[1] = 116 \/ w.word[1] = 102 \/ w.word[1] = 110
      BY <2>1
    <2> QED
      BY <2>2 DEF Quote
  <1> QED
    BY <1>2, <1>3, <1>4

LEMMA NumberNoMoment == MomentInv /\ NumberNext => MomentInv'
  <1> SUFFICES ASSUME MomentInv, NumberNext, IsMomentInput' PROVE FALSE
    BY DEF MomentInv
  <1>1. pc \in NumberLabels /\ input' = input
    BY DEF NumberNext, ReadNumber, IntDigit, BigDigit, Point, FractionDigit, Exponent,
           ExponentDigit, MakeFloat, NumberLabels
  <1>2. IsMomentInput
    BY <1>1, SameMoment
  <1>3. pc \in {"value", "string", "ascii", "read", "done"}
    BY <1>2 DEF MomentInv
  <1> QED
    BY <1>1, <1>3 DEF NumberLabels

LEMMA ReadStringMoment == MomentInv /\ ReadString => MomentInv'
  <1> SUFFICES ASSUME MomentInv, ReadString, IsMomentInput' PROVE MomentInv'
    BY DEF MomentInv
  <1>1. /\ IsMomentInput /\ input' = input /\ pc = "string"
        /\ UNCHANGED <<strBuffer, maxchar>>
    BY SameMoment DEF ReadString
  <1>2. cursor = 2 /\ Fresh /\ ~starved
    BY <1>1 DEF MomentInv
  <1>3. /\ input.parseDate /\ End \in Nat
        /\ \/ \E m \in input.moments :
                 /\ IsMoment(m) /\ ~Plainly(m)
                 /\ ReadDate(2) = {[moment |-> AsRead(m), next |-> End - 1]}
           \/ Bare /\ ReadDate(2) = {}
    BY <1>1, MomentText DEF IsMomentInput
  <1>4. \/ /\ \E r \in ReadDate(2) : Done([kind |-> "moment", moment |-> r.moment], r.next + 1)
           /\ starved' = starved
        \/ /\ pc' = IF Narrow THEN "ascii" ELSE "read"
           /\ starved' = (ReadDate(2) # {})
           /\ cursor' = cursor
    BY <1>2, <1>3 DEF ReadString
  <1>5. Fresh' /\ (Narrow' <=> Narrow) /\ (Bare' <=> Bare)
    BY <1>1, <1>2, SameMoment DEF Fresh
  <1>6. CASE /\ \E r \in ReadDate(2) : Done([kind |-> "moment", moment |-> r.moment], r.next + 1)
             /\ starved' = starved
    <2>1. PICK m \in input.moments :
             IsMoment(m) /\ ~Plainly(m) /\ ReadDate(2) = {[moment |-> AsRead(m), next |-> End - 1]}
      BY <1>3, <1>6
    <2> DEFINE back == AsRead(m)
    <2>2. Done([kind |-> "moment", moment |-> back], (End - 1) + 1)
      <3> DEFINE s == [moment |-> back, next |-> End - 1]
      <3>1. ReadDate(2) = {s}
        BY <2>1
      <3>2. s.moment = back /\ s.next = End - 1
        OBVIOUS
      <3> HIDE DEF s, back
      <3>3. Done([kind |-> "moment", moment |-> s.moment], s.next + 1)
        BY <1>6, <3>1
      <3> QED
        BY <3>2, <3>3
    <2>3. result' = [kind |-> "moment", moment |-> back] /\ cursor' = End /\ pc' = "done"
      BY <1>3, <2>2 DEF Done
    <2>4. End' = End /\ m \in input.moments' /\ ~starved'
      BY <1>1, <1>2, <1>6, SameMoment
    <2>5. (m.kind = "time" /\ m.offset # <<>>) \/ back = ReadBack(m)
      BY <2>1, AsReadIs
    <2> HIDE DEF back
    <2>6. MomentsReadBack'
      BY <2>1, <2>3, <2>4, <2>5 DEF MomentsReadBack, Plainly
    <2> QED
      BY <2>3, <2>6 DEF MomentInv
  <1>7. CASE /\ pc' = IF Narrow THEN "ascii" ELSE "read"
             /\ starved' = (ReadDate(2) # {})
             /\ cursor' = cursor
    <2>1. starved' \/ (Bare /\ ~starved')
      BY <1>3, <1>7
    <2>2. MomentsReadBack'
      BY <1>7, NotDone
    <2> QED
      BY <1>2, <1>5, <1>7, <2>1, <2>2 DEF MomentInv, AtBare
  <1> QED
    BY <1>4, <1>6, <1>7

LEMMA ReadAsciiMoment == MomentInv /\ ReadAscii => MomentInv'
  <1> SUFFICES ASSUME MomentInv, ReadAscii, IsMomentInput', ~starved PROVE MomentInv'
    BY StillStarved DEF MomentInv
  <1>1. IsMomentInput /\ input' = input /\ pc = "ascii" /\ maxchar' = maxchar
    BY SameMoment DEF ReadAscii
  <1>2. cursor = 2 /\ Fresh /\ Bare
    BY <1>1 DEF MomentInv
  <1>3. SliceEnd(2, NotAscii) = 7
    <2>1. Quote \in NotAscii /\ ClockChars \cap NotAscii = {}
      BY DEF NotAscii, Special, Quote, Backslash, ClockChars, Digits, Colon
    <2> QED
      BY <1>1, <1>2, <2>1, BareStretch
  <1>4. \/ result' = [kind |-> "str", text |-> SubSeq(Text, 2, 6)] /\ pc' = "done"
        \/ strBuffer' = SubSeq(Text, 2, 6) /\ cursor' = 7 /\ pc' = "read"
        \/ starved' = TRUE /\ result' = Error("memory") /\ pc' = "done"
    <2>1. 7 - 1 = 6
      OBVIOUS
    <2> QED
      BY <1>2, <1>3, <2>1 DEF ReadAscii, AsciiPrefix, Done
  <1>5. CASE result' = [kind |-> "str", text |-> SubSeq(Text, 2, 6)] /\ pc' = "done"
    BY <1>1, <1>2, <1>5, ReadAsString
  <1>6. CASE strBuffer' = SubSeq(Text, 2, 6) /\ cursor' = 7 /\ pc' = "read"
    <2>1. maxchar' = 127 /\ Bare' /\ Text' = Text
      BY <1>1, <1>2, SameMoment DEF Fresh
    <2>2. MomentsReadBack'
      BY <1>6, NotDone
    <2>3. AtBare'
      BY <1>6, <2>1 DEF AtBare
    <2> QED
      BY <1>6, <2>2, <2>3 DEF MomentInv
  <1>7. CASE starved' = TRUE /\ result' = Error("memory") /\ pc' = "done"
    BY <1>7, OutOfMemory DEF Error
  <1> QED
    BY <1>4, <1>5, <1>6, <1>7

(* At the closing quote. *)
LEMMA EndStringMoment == TypeInv /\ MomentInv /\ EndString => MomentInv'
  <1> SUFFICES ASSUME TypeInv, MomentInv, EndString, IsMomentInput', ~starved PROVE MomentInv'
    BY StillStarved DEF MomentInv
  <1>1. /\ IsMomentInput /\ input' = input /\ pc = "read" /\ At(cursor) = Quote
        /\ \/ Done(NewString(maxchar), cursor + 1)
           \/ Done(Error("memory"), cursor + 1) /\ starved' = TRUE
    BY SameMoment DEF EndString, AtQuote, Reading
  <1>2. AtBare
    BY <1>1 DEF MomentInv
  <1>3. Bare /\ \A k \in 2..6 : At(k) \in ClockChars
    BY <1>2 DEF AtBare, Bare
  <1>4. Quote \notin ClockChars
    BY Named DEF ClockChars
  <1>5. /\ strBuffer = SubSeq(Text, 2, 6) /\ maxchar \in 127..417
    <2>1. cursor # 2
      BY <1>1, <1>3, <1>4
    <2> QED
      BY <1>2, <2>1 DEF AtBare
  <1>6. NewString(maxchar) = [kind |-> "str", text |-> strBuffer]
    <2>1. maxchar \in Nat /\ maxchar <= MaxUnicode /\ maxchar >= 127
      BY <1>5 DEF MaxUnicode
    <2>2. strBuffer \in Seq(0..MaxUnicode)
      BY DEF TypeInv, TypeOK
    <2>3. \A i \in 1..Len(strBuffer) : strBuffer[i] <= maxchar
      <3> DEFINE slice == SubSeq(Text, 2, 7 - 1)
      <3>1. 2 \in 1..End /\ 7 \in 2..End /\ input \in Inputs
        BY <1>1, <1>3 DEF Bare, IsMomentInput
      <3>2. /\ Len(slice) = 7 - 2
            /\ \A k \in 1..(7 - 2) : slice[k] = At(2 + k - 1)
        BY <3>1, Stretch
      <3>3. strBuffer = slice
        <4>1. 7 - 1 = 6
          OBVIOUS
        <4> QED
          BY <1>5, <4>1
      <3> HIDE DEF slice
      <3>4. Len(strBuffer) = 5
        BY <3>2, <3>3
      <3> SUFFICES ASSUME NEW i \in 1..5 PROVE slice[i] <= maxchar
        BY <3>3, <3>4
      <3>5. 2 + i - 1 \in 2..6 /\ i \in 1..(7 - 2)
        OBVIOUS
      <3>6. At(2 + i - 1) \in ClockChars /\ slice[i] = At(2 + i - 1)
        BY <1>3, <3>2, <3>5
      <3>7. slice[i] \in Nat /\ slice[i] <= 58
        BY <3>6 DEF ClockChars, Digits, Colon
      <3> QED
        BY <2>1, <3>7
    <2> QED
      BY <2>1, <2>2, <2>3, NewStringHolds
  <1>7. CASE Done(NewString(maxchar), cursor + 1)
    BY <1>1, <1>3, <1>5, <1>6, <1>7, ReadAsString DEF Done
  <1>8. CASE Done(Error("memory"), cursor + 1) /\ starved' = TRUE
    BY <1>8, OutOfMemory DEF Done, Error
  <1> QED
    BY <1>1, <1>7, <1>8

(* From the first character of a time in a wide str to its quote. *)
LEMMA ReadSliceMoment == TypeInv /\ MomentInv /\ ReadSlice => MomentInv'
  <1> SUFFICES ASSUME TypeInv, MomentInv, ReadSlice, IsMomentInput', ~starved PROVE MomentInv'
    BY StillStarved DEF MomentInv
  <1> DEFINE next == SliceEnd(cursor, Special)
  <1>1. /\ IsMomentInput /\ input' = input /\ pc = "read" /\ At(cursor) # Quote
        /\ Take(SubSeq(Text, cursor, next - 1), next)
    BY SameMoment DEF ReadSlice, AtText, Reading, Special
  <1>2. AtBare /\ Bare
    BY <1>1 DEF MomentInv, AtBare
  <1>3. cursor = 2 /\ Fresh
    <2>1. cursor # 7
      BY <1>1, <1>2 DEF Bare
    <2> QED
      BY <1>2, <2>1 DEF AtBare
  <1>4. next = 7
    <2>1. Quote \in Special /\ ClockChars \cap Special = {}
      BY DEF Special, Quote, Backslash, ClockChars, Digits, Colon
    <2> QED
      BY <1>1, <1>2, <1>3, <2>1, BareStretch
  <1> DEFINE slice == SubSeq(Text, 2, 6)
  <1>5. /\ strBuffer' = <<>> \o slice /\ maxchar' = Widened(slice)
        /\ cursor' = 7 /\ pc' = "read"
    <2>1. 7 - 1 = 6
      OBVIOUS
    <2> QED
      BY <1>1, <1>3, <1>4, <2>1 DEF Take, Fresh
  <1>6. /\ slice \in Seq(0..MaxUnicode) /\ Len(slice) = 5
        /\ \A i \in 1..Len(slice) : slice[i] <= 58
    <2> DEFINE part == SubSeq(Text, 2, 7 - 1)
    <2>1. 2 \in 1..End /\ 7 \in 2..End /\ input \in Inputs
      BY <1>1, <1>2 DEF Bare, IsMomentInput
    <2>2. /\ part \in Seq(0..MaxUnicode) /\ Len(part) = 7 - 2
          /\ \A k \in 1..(7 - 2) : part[k] = At(2 + k - 1)
      BY <2>1, Stretch
    <2>3. slice = part
      <3>1. 7 - 1 = 6
        OBVIOUS
      <3> QED
        BY <3>1
    <2> HIDE DEF slice, part
    <2>4. ASSUME NEW i \in 1..5 PROVE part[i] <= 58
      <3>1. 2 + i - 1 \in 2..6 /\ i \in 1..(7 - 2)
        OBVIOUS
      <3>2. At(2 + i - 1) \in ClockChars /\ part[i] = At(2 + i - 1)
        BY <1>2, <2>2, <3>1 DEF Bare
      <3> QED
        BY <3>2 DEF ClockChars, Digits, Colon
    <2>5. Len(part) = 5
      BY <2>2
    <2> QED
      BY <2>2, <2>3, <2>4, <2>5
  <1> HIDE DEF slice, next
  <1>7. strBuffer' = slice
    BY <1>5, <1>6, ConcatEmptySeq
  <1>8. maxchar' \in 127..417
    <2>1. maxchar = 127
      BY <1>3 DEF Fresh
    <2>2. Widened(slice) \in Nat /\ Widened(slice) >= maxchar
      BY <1>6, <2>1, WidenedBounds
    <2>3. Widened(slice) <= maxchar + 58 * Len(slice)
      BY <1>6, <2>1, WidenedAtMost
    <2>4. 58 * Len(slice) = 290
      BY <1>6
    <2> DEFINE w == Widened(slice)
               b == 58 * Len(slice)
    <2>5. w \in Nat /\ w >= 127 /\ w <= 127 + b /\ b = 290 /\ maxchar' = w
      BY <1>5, <2>1, <2>2, <2>3, <2>4
    <2> HIDE DEF w, b
    <2>6. w \in 127..417
      BY <2>5
    <2> QED
      BY <2>5, <2>6
  <1>9. Bare' /\ Text' = Text
    BY <1>1, <1>2, SameMoment
  <1>10. MomentsReadBack'
    BY <1>5, NotDone
  <1>11. AtBare'
    BY <1>5, <1>7, <1>8, <1>9 DEF AtBare, slice
  <1> QED
    BY <1>5, <1>10, <1>11 DEF MomentInv

(* No escape and no byte of a character is met. *)
LEMMA OthersMoment ==
    MomentInv /\ (ReadEscape \/ ReadUtf8 \/ NoMemory \/ EndMissing) => MomentInv'
  <1> SUFFICES ASSUME MomentInv, ReadEscape \/ ReadUtf8 \/ NoMemory \/ EndMissing,
                      IsMomentInput', ~starved
               PROVE  MomentInv'
    BY StillStarved DEF MomentInv
  <1>1. IsMomentInput /\ input' = input /\ pc = "read"
    BY SameMoment DEF ReadEscape, AtEscape, ReadUtf8, AtText, NoMemory, EndMissing, Reading
  <1>2. AtBare /\ Bare
    BY <1>1 DEF MomentInv, AtBare
  <1>3. At(2) \in ClockChars /\ At(7) = Quote /\ End = 8
    <2>1. 2 \in 2..6
      OBVIOUS
    <2> QED
      BY <1>2, <2>1 DEF Bare
  <1>4. (cursor = 2 /\ ~Narrow) \/ cursor = 7
    BY <1>2 DEF AtBare
  <1>5. Backslash \notin ClockChars /\ Backslash # Quote
    BY DEF Backslash, ClockChars, Digits, Colon, Quote
  <1>6. ~ReadEscape
    BY <1>3, <1>4, <1>5 DEF ReadEscape, AtEscape
  <1>7. ~ReadUtf8
    BY <1>3, <1>4 DEF ReadUtf8, AtText, Special, Narrow
  <1>8. ~EndMissing
    BY <1>3, <1>4 DEF EndMissing
  <1>9. starved' = TRUE /\ pc' = "done" /\ result' = Error("memory")
    BY <1>6, <1>7, <1>8 DEF NoMemory, Done
  <1> QED
    BY <1>9, OutOfMemory DEF Error

LEMMA MomentStays == MomentInv /\ UNCHANGED vars => MomentInv'
  <1> SUFFICES ASSUME MomentInv, UNCHANGED vars PROVE MomentInv'
    OBVIOUS
  <1>1. /\ input' = input /\ cursor' = cursor /\ pc' = pc /\ result' = result
        /\ strBuffer' = strBuffer /\ maxchar' = maxchar /\ starved' = starved
    BY DEF vars, inputVars, stringVars
  <1>2. /\ (IsMomentInput' <=> IsMomentInput) /\ (Bare' <=> Bare) /\ (Narrow' <=> Narrow)
        /\ Text' = Text /\ End' = End
    BY <1>1, SameMoment
  <1>3. (Fresh' <=> Fresh) /\ (AtBare' <=> AtBare)
    BY <1>1, <1>2 DEF Fresh, AtBare
  <1>4. MomentsReadBack' <=> MomentsReadBack
    BY <1>1, <1>2 DEF MomentsReadBack
  <1> QED
    BY <1>1, <1>2, <1>3, <1>4 DEF MomentInv

LEMMA NextMoment == TypeInv /\ MomentInv /\ [Next]_vars => MomentInv'
  <1> SUFFICES ASSUME TypeInv, MomentInv, [Next]_vars PROVE MomentInv'
    OBVIOUS
  <1>1. CASE ReadValue
    BY <1>1, ReadValueMoment
  <1>2. CASE ReadWord
    BY <1>2, ReadWordMoment
  <1>3. CASE NumberNext
    BY <1>3, NumberNoMoment
  <1>4. CASE StringNext
    BY <1>4, ReadStringMoment, ReadAsciiMoment, EndStringMoment, ReadSliceMoment,
       OthersMoment DEF StringNext
  <1>5. CASE UNCHANGED vars
    BY <1>5, MomentStays
  <1> QED
    BY <1>1, <1>2, <1>3, <1>4, <1>5 DEF Next

(* loads reads back every date, datetime and time that dumps writes as the  *)
(* same moment, a datetime up to the seconds of its offset and a time with  *)
(* a tzinfo left out: DateParser inverts EncodeDate, EncodeTime and         *)
(* EncodeDateTime for every date of the calendar, every microsecond and     *)
(* every offset, in every kind of input; for want of memory a str or an     *)
(* error comes back, and no other moment.                                   *)
THEOREM MomentsRead == Spec => []MomentsReadBack
  <1>1. MomentInv /\ TypeInv /\ [Next]_vars => MomentInv'
    BY NextMoment
  <1>2. TypeInv /\ MomentInv => MomentsReadBack
    <2>1. CASE input.origin = "moment"
      BY <2>1 DEF TypeInv, MomentInv, IsMomentInput
    <2>2. CASE input.origin # "moment"
      BY <2>2 DEF MomentsReadBack
    <2> QED
      BY <2>1, <2>2
  <1> QED
    BY <1>1, <1>2, MomentInit, TypeInvariance, PTL DEF Spec
=============================================================================
