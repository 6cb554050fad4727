----------------------------- MODULE MCScalars -----------------------------
(***************************************************************************)
(* Numbers, strings and moments, in each kind of input.  With IntMax = 127 *)
(* a long long has eight bits, so that three digits reach and pass its     *)
(* limits, and an int six; floatBuffer holds MaxDigits characters.         *)
(***************************************************************************)
EXTENDS Scalars

CONSTANT MaxLength

Input(kind, text, origin, pieces, moments) ==
    [kind |-> kind, text |-> text, parseDate |-> TRUE, origin |-> origin,
     pieces |-> pieces, moments |-> moments]

(* Every text of up to MaxLength characters of 0 1 5 6 - + . e, and some    *)
(* longer numbers: ints on either side of the limits, and digits, fractions *)
(* and exponents up to floatBuffer's size.                                  *)
ShortTexts == UNION {[1..n -> {48, 49, 53, 54, Minus, Plus, Dot, LowerE}] : n \in 0..MaxLength}

Long ==
    {sign \o int \o fraction \o power :
        sign \in {<<>>, <<Minus>>},
        int \in {<<48>>, <<49, 53>>, <<49, 50, 55>>, <<49, 50, 56>>, <<49, 50, 57>>,
                 <<49, 51, 48>>, <<49, 50, 56, 57>>, <<49, 50, 56, 49>>, <<50, 48, 48, 48>>,
                 <<53, 48, 49, 54, 55>>, <<49, 49, 49, 49, 49, 49, 49>>},
        fraction \in {<<>>, <<Dot>>, <<Dot, 53>>, <<Dot, 48, 49>>, <<Dot, 48, 48, 48, 54>>},
        power \in {<<>>, <<LowerE>>, <<UpperE, Minus, 50>>, <<LowerE, Plus, 49, 50>>,
                   <<LowerE, 55>>, <<LowerE, 50, 48>>, <<LowerE, 57, 57, 57>>}}

Kinds == {"ucs1", "ucs2", "ucs4", "bytes"}

Names ==
    {<<73, 110, 102, 105, 110, 105, 116, 121>>, <<Minus, 73, 110, 102, 105, 110, 105, 116, 121>>,
     <<78, 97, 78>>, <<73, 110, 102>>, <<116, 114, 117, 101>>, <<110, 117, 108>>,
     <<102, 97, 108, 115, 101>>, <<32, 110, 117, 108, 108>>}

Numbers ==
    {Input(kind, t, "number", <<>>, {}) : kind \in {"ucs1", "ucs4"}, t \in ShortTexts}
        \cup {Input(kind, t, "number", <<>>, {}) : kind \in Kinds, t \in Long}
        \cup {Input("ucs2", t, "name", <<>>, {}) : t \in Names}

(* Pieces of strings. *)
Piece(written, char, unit) == [written |-> written, char |-> char, unit |-> unit]
Plain(char) == Piece(<<char>>, char, FALSE)
UnitOf(hex, char) == Piece(<<Backslash, LowerU>> \o hex, char, TRUE)
Bytes(bytes, char) == Piece(bytes, char, FALSE)

Common ==
    {Plain(122), Plain(1),
     Piece(<<Backslash, 110>>, 10, FALSE), Piece(<<Backslash, Quote>>, Quote, FALSE),
     Piece(<<Backslash, 120>>, -1, FALSE), UnitOf(<<48, 48, 69, 57>>, 233),
     UnitOf(<<100, 56, 51, 68>>, 55357), UnitOf(<<68, 69, 48, 48>>, 56832),
     Piece(<<Backslash, LowerU, 48, 122>>, -1, FALSE)}

PiecesOf(kind) ==
    Common \cup
    CASE kind = "ucs1" -> {Plain(233)}
      [] kind = "ucs2" -> {Plain(20013)}
      [] kind = "ucs4" -> {Plain(20013), Plain(1048576), Plain(1048575)}
      [] kind = "bytes" ->
            {Bytes(<<195, 169>>, 233), Bytes(<<228, 184, 173>>, 20013),
             Bytes(<<244, 128, 128, 128>>, 1048576), Bytes(<<243, 191, 191, 191>>, 1048575),
             Bytes(<<128>>, -1), Bytes(<<237, 160, 128>>, -1), Bytes(<<195, 122>>, -1),
             Bytes(<<244, 144, 128, 128>>, -1), Bytes(<<245, 128, 128, 128>>, -1)}

(* Strings that begin like a date or a time and are none: 8922-00-01,       *)
(* 2001-02-29, 23:59:60, 2000-01-01x, 2000-01-01 10:00, 10:00:00.x and      *)
(* 10:00:00+24:00.                                                          *)
NotDates ==
    {<<56, 57, 50, 50, Minus, 48, 48, Minus, 48, 49>>,
     <<50, 48, 48, 49, Minus, 48, 50, Minus, 50, 57>>,
     <<50, 51, Colon, 53, 57, Colon, 54, 48>>,
     <<50, 48, 48, 48, Minus, 48, 49, Minus, 48, 49, 120>>,
     <<50, 48, 48, 48, Minus, 48, 49, Minus, 48, 49, 32, 49, 48, Colon, 48, 48>>,
     <<49, 48, Colon, 48, 48, Colon, 48, 48, Dot, 120>>,
     <<49, 48, Colon, 48, 48, Colon, 48, 48, Plus, 50, 52, Colon, 48, 48>>}

(* 2000-01-01, 12:34:56 and 2000-01-01T10:00:00Z, for which there may be no  *)
(* memory.                                                                  *)
Dates ==
    {<<50, 48, 48, 48, Minus, 48, 49, Minus, 48, 49>>,
     <<49, 50, Colon, 51, 52, Colon, 53, 54>>,
     <<50, 48, 48, 48, Minus, 48, 49, Minus, 48, 49, 84,
       49, 48, Colon, 48, 48, Colon, 48, 48, UpperZ>>}

(* Strings of up to three pieces, followed by a comma; every beginning of   *)
(* those of two; and those that look like dates.                            *)
StringsOf(kind) ==
    LET upTo(n) == UNION {[1..k -> PiecesOf(kind)] : k \in 0..n}
    IN  {Input(kind, Append(Quoted(ps), 44), "string", ps, {}) : ps \in upTo(3)}
            \cup UNION {{Input(kind, SubSeq(Quoted(ps), 1, n), "string", ps, {}) :
                            n \in 1..(Len(Quoted(ps)) - 1)} : ps \in upTo(2)}
            \cup {Input(kind, Quoted(ps), "string", ps, {}) :
                    ps \in {[k \in DOMAIN t |-> Plain(t[k])] : t \in NotDates \cup Dates}}

Times == {<<0, 0, 0, 0>>, <<12, 32, 0, 0>>, <<23, 59, 59, 0>>, <<4, 1, 2, 345>>,
          <<12, 0, 0, 999999>>, <<7, 30, 0, 120000>>}
Offsets == {<<>>, <<0>>, <<3600>>, <<-3600>>, <<-5400>>, <<20700>>, <<-30>>, <<86340>>, <<-86399>>}
Days == {<<1, 1, 1>>, <<999, 12, 31>>, <<2000, 2, 29>>, <<9999, 10, 5>>}

TimesWithOffset == {Moment("time", NoDate, t, o) : t \in Times, o \in Offsets \ {<<>>}}

Moments ==
    {Moment("date", d, NoTime, <<>>) : d \in Days}
        \cup {Moment("time", NoDate, t, <<>>) : t \in Times}
        \cup TimesWithOffset
        \cup {Moment("datetime", d, t, o) : d \in Days, t \in Times, o \in Offsets}

Dumped(moments) ==
    {Input(kind, <<Quote>> \o EncodeMoment(m) \o <<Quote>>, "moment", <<>>, {m}) :
        kind \in Kinds, m \in moments}

MCInputs == Numbers \cup UNION {StringsOf(kind) : kind \in Kinds} \cup Dumped(Moments)

MCNumbers == Numbers
MCNarrowNumbers == {i \in Numbers : i.kind # "ucs4"}
MCTimes == Dumped(TimesWithOffset)
=============================================================================
