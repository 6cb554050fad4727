------------------------------ MODULE Scalars ------------------------------
(***************************************************************************)
(* ReadValue of src/decoder.h on everything but lists and dicts: which     *)
(* function reads a value, by its first character, and what it reads.      *)
(***************************************************************************)
EXTENDS NumberReader, StringReader

(* The largest unit of an input of this kind; one of "ucs1" or "bytes" is a *)
(* byte.                                                                    *)
Widest(kind) ==
    CASE kind = "ucs4" -> MaxUnicode [] kind = "ucs2" -> 65535 [] OTHER -> 255

CONSTANT Inputs  \* the inputs: their kind, characters, parse_date and origin

ASSUME InputAssumption ==
    \A i \in Inputs :
        /\ i.kind \in {"ucs1", "ucs2", "ucs4", "bytes"}
        /\ i.text \in Seq(0..Widest(i.kind))
        /\ i.parseDate \in BOOLEAN

vars == <<inputVars, numberVars, stringVars>>

Init ==
    /\ input \in Inputs
    /\ cursor = 1
    /\ pc = "value"
    /\ result = Unread
    /\ NumberInit
    /\ StringInit

Words == {[word |-> <<116, 114, 117, 101>>, value |-> "true"],
          [word |-> <<102, 97, 108, 115, 101>>, value |-> "false"],
          [word |-> <<110, 117, 108, 108>>, value |-> "null"]}

(* ReadTrue, ReadFalse, ReadNull *)
ReadWord ==
    /\ pc = "value"
    /\ \E w \in Words :
          /\ At(cursor) = w.word[1]
          /\ IF Reads(cursor, w.word)
             THEN Done([kind |-> w.value], cursor + Len(w.word))
             ELSE Done(Error("word"), cursor)
    /\ UNCHANGED <<input, numberVars, stringVars>>

(* The characters at which ReadValue calls ReadNumber. *)
BeginsNumber(ch) == ch \notin {9, 10, 13, 32, Quote} \cup {w.word[1] : w \in Words}

(* White space is eaten, and the value read by the function for its first   *)
(* character.                                                               *)
ReadValue ==
    /\ pc = "value"
    /\ \/ /\ At(cursor) \in {9, 10, 13, 32}
          /\ cursor' = cursor + 1
          /\ UNCHANGED pc
       \/ At(cursor) = Quote /\ cursor' = cursor + 1 /\ pc' = "string"
       \/ /\ BeginsNumber(At(cursor))
          /\ pc' = "number"
          /\ UNCHANGED cursor
    /\ UNCHANGED <<input, result, numberVars, stringVars>>

Next ==
    \/ ReadValue
    \/ ReadWord
    \/ NumberNext /\ UNCHANGED stringVars
    \/ StringNext /\ UNCHANGED numberVars

Spec == Init /\ [][Next]_vars

-----------------------------------------------------------------------------
(* The cursor never passes the terminator, whatever ends early; no function *)
(* is at a character it does not expect.                                    *)
TypeOK ==
    /\ cursor \in 1..End
    /\ pc \in {"int", "big", "fraction", "power"} => IsDigit(cursor)
    /\ pc = "point" => At(cursor) = Dot
    /\ pc = "exponent" => At(cursor) \in ExponentMarks
    /\ intValue \in -(IntMax + 1)..IntMax
    /\ floatData \in Seq({Minus, Dot, LowerE} \cup Digits)
    /\ pc \in {"ascii", "read", "string"} => cursor > 1
    /\ strBuffer \in Seq(0..MaxUnicode)
    /\ pc = "done" <=> result # Unread

-----------------------------------------------------------------------------
(* Numbers: the reference. *)

NumberText == pc = "done" /\ BeginsNumber(At(1))

Signed == At(1) = Minus
IntFirst == IF Signed THEN 2 ELSE 1

(* A text of digits, and what is written behind it, by position. *)
IntEnd == IF At(IntFirst) = Zero THEN IntFirst + 1 ELSE AfterDigits(IntFirst)
HasPoint == At(IntEnd) = Dot
FractionEnd == IF HasPoint THEN AfterDigits(IntEnd + 1) ELSE IntEnd
HasExponent == At(FractionEnd) \in ExponentMarks
PowerFirst == IF At(FractionEnd + 1) \in {Plus, Minus} THEN FractionEnd + 2 ELSE FractionEnd + 1
NumberEnd == IF HasExponent THEN AfterDigits(PowerFirst) ELSE FractionEnd

IntText == SubSeq(Text, IntFirst, IntEnd - 1)
FractionText == IF HasPoint THEN SubSeq(Text, IntEnd + 1, FractionEnd - 1) ELSE <<>>
PowerText == IF HasExponent THEN SubSeq(Text, PowerFirst, NumberEnd - 1) ELSE <<>>
PowerNegative == HasExponent /\ At(FractionEnd + 1) = Minus

IsNumber ==
    /\ IsDigit(IntFirst)
    /\ HasPoint => IsDigit(IntEnd + 1)
    /\ HasExponent => IsDigit(PowerFirst)

IsInt == ~HasPoint /\ ~HasExponent
Power == IF PowerNegative THEN -ValueOf(PowerText) ELSE ValueOf(PowerText)
IntMeant == IF Signed THEN -ValueOf(IntText) ELSE ValueOf(IntText)

(* What parse_float is to be called with: `E' and `+' are normalised. *)
TextMeant ==
    (IF Signed THEN <<Minus>> ELSE <<>>) \o IntText
        \o (IF HasPoint THEN <<Dot>> \o FractionText ELSE <<>>)
        \o (IF HasExponent THEN <<LowerE>> ELSE <<>>)
        \o (IF PowerNegative THEN <<Minus>> ELSE <<>>) \o PowerText

(* What Strtod is to be called with: digits * 10^exponent is the number. *)
FloatMeant(r) ==
    /\ r.negative = Signed
    /\ r.digits = IntText \o FractionText
    /\ r.exponent = Power - Len(FractionText)

(* The largest int by its magnitude, and whether the int that is written    *)
(* fits.                                                                    *)
Limit == IF Signed THEN IntMax + 1 ELSE IntMax
Fits == IsInt /\ ValueOf(IntText) <= Limit

(* A digit is read after the int has wrapped around. *)
WrapsEarly ==
    \E k \in 1..(Len(IntText) - 1) :
        /\ ValueOf(SubSeq(IntText, 1, k)) > Limit
        /\ ValueOf(SubSeq(IntText, 1, k - 1)) <= Limit \div 10

(* Convert loses the sign of the digits: a negative int in a 4-byte str. *)
WideNegative == input.kind = "ucs4" /\ Signed /\ IsInt /\ At(IntFirst) \in 49..57

(* Near the end of floatBuffer the mark of a negative exponent is left out. *)
MarkDropped ==
    /\ external /\ PowerNegative
    /\ Len(TextMeant) - Len(PowerText) >= MaxDigits

(* The exponent does not fit an int. *)
PowerTooBig ==
    ~external /\ HasExponent /\ ValueOf(PowerText) + Len(FractionText) > ExpMax

Meant(r) ==
    CASE r.kind = "int" -> IsInt /\ r.value = IntMeant
      [] r.kind = "float" -> ~Fits /\ FloatMeant(r)
      [] r.kind = "text" -> ~Fits /\ r.text = TextMeant
      [] r.kind \in {"infinity", "nan"} -> ~IsNumber
      [] OTHER -> FALSE

(* __read_number reads the number that is written, exactly: as an int if it *)
(* is one that fits, and only then; a text that is no number is refused;    *)
(* and when floatBuffer is full, the digits that are left stay before the   *)
(* cursor, so that the caller refuses the text and no digit is dropped in   *)
(* silence.  Left out are the early wrap (see BigIntExact), negative ints   *)
(* in a 4-byte str (see IntIsInt), the dropped mark and exponents beyond an *)
(* int.                                                                     *)
NumberIsRead ==
    NumberText /\ ~WrapsEarly /\ ~WideNegative /\ ~MarkDropped /\ ~PowerTooBig =>
        IF result.kind = "error" THEN ~IsNumber \/ Len(TextMeant) > MaxDigits
        ELSE \/ IsDigit(cursor) /\ ~HasRoom(floatData)
             \/ Meant(result) /\ (IsNumber => cursor = NumberEnd)

(* `int overflow, so we will handle as double' (src/decoder.h): an int that *)
(* is returned is the one that is written, however long.                    *)
BigIntExact ==
    NumberText /\ result.kind = "int" /\ IsNumber /\ ~IsDigit(cursor) =>
        result.value = IntMeant

(* `"42", "int"' (src/README.rst:184): an int that fits a long long is read  *)
(* as that int.                                                             *)
IntIsInt ==
    NumberText /\ IsNumber /\ Fits => result = [kind |-> "int", value |-> IntMeant]

-----------------------------------------------------------------------------
(* Strings: the reference.  An input of origin "string" is built of pieces: *)
(* what is written for a character, and the character (-1 if it is none,    *)
(* unit if it may be half of a pair).                                       *)

InAlphabet(c, kind) ==
    IF kind = "bytes" THEN c \in 0..MaxUnicode /\ ~IsHigh(c) /\ ~IsLow(c)
    ELSE c \in 0..Widest(kind)

TwoBytes(c) == <<192 + c \div 64, 128 + (c % 64)>>
ThreeBytes(c) == <<224 + c \div 4096, 128 + ((c \div 64) % 64), 128 + (c % 64)>>
FourBytes(c) == <<240 + c \div 262144, 128 + ((c \div 4096) % 64),
                  128 + ((c \div 64) % 64), 128 + (c % 64)>>
Utf8(c) ==
    CASE c < 128 -> <<c>>
      [] 128 <= c /\ c < 2048 -> TwoBytes(c)
      [] 2048 <= c /\ c < 65536 -> ThreeBytes(c)
      [] 65536 <= c -> FourBytes(c)

(* What may stand behind a backslash, and what it stands for. *)
ShortEscapes == {<<98, 8>>, <<102, 12>>, <<110, 10>>, <<114, 13>>, <<116, 9>>,
                 <<Quote, Quote>>, <<Backslash, Backslash>>, <<47, 47>>}

Hexadecimal(ch, v) ==
    \/ v \in 0..9 /\ ch = 48 + v
    \/ v \in 10..15 /\ ch \in {55 + v, 87 + v}
IsHexadecimal(ch) == \E v \in 0..15 : Hexadecimal(ch, v)

Verbatim(p, kind) ==
    /\ ~p.unit
    /\ InAlphabet(p.char, kind) /\ p.char \notin {Quote, Backslash}
    /\ p.written = IF kind = "bytes" THEN Utf8(p.char) ELSE <<p.char>>

Short(p) ==
    ~p.unit /\ \E s \in ShortEscapes : p.written = <<Backslash, s[1]>> /\ p.char = s[2]

CodeUnits == 0..65535

Unit(p) ==
    /\ p.unit
    /\ p.char \in CodeUnits
    /\ Len(p.written) = 6
    /\ p.written[1] = Backslash /\ p.written[2] = LowerU
    /\ Hexadecimal(p.written[3], p.char \div 4096)
    /\ Hexadecimal(p.written[4], (p.char \div 256) % 16)
    /\ Hexadecimal(p.written[5], (p.char \div 16) % 16)
    /\ Hexadecimal(p.written[6], p.char % 16)

(* An escape of no meaning, and one that lacks a hexadecimal digit. *)
WrongEscape(w) ==
    /\ Len(w) > 1 /\ w[1] = Backslash
    /\ \/ w[2] # LowerU /\ \A s \in ShortEscapes : w[2] # s[1]
       \/ /\ w[2] = LowerU /\ Len(w) \in 3..6
          /\ ~IsHexadecimal(w[Len(w)])

(* The bytes that are to follow the first one of a character. *)
Announced(byte) ==
    CASE byte \in 192..223 -> 1 [] byte \in 224..239 -> 2 [] byte \in 240..244 -> 3 [] OTHER -> 0

(* Bytes that are no UTF-8: a first byte that begins no character, one that *)
(* is not followed by what it announces, a surrogate, and a value beyond    *)
(* MaxUnicode.  (Forms longer than need be, which are read, are left out.)  *)
NotUtf8(w) ==
    \/ Len(w) > 0 /\ w[1] \in (128..191) \cup (245..255)
    \/ /\ Len(w) \in 2..(Announced(w[1]) + 1)
       /\ w[Len(w)] \notin 128..191
    \/ Len(w) = 3 /\ w[1] = 237 /\ w[2] \in 160..191
    \/ Len(w) = 4 /\ w[1] = 244 /\ w[2] \in 144..191

Meaningless(p, kind) ==
    /\ ~p.unit /\ p.char = -1
    /\ WrongEscape(p.written) \/ (kind = "bytes" /\ NotUtf8(p.written))

IsPiece(p, kind) ==
    /\ p \in [written : Seq(0..MaxUnicode), char : Int, unit : BOOLEAN]
    /\ Verbatim(p, kind) \/ Short(p) \/ Unit(p) \/ Meaningless(p, kind)

(* A date that parse_date asks for is read as such: see MomentsReadBack. *)
IsDate == input.parseDate /\ ReadDate(2) # {}
StringText == pc = "done" /\ input.origin = "string"

HighHalf(p) == p.unit /\ IsHigh(p.char)
LowHalf(p) == p.unit /\ IsLow(p.char)

(* A piece that means nothing, or half of a pair without the other. *)
Wrong(ps, k) ==
    \/ ps[k].char < 0
    \/ HighHalf(ps[k]) /\ (k = Len(ps) \/ ~LowHalf(ps[k + 1]))
    \/ LowHalf(ps[k]) /\ (k = 1 \/ ~HighHalf(ps[k - 1]))

CharsOf(ps) ==
    FlattenSeq([k \in DOMAIN ps |->
        IF HighHalf(ps[k]) THEN <<Pair(ps[k].char, ps[k + 1].char)>>
        ELSE IF LowHalf(ps[k]) THEN <<>> ELSE <<ps[k].char>>])

Written(ps) == FlattenSeq([k \in DOMAIN ps |-> ps[k].written])

Quoted(ps) == <<Quote>> \o Written(ps) \o <<Quote>>

(* The text goes on behind the string, or ends within it. *)
ASSUME StringAssumption ==
    \A i \in Inputs : i.origin = "string" =>
        /\ Len(i.pieces) \in Nat /\ DOMAIN i.pieces = 1..Len(i.pieces)
        /\ \A k \in DOMAIN i.pieces : IsPiece(i.pieces[k], i.kind)
        /\ i.text # <<>>
        /\ IsPrefix(Quoted(i.pieces), i.text) \/ IsPrefix(i.text, Quoted(i.pieces))

Acceptable ==
    /\ \A k \in DOMAIN input.pieces : ~Wrong(input.pieces, k)
    /\ Len(Text) >= Len(Quoted(input.pieces))   \* it has its closing quote

(* A control character that is not escaped, which RFC 4627 forbids. *)
RawControl == \E k \in DOMAIN input.pieces : input.pieces[k].written[1] < 32

(* A string that is read is read to the characters its pieces stand for,    *)
(* whichever reader reads which part of it and however it is cut into       *)
(* slices, with the cursor behind its quote; one that has a bad piece or no *)
(* end is refused, and nothing else is, but for want of memory; it is read  *)
(* instead of the date it looks like for want of memory only.  Left open    *)
(* are raw control characters, which the code reads and strict JSON         *)
(* forbids, and those combinations of characters of the last plane that     *)
(* PyUnicode_New refuses because maxchar is their OR.                       *)
StringIsRead ==
    StringText =>
        CASE result.kind = "moment" -> IsDate
          [] result.kind = "str" ->
                /\ IsDate => starved
                /\ Acceptable
                /\ result.text = CharsOf(input.pieces)
                /\ cursor = Len(Written(input.pieces)) + 3
          [] OTHER ->
                /\ result.kind = "error"
                /\ Acceptable => \/ starved
                                 \/ RawControl
                                 \/ result.what = "maxchar" /\ maxchar > MaxUnicode

-----------------------------------------------------------------------------
(* Dates.  An input of origin "moment" is what the encoder writes. *)

IsMoment(m) ==
    /\ m.kind \in {"date", "time", "datetime"}
    /\ m.date \in Int \X Int \X Int
    /\ m.time \in Int \X Int \X Int \X Int
    /\ m.offset \in Seq(Int) /\ Len(m.offset) <= 1
    /\ m = Moment(m.kind, m.date, m.time, m.offset)
    /\ Valid(m)
    /\ m.kind = "date" => m.time = NoTime /\ m.offset = <<>>
    /\ m.kind = "time" => m.date = NoDate

ASSUME MomentAssumption ==
    \A i \in Inputs : i.origin = "moment" =>
        /\ i.parseDate
        /\ \E m \in i.moments :
              IsMoment(m) /\ i.text = <<Quote>> \o EncodeMoment(m) \o <<Quote>>

(* What loads makes of what dumps has written: a datetime loses the seconds *)
(* of its offset, for which the format has no place.                        *)
ReadBack(m) ==
    IF m.offset = <<>> THEN m
    ELSE LET o == m.offset[1]
         IN  [m EXCEPT !.offset = <<IF o < 0 THEN -((-o) - ((-o) % 60)) ELSE o - (o % 60)>>]

(* loads reads back every date, datetime and time that dumps writes as the  *)
(* same moment: __read_date inverts EncodeDate, EncodeTime, EncodeDateTime. *)
(* (A time without seconds comes back as a string.)  For want of memory a   *)
(* string, see StringIsRead, or an error comes back, but no other moment.   *)
(* Left out is a time with a tzinfo, see TimeKeepsOffset.                   *)
MomentsReadBack ==
    pc = "done" /\ input.origin = "moment" =>
        IF starved THEN result.kind \in {"str", "error"}
        ELSE \E m \in input.moments :
                CASE m.kind = "time" /\ m.offset # <<>> -> TRUE
                  [] m.kind = "time" /\ m.time[3] = 0 /\ m.time[4] = 0 ->
                        result = [kind |-> "str", text |-> EncodeTime(m.time)]
                  [] OTHER -> result = [kind |-> "moment", moment |-> ReadBack(m)] /\ cursor = End

(* A time is written as `"12:34:56", "12:34:56+0300"' (src/README.rst:217):  *)
(* one that has a tzinfo is written with its offset.                        *)
TimeKeepsOffset ==
    pc = "done" /\ input.origin = "moment" /\ ~starved =>
        \E m \in input.moments :
            m.kind = "time" /\ m.offset # <<>> =>
                result.kind = "moment" /\ result.moment.offset # <<>>
=============================================================================
