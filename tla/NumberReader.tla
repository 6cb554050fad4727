---------------------------- MODULE NumberReader ----------------------------
(***************************************************************************)
(* ReadNumber and __read_number of src/decoder.h: one pass over the digits *)
(* that accumulates an int of fixed width and, beside it, the text a float *)
(* is made of: the digits for Strtod, or what parse_float is called with.  *)
(* Decoder has the failures of building the object from it.                *)
(***************************************************************************)
EXTENDS InputText

CONSTANTS
    IntMax,    \* the largest long long
    ExpMax,    \* the largest int; 2 * ExpMax + 1 is the largest unsigned int
    MaxDigits  \* YAPIC_JSON_DOUBLE_MAX_SIGNIFICANT_DIGITS

ASSUME NumberAssumption ==
    /\ IntMax \in Nat /\ IntMax > 9
    /\ ExpMax \in Nat
    /\ MaxDigits \in Nat

VARIABLES
    negative,   \* NegativeNumberTrait
    external,   \* FFExternal: there is a parse_float
    intValue,   \* the int accumulated so far
    floatData,  \* the text of the float so far, from floatBuffer on
    exponent,   \* minus the number of fraction digits in floatData
    e,          \* the exponent that is written, and
    eNegative   \* its sign

numberVars ==
    <<negative, external, intValue, floatData, exponent, e, eNegative>>

NumberInit ==
    /\ negative = FALSE
    /\ external \in BOOLEAN
    /\ intValue = 0
    /\ floatData = <<>>
    /\ exponent = 0
    /\ e = 0
    /\ eNegative = FALSE

(* Two's complement: what does not fit wraps around, as in a build with     *)
(* Python's own flags (-fwrapv).                                            *)
Wrapped(n, max) == ((n + max + 1) % (2 * (max + 1))) - (max + 1)

(* Trait::Convert, as a long long.  A Py_UCS4 is an unsigned int, and so is *)
(* '0' - *ch: 2^32 less the digit, with no sign left to extend.  (Made an   *)
(* int, as for the exponent, it is the negative digit again.)               *)
Convert(minus, i) ==
    IF ~minus THEN Digit(i)
    ELSE IF input.kind = "ucs4" /\ Digit(i) # 0 THEN 2 * (ExpMax + 1) - Digit(i)
    ELSE -Digit(i)

(* Trait::IsOk: another digit may be read. *)
IsOk(n) ==
    IF negative THEN -((IntMax + 1) \div 10) <= n ELSE IntMax \div 10 >= n

(* Variant: no test for an overflow that the last digit has caused. *)
CheckNothing(n) == TRUE

(* Trait::CheckOverflow, a test of the sign. *)
CheckOverflow(n) == IF negative THEN n <= 0 ELSE n >= 0

HasRoom(data) == Len(data) < MaxDigits

(* FloatTrait::ConsumeDecimalPoint, ExponentBegin, ConsumeExponent *)
WithPoint(data) == IF external THEN Append(data, Dot) ELSE data

WithMark(data, minus) ==
    IF ~external THEN data
    ELSE IF minus
    THEN IF Len(data) + 2 < MaxDigits THEN data \o <<LowerE, Minus>> ELSE data
    ELSE IF HasRoom(data) THEN Append(data, LowerE) ELSE data

Make ==
    IF external THEN [kind |-> "text", text |-> floatData]
    ELSE [kind |-> "float", negative |-> negative, digits |-> floatData, exponent |-> exponent]

-----------------------------------------------------------------------------
Consume(next) ==
    /\ cursor' = cursor + 1
    /\ pc' = next
    /\ UNCHANGED result

(* What follows the integer part, at the character ch. *)
Continuation(ch) ==
    CASE ch = Dot -> "point"
      [] ch \in ExponentMarks -> "exponent"
      [] OTHER -> "float"

(* ReadNumber up to the first digit. *)
ReadNumber ==
    LET minus == At(cursor) = Minus
        i == IF minus THEN cursor + 1 ELSE cursor
        sign == IF minus /\ external THEN <<Minus>> ELSE <<>>
        next == Continuation(At(i + 1))
    IN  /\ pc = "number"
        /\ negative' = minus
        /\ \/ /\ At(i) \in 49..57
              /\ floatData' = sign
              /\ cursor' = i /\ pc' = "int" /\ UNCHANGED result
           \/ /\ At(i) = Zero /\ next # "float"
              /\ floatData' = Append(sign, Zero)
              /\ cursor' = i + 1 /\ pc' = next /\ UNCHANGED result
           \/ /\ At(i) = Zero /\ next = "float"
              /\ floatData' = sign
              /\ Done([kind |-> "int", value |-> 0], i + 1)
           \/ /\ Reads(i, <<73, 110, 102, 105, 110, 105, 116, 121>>)
              /\ floatData' = sign
              /\ Done([kind |-> "infinity", negative |-> minus], i + 8)
           \/ /\ Reads(i, <<78, 97, 78>>)
              /\ floatData' = sign
              /\ Done([kind |-> "nan"], i + 3)
           \/ /\ ~IsDigit(i)
              /\ ~Reads(i, <<73, 110, 102, 105, 110, 105, 116, 121>>)
              /\ ~Reads(i, <<78, 97, 78>>)
              /\ floatData' = sign
              /\ Done(Error(IF i >= End THEN "end" ELSE "number"), i)
        /\ UNCHANGED <<input, external, intValue, exponent, e, eNegative>>

(* A digit of the integer part while it may fit. *)
IntDigit ==
    LET n == Wrapped(intValue * 10 + Convert(negative, cursor), IntMax)
        next == At(cursor + 1)
    IN  /\ pc = "int"
        /\ intValue' = n
        /\ floatData' = Append(floatData, At(cursor))
        /\ \/ next \in Digits /\ Consume(IF IsOk(n) THEN "int" ELSE "big")
           \/ next \notin Digits /\ Continuation(next) # "float" /\ Consume(Continuation(next))
           \/ /\ next \notin Digits /\ Continuation(next) = "float"
              /\ IF CheckOverflow(n) THEN Done([kind |-> "int", value |-> n], cursor + 1)
                 ELSE Consume("float")
        /\ UNCHANGED <<input, negative, external, exponent, e, eNegative>>

(* A digit of an integer part that does not fit, while floatBuffer has room. *)
BigDigit ==
    LET data == Append(floatData, At(cursor))
    IN  /\ pc = "big"
        /\ floatData' = data
        /\ IF IsDigit(cursor + 1) /\ HasRoom(data) THEN Consume("big")
           ELSE Consume(Continuation(At(cursor + 1)))
        /\ UNCHANGED <<input, negative, external, intValue, exponent, e, eNegative>>

(* Variant: a digit behind the point is taken for granted. *)
PointUnchecked ==
    /\ pc = "point"
    /\ floatData' = WithPoint(floatData)
    /\ Consume("fraction")
    /\ UNCHANGED <<input, negative, external, intValue, exponent, e, eNegative>>

(* read_fraction *)
Point ==
    LET data == WithPoint(floatData)
    IN  /\ pc = "point"
        /\ floatData' = data
        /\ IF IsDigit(cursor + 1) /\ HasRoom(data) THEN Consume("fraction")
           ELSE Done(Error("number"), cursor + 1)
        /\ UNCHANGED <<input, negative, external, intValue, exponent, e, eNegative>>

(* FloatTrait::ConsumeFraction *)
FractionScale == IF external THEN exponent ELSE exponent - 1

FractionDigit ==
    LET data == Append(floatData, At(cursor))
    IN  /\ pc = "fraction"
        /\ floatData' = data
        /\ exponent' = FractionScale
        /\ IF IsDigit(cursor + 1) /\ HasRoom(data) THEN Consume("fraction")
           ELSE Consume(IF At(cursor + 1) \in ExponentMarks THEN "exponent" ELSE "float")
        /\ UNCHANGED <<input, negative, external, intValue, e, eNegative>>

(* read_exponent up to the first digit *)
Exponent ==
    LET minus == At(cursor + 1) = Minus
        i == IF At(cursor + 1) \in {Minus, Plus} THEN cursor + 2 ELSE cursor + 1
    IN  /\ pc = "exponent"
        /\ eNegative' = minus
        /\ \/ /\ IsDigit(i) /\ HasRoom(floatData)
              /\ floatData' = WithMark(floatData, minus)
              /\ cursor' = i /\ pc' = "power" /\ UNCHANGED result
           \/ /\ ~(IsDigit(i) /\ HasRoom(floatData))
              /\ UNCHANGED floatData
              /\ Done(Error("number"), i)
        /\ UNCHANGED <<input, negative, external, intValue, exponent, e>>

(* __read_exponent: a digit *)
ExponentDigit ==
    LET data == IF external THEN Append(floatData, At(cursor)) ELSE floatData
        power == IF external THEN e
                 ELSE Wrapped(e * 10 + Convert(eNegative, cursor), ExpMax)
        more == IsDigit(cursor + 1) /\ HasRoom(data)
    IN  /\ pc = "power"
        /\ floatData' = data
        /\ e' = power
        /\ exponent' = IF more THEN exponent ELSE Wrapped(exponent + power, ExpMax)
        /\ Consume(IF more THEN "power" ELSE "float")
        /\ UNCHANGED <<input, negative, external, intValue, eNegative>>

MakeFloat ==
    /\ pc = "float"
    /\ Done(Make, cursor)
    /\ UNCHANGED <<input, numberVars>>

NumberNext ==
    \/ ReadNumber
    \/ IntDigit
    \/ BigDigit
    \/ Point
    \/ FractionDigit
    \/ Exponent
    \/ ExponentDigit
    \/ MakeFloat
=============================================================================
