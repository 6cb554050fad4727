----------------------------- MODULE InputText -----------------------------
(***************************************************************************)
(* The input of the decoder as its leaf functions see it, from the value   *)
(* on: characters of one, two or four bytes (a str: "ucs1", "ucs2",        *)
(* "ucs4") or "bytes", followed by a NUL; a cursor; and the outcome of     *)
(* the function that is running.  What made a str wide may stand before    *)
(* the value.                                                              *)
(***************************************************************************)
EXTENDS Integers, Sequences, SequencesExt

VARIABLES
    input,   \* the kind and the characters of the input
    cursor,  \* index of the next character
    pc,      \* the loop or label that comes next
    result   \* what has been read, or the error

inputVars == <<input, cursor, pc, result>>

(* Characters by name. *)
NUL == 0
Quote == 34
Plus == 43
Minus == 45
Dot == 46
Zero == 48
Colon == 58
UpperE == 69
UpperZ == 90
Backslash == 92
LowerE == 101
LowerU == 117
Digits == 48..57
ExponentMarks == {LowerE, UpperE}

Text == input.text
End == Len(Text) + 1

At(i) == IF i \in 1..Len(Text) THEN Text[i] ELSE NUL
IsDigit(i) == At(i) \in Digits

(* Decoder_Digit *)
Digit(i) == At(i) - Zero

(* The text from i on starts with the characters of word. *)
Reads(i, word) == \A k \in 1..Len(word) : At(i + k - 1) = word[k]

(* A number written in decimal digits. *)
ValueOf(digits) ==
    LET value[n \in 0..Len(digits)] ==
            IF n = 0 THEN 0 ELSE 10 * value[n - 1] + digits[n] - Zero
    IN  value[Len(digits)]

Unread == [kind |-> "none"]
Error(what) == [kind |-> "error", what |-> what]

Done(value, at) ==
    /\ result' = value
    /\ cursor' = at
    /\ pc' = "done"
=============================================================================
