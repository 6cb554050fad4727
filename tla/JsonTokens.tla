----------------------------- MODULE JsonTokens -----------------------------
(***************************************************************************)
(* What loads of src/json.cpp is given and what it gives back.  A text is a *)
(* sequence of tokens.  A token is a piece of input that one leaf function *)
(* of src/decoder.h consumes or refuses as a whole: a punctuation mark, a  *)
(* white space, a string, a number, a literal.  How the leaf functions     *)
(* read their characters is the business of NumberReader and StringReader. *)
(***************************************************************************)
EXTENDS Naturals, Sequences

CONSTANTS
    Str,      \* strings without escapes or errors, that do not look like dates
    Date,     \* strings that are a date, a time or both
    NotDate,  \* strings that look like a date but name none: "8922-00-01"
    BadStr,   \* a quote that opens no acceptable string
    Plain,    \* ints, true, false, null, NaN and the infinities
    Float,    \* numbers that parse_float is called with
    Calls     \* the calls of loads that are made

Open == {"{", "["}
Close == {"}", "]"}
Punctuation == Open \cup Close \cup {",", ":"}

(* A NUL character and any other that begins no value; "ws" is white space. *)
Stray == {"nul", "bad"}

Strings == Str \cup Date \cup NotDate
Scalar == Strings \cup Plain \cup Float
Token == Punctuation \cup Stray \cup {"ws"} \cup Scalar \cup BadStr

(* An optional argument: not given, a callable, None, or something else. *)
Hook == {"absent", "callable", "None", "other"}

(* The input: a str of one byte per character, bytes or a bytearray        *)
(* ("narrow"), a wider str, or an object of another type.                  *)
Call ==
    [text : Seq(Token), input : {"narrow", "wide", "other"},
     objectHook : Hook, parseFloat : Hook, parseDate : BOOLEAN]

ASSUME TokenAssumption ==
    /\ Scalar \cap (Punctuation \cup Stray \cup {"ws"}) = {}
    /\ BadStr \cap (Punctuation \cup Stray \cup {"ws"} \cup Scalar) = {}
    /\ Strings \cap (Plain \cup Float) = {}
    /\ Str \cap (Date \cup NotDate) = {}
    /\ Date \cap NotDate = {}
    /\ Plain \cap Float = {}
    /\ Calls \subseteq Call

(* Python objects, and NULL. *)
Null == <<"NULL", "NULL">>
StrObj(t) == <<"str", t>>
DateObj(t) == <<"date", t>>
PlainObj(t) == <<"plain", t>>
FloatObj(t) == <<"float", t>>
ParsedObj(t) == <<"parsed", t>>   \* what parse_float returned for t
ListObj(items) == <<"list", items>>
DictObj(pairs) == <<"dict", pairs>>
HookedObj(dict) == <<"hooked", dict>>   \* what object_hook returned for dict
=============================================================================
