----------------------------- MODULE TokenOrder -----------------------------
(***************************************************************************)
(* Where a text goes wrong, without a decoder: whether a token may stand   *)
(* at its place is a question of the token before it and of the bracket it *)
(* is in.                                                                  *)
(***************************************************************************)
EXTENDS JsonTokens, FiniteSetsExt

(* The number of brackets opened and not closed before position i. *)
Depth(s, i) ==
    Cardinality({j \in 1..(i - 1) : s[j] \in Open})
        - Cardinality({j \in 1..(i - 1) : s[j] \in Close})

BeginsValue == Scalar \cup Open

(* The token before i.  A text begins as if a colon were before it.         *)
Before(s, i) == {j \in 1..(i - 1) : s[j] # "ws"}
Previous(s, i) == IF Before(s, i) = {} THEN ":" ELSE s[Max(Before(s, i))]

(* The last bracket before i that was opened with d others open.           *)
LastOpen(s, i, d) ==
    LET opened == {j \in 1..(i - 1) : s[j] \in Open /\ Depth(s, j) = d}
    IN  IF opened = {} THEN "none" ELSE s[Max(opened)]

(* The innermost bracket open at i. *)
Bracket(s, i) == LastOpen(s, i, Depth(s, i) - 1)

(* The token before i is a key: a string behind "{", or "," in an object. *)
BehindKey(s, i) ==
    /\ Previous(s, i) \in Strings
    /\ Bracket(s, i) = "{"
    /\ Previous(s, Max(Before(s, i))) \in {"{", ","}

(* The tokens that may stand at position i. *)
Expected(s, i) ==
    LET prev == Previous(s, i)
        bracket == Bracket(s, i)
    IN  {"ws"} \cup
        CASE prev = ":" -> BeginsValue
          [] prev = "[" -> BeginsValue \cup {"]"}
          [] prev = "{" -> Strings \cup {"}"}
          [] prev = "," -> IF bracket = "{" THEN Strings ELSE BeginsValue
          [] BehindKey(s, i) -> {":"}
          [] OTHER -> IF bracket = "[" THEN {",", "]"}
                      ELSE IF bracket = "{" THEN {",", "}"} ELSE {}

(* The first token no acceptable text could have at its place, or the end.  *)
FirstWrong(s) ==
    Min({i \in 1..Len(s) : s[i] \notin Expected(s, i)} \cup {Len(s) + 1})
=============================================================================
