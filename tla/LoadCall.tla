------------------------------ MODULE LoadCall ------------------------------
(***************************************************************************)
(* What one call of loads promises, without a decoder: the meaning of the  *)
(* whole text, or a refusal of a text that has no meaning; other failures  *)
(* (memory, a hook that raised, bad arguments) may happen at any time.     *)
(***************************************************************************)
EXTENDS JsonGrammar

VARIABLES
    asked,   \* the call
    status,  \* "running", "ok", "refused" or "failed"
    value    \* the object returned

callVars == <<asked, status, value>>

CallInit ==
    /\ asked \in Call
    /\ status = "running"
    /\ value = Null

ReturnMeaning ==
    /\ Meaning(asked) # NoMeaning
    /\ status' = "ok"
    /\ value' = Meaning(asked)

Refuse ==
    /\ Meaning(asked) = NoMeaning
    /\ status' = "refused"
    /\ UNCHANGED value

Break ==
    /\ status' = "failed"
    /\ UNCHANGED value

CallNext ==
    /\ status = "running"
    /\ ReturnMeaning \/ Refuse \/ Break
    /\ UNCHANGED asked

CallSpec == CallInit /\ [][CallNext]_callVars
=============================================================================
