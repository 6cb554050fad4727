----------------------------- MODULE EncodeCall -----------------------------
(***************************************************************************)
(* What one call of dumps, dumpb or dump promises, without an encoder: the *)
(* caller gets the whole JSON text of the object or an exception; what the *)
(* target of dump receives meanwhile is never taken back, and is the       *)
(* beginning of that text.  The call refuses an object, as not             *)
(* serializable or as too deep, exactly when the object is; other failures *)
(* (Python code that raised, memory) may happen at any time.               *)
(***************************************************************************)
EXTENDS JsonText

VARIABLES
    obj,     \* the object to encode
    sent,    \* the text handed over so far
    result   \* "running", "ok", or the kind of failure

callVars == <<obj, sent, result>>

CallInit ==
    /\ obj \in Node
    /\ sent = <<>>
    /\ result = "running"

(* The sent text grows towards the text of the object. *)
Sends ==
    /\ IsPrefix(sent, sent')
    /\ IsPrefix(sent', TextOf(obj).text)

Send ==
    /\ result = "running"
    /\ Sends
    /\ UNCHANGED <<obj, result>>

Return ==
    /\ result = "running"
    /\ TextOf(obj).why = "none"
    /\ sent' = TextOf(obj).text
    /\ result' = "ok"
    /\ UNCHANGED obj

Refuse ==
    /\ result = "running"
    /\ TextOf(obj).why # "none"
    /\ result' = TextOf(obj).why
    /\ UNCHANGED <<obj, sent>>

Break ==
    /\ result = "running"
    /\ result' \in {"Callback", "NoMemory"}
    /\ UNCHANGED <<obj, sent>>

CallNext == Send \/ Return \/ Refuse \/ Break

CallSpec == CallInit /\ [][CallNext]_callVars
=============================================================================
