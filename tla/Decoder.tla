------------------------------- MODULE Decoder -------------------------------
(***************************************************************************)
(* loads of src/json.cpp and the Decoder of src/decoder.h: the recursive   *)
(* descent over a JSON text that builds lists and dicts and calls the      *)
(* hooks.                                                                  *)
(*                                                                         *)
(* The C stack is an explicit stack of frames, one for each ReadList or    *)
(* ReadDict that waits for a nested ReadValue.  A step runs from one such  *)
(* call or return to the next.  A hook may raise whenever it is called,    *)
(* and every allocation may fail.                                          *)
(***************************************************************************)
EXTENDS JsonTokens

VARIABLES
    call,       \* the arguments of loads
    pos,        \* the cursor, an index into the text; the terminator counts
    stack,      \* the lists and dicts being read, innermost last
    pc,         \* what happens next
    ret,        \* what the last function to return has returned
    exc,        \* the pending Python exception
    swallowed,  \* history: a failure was not reported to the caller
    unbalanced  \* history: references lost, or released without being owned

vars == <<call, pos, stack, pc, ret, exc, swallowed, unbalanced>>

(* "Failed" is any failure for which the decoder is not responsible: memory, *)
(* a hook that raised, a hook called while an exception is pending.         *)
Exceptions ==
    [type : {"none", "DecodeError", "TypeError", "Failed"},
     what : {"none", "end", "character", "junk", "string"}, at : Nat]

NoExc == [type |-> "none", what |-> "none", at |-> 0]
Failed == [type |-> "Failed", what |-> "none", at |-> 0]
TypeError == [type |-> "TypeError", what |-> "none", at |-> 0]

(* A frame holds the container built so far, the local variable `key' of    *)
(* ReadDict, and the references its local variables own.                    *)
ListFrame(items) ==
    [kind |-> "list", built |-> items, key |-> Null, owns |-> {"container"}]
DictFrame(pairs, key, owns) ==
    [kind |-> "dict", built |-> pairs, key |-> key, owns |-> owns]

Top == stack[Len(stack)]
Below == SubSeq(stack, 1, Len(stack) - 1)
Text == call.text

(* The character at a position: every input is followed by a NUL. *)
At(i) == IF i \in 1..Len(Text) THEN Text[i] ELSE "nul"
End == Len(Text) + 1

(* Decoder_EatWhiteSpace *)
Eat(i) == CHOOSE j \in i..End : At(j) # "ws" /\ \A k \in i..(j - 1) : At(k) = "ws"

-----------------------------------------------------------------------------
(* The outcomes of a function: what it returns and what is pending then. *)

Outcome(value, pending, hidden) == [ret |-> value, exc |-> pending, hidden |-> hidden]
Gives(value, pending) == Outcome(value, pending, FALSE)
Fails(pending) == Outcome(Null, pending, FALSE)

(* Decoder_Error, with e pending: building the exception may fail as well,  *)
(* and does when another exception is pending.                              *)
Reports(e, what, i) ==
    {Failed} \cup
    IF e = NoExc THEN {[type |-> "DecodeError", what |-> what, at |-> i]} ELSE {}

(* PyObject_CallFunctionObjArgs, which does not return a value while an     *)
(* exception is pending.                                                    *)
CallsHook(hook, value) ==
    IF hook = "callable"
    THEN {Fails(Failed)} \cup IF exc = NoExc THEN {Gives(value, NoExc)} ELSE {}
    ELSE {Fails(TypeError)}

(* __read_ascii and READER::Read on an acceptable string, with e pending.   *)
(* __read_ascii clears what is pending when it gets no memory, and leaves   *)
(* the string to the reader.                                                *)
ReadPlainString(t, e) ==
    {Gives(StrObj(t), e), Fails(Failed)}
        \cup IF call.input = "narrow" THEN {Gives(StrObj(t), NoExc)} ELSE {}

(* ReadString: when the text has the form of a date, any failure to build   *)
(* the date is cleared, with whatever else is pending, and the text is read *)
(* as a string.                                                             *)
ReadString(i) ==
    LET t == At(i)
    IN  CASE t \in BadStr -> {Fails(e) : e \in Reports(exc, "string", i)}
          [] t \in Date /\ call.parseDate ->
                {Gives(DateObj(t), exc)}
                    \cup {[o EXCEPT !.hidden = TRUE] : o \in ReadPlainString(t, NoExc)}
          [] t \in NotDate /\ call.parseDate -> ReadPlainString(t, NoExc)
          [] OTHER -> ReadPlainString(t, exc)

(* ReadNumber, ReadTrue, ReadFalse, ReadNull: ReadNumber is the one to find  *)
(* out that no value begins here.                                           *)
ReadOther(i) ==
    LET t == At(i)
    IN  CASE t \in Plain -> {Gives(PlainObj(t), exc), Fails(Failed)}
          [] t \in Float /\ call.parseFloat = "absent" ->
                {Gives(FloatObj(t), exc), Fails(Failed)}
          [] t \in Float /\ call.parseFloat # "absent" ->
                {Fails(Failed)} \cup CallsHook(call.parseFloat, ParsedObj(t))
          [] OTHER -> {Fails(e) : e \in Reports(exc, IF i = End THEN "end" ELSE "character", i)}

(* What ReadList and ReadDict say of a character they do not expect. *)
Unexpected(i) == IF At(i) = "nul" THEN "end" ELSE "character"

-----------------------------------------------------------------------------
(* Passing control. *)

(* A function returns to the frame on top of those left. *)
Return(value, pending) ==
    /\ ret' = value
    /\ exc' = pending
    /\ pc' = "got"

(* The frame f returns: `released' are the references it gives up or hands  *)
(* to its caller; what differs from the references it owns is unbalanced.   *)
Leave(f, released) ==
    /\ stack' = Below
    /\ unbalanced' = unbalanced \cup (f.owns \ released) \cup (released \ f.owns)

(* Variant: ReadDict releases its dict only. *)
AbandonsDict(f, value) == {"container"}

(* The error label of ReadDict, and the end of ReadList. *)
Abandons(f, value) ==
    {"container"} \cup (IF f.key # Null THEN {"key"} ELSE {})
                  \cup (IF value # Null THEN {"value"} ELSE {})

GoOn(f, next, at) ==
    /\ stack' = Append(Below, f)
    /\ pc' = next
    /\ pos' = at
    /\ UNCHANGED unbalanced

-----------------------------------------------------------------------------
Init ==
    /\ call \in Calls
    /\ pos = 1
    /\ stack = <<>>
    /\ pc = "loads"
    /\ ret = Null
    /\ exc = NoExc
    /\ swallowed = FALSE
    /\ unbalanced = {}

Refused(hook) == hook \notin {"absent", "callable"}
BadArgument == Refused(call.objectHook) \/ Refused(call.parseFloat)

(* Module::loads: a hook that cannot be called is reported and decoding      *)
(* begins nevertheless.                                                     *)
Loads ==
    /\ pc = "loads"
    /\ exc' = IF BadArgument \/ call.input = "other" THEN TypeError ELSE NoExc
    /\ pc' = IF call.input = "other" THEN "done" ELSE "value"
    /\ UNCHANGED <<call, pos, stack, ret, swallowed, unbalanced>>

(* ReadValue on anything but a container. *)
ReadScalar ==
    LET i == Eat(pos)
    IN  /\ pc = "value"
        /\ At(i) \notin Open
        /\ \E o \in IF At(i) \in Strings \cup BadStr THEN ReadString(i) ELSE ReadOther(i) :
              /\ Return(o.ret, o.exc)
              /\ swallowed' = (swallowed \/ o.hidden)
              /\ pos' = IF o.ret = Null THEN pos ELSE i + 1
        /\ UNCHANGED <<call, stack, unbalanced>>

(* ReadList and ReadDict up to the first item. *)
Enter(opening, closing, empty, frame, next) ==
    LET i == Eat(pos)
        j == Eat(i + 1)
    IN  /\ pc = "value"
        /\ At(i) = opening
        /\ \/ Return(Null, Failed) /\ UNCHANGED <<pos, stack>>
           \/ /\ At(j) = closing
              /\ Return(empty, exc)
              /\ pos' = j + 1
              /\ UNCHANGED stack
           \/ /\ At(j) # closing
              /\ stack' = Append(stack, frame)
              /\ pc' = next
              /\ pos' = j
              /\ UNCHANGED <<ret, exc>>
        /\ UNCHANGED <<call, swallowed, unbalanced>>

EnterList == Enter("[", "]", ListObj(<<>>), ListFrame(<<>>), "value")

EnterDict ==
    Enter("{", "}", DictObj(<<>>), DictFrame(<<>>, Null, {"container"}), "key")

(* Variant: the cursor has already passed what is not a colon. *)
NoColonPast(j) == j + 1

(* Where ReadDict reports that there is no colon: it steps back first. *)
NoColon(j) == j

(* ReadDict reads a key and the colon behind it. *)
ReadKey ==
    /\ pc = "key"
    /\ \/ /\ At(pos) \notin Strings \cup BadStr
          /\ \E e \in Reports(exc, Unexpected(pos), pos) : Return(Null, e)
          /\ Leave(Top, Abandons(Top, Null))
          /\ UNCHANGED <<pos, swallowed>>
       \/ /\ At(pos) \in Strings \cup BadStr
          /\ \E o \in ReadString(pos) :
                LET f == [Top EXCEPT !.key = o.ret, !.owns = Top.owns \cup {"key"}]
                    j == Eat(pos + 1)
                IN  /\ swallowed' = (swallowed \/ o.hidden)
                    /\ \/ /\ o.ret = Null
                          /\ Return(Null, o.exc)
                          /\ Leave(Top, Abandons(Top, Null))
                          /\ UNCHANGED pos
                       \/ /\ o.ret # Null
                          /\ At(j) = ":"
                          /\ GoOn(f, "value", j + 1)
                          /\ exc' = o.exc
                          /\ UNCHANGED ret
                       \/ /\ o.ret # Null
                          /\ At(j) # ":"
                          /\ \E e \in Reports(o.exc, Unexpected(j), NoColon(j)) : Return(Null, e)
                          /\ Leave(f, Abandons(f, Null))
                          /\ UNCHANGED pos
    /\ UNCHANGED call

(* Variant: the container tries again. *)
ChildRetried ==
    /\ pc = "got"
    /\ ret = Null
    /\ stack # <<>>
    /\ pc' = "value"
    /\ UNCHANGED <<call, pos, stack, ret, exc, swallowed, unbalanced>>

(* A nested ReadValue has returned NULL. *)
ChildFailed ==
    /\ pc = "got"
    /\ ret = Null
    /\ stack # <<>>
    /\ Return(Null, exc)
    /\ Leave(Top, Abandons(Top, Null))
    /\ UNCHANGED <<call, pos, swallowed>>

(* ReadList has an item.  The result of PyList_Append is not looked at: when *)
(* it fails the list goes on without the item and with an exception pending. *)
ItemDone ==
    LET j == Eat(pos)
    IN  /\ pc = "got"
        /\ ret # Null
        /\ stack # <<>>
        /\ Top.kind = "list"
        /\ \E stored \in BOOLEAN :
              LET f == IF stored THEN ListFrame(Append(Top.built, ret)) ELSE Top
                  e == IF stored THEN exc ELSE Failed
              IN  /\ swallowed' = (swallowed \/ ~stored)
                  /\ \/ At(j) = "," /\ GoOn(f, "value", j + 1) /\ exc' = e /\ UNCHANGED ret
                     \/ /\ At(j) = "]"
                        /\ Leave(f, {"container"})
                        /\ Return(ListObj(f.built), e)
                        /\ pos' = j + 1
                     \/ /\ At(j) \notin {",", "]"}
                        /\ Leave(f, Abandons(f, Null))
                        /\ \E g \in Reports(e, Unexpected(j), j) : Return(Null, g)
                        /\ UNCHANGED pos
        /\ UNCHANGED call

(* Variant: the first of two equal keys wins. *)
StoredOnce(pairs, key, value) ==
    [k \in DOMAIN pairs \cup {key} |-> IF k \in DOMAIN pairs THEN pairs[k] ELSE value]

(* PyDict_SetItem *)
Stored(pairs, key, value) ==
    [k \in DOMAIN pairs \cup {key} |-> IF k = key THEN value ELSE pairs[k]]

(* Variant: ReadDict forgets to set key to NULL after its release. *)
KeyKept(f) == DictFrame(f.built, f.key, {"container"})

(* Both references are given up and both variables set to NULL. *)
PairStored(f) == DictFrame(f.built, Null, {"container"})

(* The end of ReadDict: the hook gets the dict and ReadDict returns what it  *)
(* returns.                                                                 *)
CloseDict(f) ==
    /\ Leave(f, {"container"})
    /\ IF call.objectHook = "absent" THEN Return(DictObj(f.built), exc)
       ELSE \E o \in CallsHook(call.objectHook, HookedObj(DictObj(f.built))) :
               Return(o.ret, o.exc)

(* ReadDict has a value.  PyDict_SetItem may fail. *)
PairDone ==
    LET j == Eat(pos)
        owner == [Top EXCEPT !.owns = Top.owns \cup {"value"}]
        f == PairStored([Top EXCEPT !.built = Stored(Top.built, Top.key, ret)])
    IN  /\ pc = "got"
        /\ ret # Null
        /\ stack # <<>>
        /\ Top.kind = "dict"
        /\ \/ /\ Return(Null, Failed)
              /\ Leave(owner, Abandons(owner, ret))
              /\ UNCHANGED pos
           \/ At(j) = "," /\ GoOn(f, "key", Eat(j + 1)) /\ UNCHANGED <<ret, exc>>
           \/ At(j) = "}" /\ CloseDict(f) /\ pos' = j + 1
           \/ /\ At(j) \notin {",", "}"}
              /\ Leave(f, Abandons(f, Null))
              /\ \E e \in Reports(exc, Unexpected(j), j) : Return(Null, e)
              /\ UNCHANGED pos
        /\ UNCHANGED <<call, swallowed>>

(* Variant: junk behind the value is dropped without a report. *)
FinishSilent ==
    LET j == Eat(pos)
    IN  /\ pc = "got"
        /\ stack = <<>>
        /\ ret' = IF j = End THEN ret ELSE Null
        /\ pc' = "done"
        /\ UNCHANGED <<call, pos, stack, exc, swallowed, unbalanced>>

(* Variant: what is behind the value is not looked at. *)
FinishHasty ==
    /\ pc = "got"
    /\ stack = <<>>
    /\ pc' = "done"
    /\ UNCHANGED <<call, pos, stack, ret, exc, swallowed, unbalanced>>

(* Decode, after the outermost ReadValue: only white space may follow. *)
Finish ==
    LET j == Eat(pos)
    IN  /\ pc = "got"
        /\ stack = <<>>
        /\ \/ ret = Null /\ UNCHANGED <<ret, exc>>
           \/ ret # Null /\ j = End /\ UNCHANGED <<ret, exc>>
           \/ ret # Null /\ j # End /\ ret' = Null /\ exc' \in Reports(exc, "junk", j)
        /\ pc' = "done"
        /\ UNCHANGED <<call, pos, stack, swallowed, unbalanced>>

Next ==
    \/ Loads
    \/ ReadScalar
    \/ EnterList
    \/ EnterDict
    \/ ReadKey
    \/ ChildFailed
    \/ ItemDone
    \/ PairDone
    \/ Finish

Spec == Init /\ [][Next]_vars

(* A call runs by itself; hooks are assumed to return. *)
FairSpec == Spec /\ WF_vars(Next)

-----------------------------------------------------------------------------
(* The cursor never passes the terminator.  A frame that waits for a value  *)
(* has the key the value is for, and owns what its variables refer to.      *)
FrameOK(f) ==
    /\ DOMAIN f = {"kind", "built", "key", "owns"}
    /\ f.kind \in {"list", "dict"}
    /\ f.kind = "list" => f.key = Null
    /\ f.owns = {"container"} \cup (IF f.key # Null THEN {"key"} ELSE {})

TypeOK ==
    /\ call \in Call
    /\ pos \in 1..End
    /\ \A i \in 1..Len(stack) : FrameOK(stack[i])
    /\ pc \in {"loads", "value", "key", "got", "done"}
    /\ exc \in Exceptions
    /\ swallowed \in BOOLEAN

(* Every function of the decoder releases each reference it owns once, on   *)
(* all of its ways out (the error labels of ReadList and ReadDict), and all *)
(* of them have returned when loads does.                                   *)
RefsBalanced ==
    /\ unbalanced = {}
    /\ pc = "done" => stack = <<>>

(* loads returns NULL if and only if an exception is pending, except that   *)
(* it goes on after it has refused a hook, and after a failed PyList_Append.*)
NullMeansError ==
    pc = "done" =>
        /\ ret = Null => exc # NoExc
        /\ ret # Null /\ exc # NoExc => BadArgument \/ swallowed

(* Every call of loads returns. *)
Terminates == <>(pc = "done")
=============================================================================
