------------------------------- MODULE Encoder -------------------------------
(***************************************************************************)
(* Encoder<BUFF, EnsureAscii> of src/encoder.h with the calls that run it, *)
(* dumps, dumpb and dump of src/json.cpp: the recursive walk over a graph  *)
(* of Python objects that writes JSON text into a buffer.                  *)
(*                                                                         *)
(* The C stack is an explicit stack of frames, one for every encoding      *)
(* function that is waiting for a nested call.  A step runs from one such  *)
(* call or return to the next.  Python code (__json__, default, iterators, *)
(* str(), tzinfo, the write method of the target) may raise whenever it is *)
(* called, and every allocation may fail.  Python code that is called with *)
(* an exception pending has failed when it returns: CPython turns such a   *)
(* result into a SystemError.                                              *)
(***************************************************************************)
EXTENDS Objects, BufferSizes, FiniteSets

CONSTANTS
    Extra,        \* Encoder_EXTRA_CAPACITY
    InitialSize   \* YAPIC_JSON_ENCODER_BUFFER_SIZE

ASSUME EncoderAssumption ==
    /\ Extra \in Nat
    /\ InitialSize \in Nat \ {0}

VARIABLES
    target,  \* "memory" in dumps and dumpb, "file" in dump
    root,    \* the object to encode
    out,     \* the buffer: its text, its size, and what `write' has accepted
    stack,   \* the encoding functions waiting for a nested call
    depth,   \* recursionDepth
    pc,      \* what happens next: a call, an iteration of a loop, a return
    node,    \* the object of the next Encode or __encode_dict_key
    exc,     \* the pending Python exception
    refs     \* references owned on behalf of the frames, by kind of frame

vars == <<target, root, out, stack, depth, pc, node, exc, refs>>

FrameKinds == MappingKinds \cup ListKinds \cup WrapperKinds

(* keyCall: the frame waits for __encode_dict_key, not for Encode. *)
Frame == [node : Node, how : FrameKinds, i : Nat, keyCall : BOOLEAN]

(* "Encode" is a refusal because of the object's type or value, "Callback"  *)
(* any failure the Python side of a container or a scalar is responsible    *)
(* for: what its methods raise, an ItemsView that yields no pair, fields    *)
(* that are not a dict.  `at' is the object whose function has reported the *)
(* excess of the depth.                                                     *)
Exceptions ==
    [type : {"none", "NoMemory", "Callback", "Encode", "Recursion"},
     at : Node \cup {"none"}]

NoExc == [type |-> "none", at |-> "none"]
Raise(type) == exc' = [type |-> type, at |-> "none"]

Top == stack[Len(stack)]
Below == SubSeq(stack, 1, Len(stack) - 1)
Push(f) == stack' = Append(stack, f)
Pop == stack' = Below

(* Variant: the loops do not increment their index. *)
SetTopStays(i, asKey) ==
    stack' = Append(Below, [node |-> Top.node, how |-> Top.how,
                            i |-> Top.i, keyCall |-> asKey])

(* The frame on top goes on: at item i, waiting for a key or not. *)
SetTop(i, asKey) ==
    stack' = Append(Below, [node |-> Top.node, how |-> Top.how,
                            i |-> i, keyCall |-> asKey])

Hold(how, k) == refs' = [refs EXCEPT ![how] = refs[how] + k]

-----------------------------------------------------------------------------
(* The buffer, as the encoder sees it. *)

Buffer == [text : Seq(Cell), size : Nat, written : Seq(Cell)]

(* Encoder_AppendFast, once for each of s: no test of the space left. *)
Put(o, s) == [text |-> o.text \o s, size |-> o.size, written |-> o.written]

(* --buffer.cursor *)
Retract(o) ==
    [text |-> SubSeq(o.text, 1, Len(o.text) - 1), size |-> o.size, written |-> o.written]

(* Variant: the test ignores what is already in the buffer. *)
FitsWholeBlock(o, required) == required <= o.size

Fits(o, required) == required <= o.size - Len(o.text)

(* `write' can succeed: it is called with no exception pending, or not at all. *)
MayFlush(o) == exc = NoExc \/ o.text = <<>>

Resized(o, n) == [text |-> o.text, size |-> n, written |-> o.written]

Flushed(o) == [text |-> <<>>, size |-> o.size, written |-> o.written \o o.text]

(* The outcomes of Encoder_EnsureCapacity that let the encoder go on. *)
Reserved(o, required) ==
    IF Fits(o, required) THEN {o}
    ELSE IF target = "memory"
    THEN {Resized(o, n) : n \in NewSizes(o.size, Len(o.text) + required)}
    ELSE IF ~MayFlush(o) THEN {}
    ELSE IF o.size < required
    THEN {Resized(Flushed(o), n) : n \in NewSizes(o.size, required)}
    ELSE {Flushed(o)}

(* Encoder_EnsureCapacity gives up: out of memory, or `write' raised. *)
NoRoom(o, required) ==
    /\ ~Fits(o, required)
    /\ \/ target = "memory" /\ out' = o /\ Raise("NoMemory")
       \/ target = "file" /\ o.text # <<>> /\ out' = o /\ Raise("Callback")
       \/ target = "file" /\ o.size < required /\ MayFlush(o)
             /\ out' = Flushed(o) /\ Raise("NoMemory")

-----------------------------------------------------------------------------
Init ==
    /\ target \in {"memory", "file"}
    /\ root \in Node
    /\ out = [text |-> <<>>, size |-> InitialSize, written |-> <<>>]
    /\ stack = <<>>
    /\ depth = 0
    /\ pc = "call"
    /\ node = root
    /\ exc = NoExc
    /\ refs = [how \in FrameKinds |-> 0]

(* A frame that waits for a key calls __encode_dict_key, not Encode. *)
AsKey == stack # <<>> /\ Top.keyCall
Branch(n) == BranchOf(n, AsKey)

(***************************************************************************)
(* The branches that are taken before __json__ is looked for in vain.  An  *)
(* exception that is pending (see TakenForView) does not get past that     *)
(* lookup: PyObject_HasAttr clears it.  An "Iterable" may be a set, which  *)
(* is tested for before, or an iterator, which is tested for later.        *)
(***************************************************************************)
BeforeLookup ==
    {"String", "Dict", "List", "Moment", "DateTime", "Scalar", "BigInt", "Iterable", "ToJson"}

Dispatched(kinds) ==
    /\ pc = "call"
    /\ Branch(node) \in kinds
    /\ exc = NoExc \/ Branch(node) \in BeforeLookup
Calling(kind) == Dispatched({kind})

Frozen == UNCHANGED <<target, root>>
Fail == pc' = "fail"

LookupClears ==
    /\ pc = "call"
    /\ exc # NoExc
    /\ Branch(node) \notin BeforeLookup \ {"Iterable"}
    /\ exc' = NoExc
    /\ Frozen /\ UNCHANGED <<out, stack, depth, pc, node, refs>>

-----------------------------------------------------------------------------
(* Objects without nested objects. *)

(* Variant: the request of a leaf leaves out Encoder_EXTRA_CAPACITY. *)
LeafRequestBare(n) == Obj[n].need
LeafRequest(n) == Obj[n].need + Extra

(* Encode puts the quotes around a string and a UUID, a dict its keys'. *)
Quoted == ~AsKey /\ Obj[node].kind \in {"String", "UUID"}
ClosingQuote == IF Quoted THEN <<Quote>> ELSE <<>>

(* The buffer before the request for the text itself. *)
LeafStarts ==
    IF ~Quoted THEN {out}
    ELSE IF Obj[node].kind = "String" THEN {Put(out, <<Quote>>)}
    ELSE {Put(o, <<Quote>>) : o \in Reserved(out, Extra)}

CallingLeaf == Dispatched(LeafKinds)

EncodeLeaf ==
    /\ CallingLeaf
    /\ \E start \in LeafStarts : \E o \in Reserved(start, LeafRequest(node)) :
          out' = Put(o, Characters(node) \o ClosingQuote)
    /\ pc' = "return"
    /\ Frozen /\ UNCHANGED <<stack, depth, node, exc, refs>>

LeafNoRoom ==
    /\ CallingLeaf
    /\ \/ \E start \in LeafStarts : NoRoom(start, LeafRequest(node))
       \/ Quoted /\ Obj[node].kind = "UUID" /\ NoRoom(out, Extra)
    /\ Fail
    /\ Frozen /\ UNCHANGED <<stack, depth, node, refs>>

(* str(obj), or tzinfo.utcoffset after the local time has been written. *)
LeafRaises ==
    /\ CallingLeaf
    /\ \/ Branch(node) \in {"UUID", "Decimal"} /\ out' \in LeafStarts
       \/ Branch(node) = "DateTime" /\ out' \in Reserved(out, LeafRequest(node))
    /\ Raise("Callback")
    /\ Fail
    /\ Frozen /\ UNCHANGED <<stack, depth, node, refs>>

(* EncodeLong on overflow, and the ends of the two dispatch functions. *)
Refuse ==
    /\ Calling("BigInt") \/ Calling("Refused")
    /\ Raise("Encode")
    /\ Fail
    /\ Frozen /\ UNCHANGED <<out, stack, depth, node, refs>>

-----------------------------------------------------------------------------
(* Entering a nested level. *)

(* Variant: one level too many gets through. *)
TooDeepLate == depth > MaxDepth

TooDeep == depth + 1 > MaxDepth   \* Encoder_EnterRecursive returns false

NewFrame(how, asKey) ==
    [node |-> node, how |-> how, i |-> 0, keyCall |-> asKey]

(* Encoder_EnterRecursive and the frame of the function that got through. *)
Enter(how) ==
    /\ ~TooDeep
    /\ depth' = depth + 1
    /\ Push(NewFrame(how, FALSE))
    /\ pc' = "loop"

(* It did not get through; nobody has set an exception yet. *)
EnterFails ==
    /\ TooDeep
    /\ depth' = depth + 1
    /\ Fail
    /\ UNCHANGED <<stack, exc>>

(* {} is written without entering a level. *)
EncodeEmptyDict ==
    /\ Calling("Dict")
    /\ Obj[node].items = <<>>
    /\ \E o \in Reserved(out, Extra) : out' = Put(o, <<"{", "}">>)
    /\ pc' = "return"
    /\ Frozen /\ UNCHANGED <<stack, depth, node, exc, refs>>

EnterDict ==
    /\ Calling("Dict")
    /\ Obj[node].items # <<>>
    /\ \E o \in Reserved(out, Extra) : out' = Put(o, <<"{">>)
    /\ (Enter("Dict") /\ UNCHANGED exc) \/ EnterFails
    /\ Frozen /\ UNCHANGED <<node, refs>>

(* The iterator is obtained first; it is lost when the level is too deep. *)
EnterItemsView ==
    /\ Calling("ItemsView")
    /\ \E o \in Reserved(out, Extra) : out' = Put(o, <<"{">>)
    /\ Hold("ItemsView", 1)
    /\ (Enter("ItemsView") /\ UNCHANGED exc) \/ EnterFails
    /\ Frozen /\ UNCHANGED node

(* fields_dict is obtained first; it is lost when the level is too deep. *)
EnterDataclass ==
    /\ Calling("Dataclass")
    /\ \E o \in Reserved(out, Extra) : out' = Put(o, <<"{">>)
    /\ Hold("Dataclass", 1)
    /\ (Enter("Dataclass") /\ UNCHANGED exc) \/ EnterFails
    /\ Frozen /\ UNCHANGED node

(* EncodeList and EncodeTuple enter before they write. *)
EnterList ==
    /\ Calling("List")
    /\ \/ /\ Enter("List")
          /\ \E o \in Reserved(out, Extra) : out' = Put(o, <<"[">>)
          /\ UNCHANGED exc
       \/ EnterFails /\ UNCHANGED out
    /\ Frozen /\ UNCHANGED <<node, refs>>

EnterIterable ==
    /\ Calling("Iterable")
    /\ \E o \in Reserved(out, Extra) : out' = Put(o, <<"[">>)
    /\ \/ Enter("Iterable") /\ Hold("Iterable", 1) /\ UNCHANGED exc
       \/ EnterFails /\ UNCHANGED refs
    /\ Frozen /\ UNCHANGED node

(* A level was requested from the buffer and refused.  EncodeList has       *)
(* counted its level by then, EncodeDataclass holds fields_dict.            *)
EnterNoRoom ==
    /\ Dispatched(MappingKinds \cup ListKinds)
    /\ Branch(node) = "List" => ~TooDeep
    /\ NoRoom(out, Extra)
    /\ depth' = IF Branch(node) = "List" THEN depth + 1 ELSE depth
    /\ IF Branch(node) = "Dataclass" THEN Hold("Dataclass", 1) ELSE UNCHANGED refs
    /\ Fail
    /\ Frozen /\ UNCHANGED <<stack, node>>

(* PyObject_GetIter raised: before the level of an ItemsView is counted,    *)
(* after that of an iterable.  Or __dataclass_fields__ is not a dict.       *)
EnterRaises ==
    /\ \/ /\ Calling("ItemsView")
          /\ \E o \in Reserved(out, Extra) : out' = Put(o, <<"{">>)
          /\ UNCHANGED depth
       \/ /\ Calling("Iterable") /\ ~TooDeep
          /\ \E o \in Reserved(out, Extra) : out' = Put(o, <<"[">>)
          /\ depth' = depth + 1
       \/ Calling("Dataclass") /\ UNCHANGED <<out, depth>>
    /\ Raise("Callback")
    /\ Fail
    /\ Frozen /\ UNCHANGED <<stack, node, refs>>

(***************************************************************************)
(* The test for an ItemsView raised (__class__ may be a property, and the  *)
(* registry of the abstract class allocates): PyObject_IsInstance returns  *)
(* -1, Encode takes it for a yes, and EncodeItemsView runs on the object,  *)
(* whatever it is, with the exception pending.  PyObject_GetIter fails, of *)
(* an object without an iterator and of one whose __iter__ is Python code, *)
(* and replaces the exception; or there is an iterator, whose first item   *)
(* is no pair, or which has none, and is then released twice.  Only a real *)
(* ItemsView goes on.                                                      *)
(***************************************************************************)
BehindCheck == {"ItemsView", "Enum", "UUID", "Iterable", "Decimal", "Dataclass"} \cup NoBranch

TakenForView ==
    /\ pc = "call" /\ ~AsKey /\ exc = NoExc
    /\ Branch(node) \in BehindCheck
    /\ \E o \in Reserved(out, Extra) :
          o.written = out.written /\ out' = Put(o, <<"{">>)
    /\ Raise("Callback")
    /\ \/ Fail /\ UNCHANGED <<stack, depth, refs>>
       \/ TooDeep /\ Fail /\ depth' = depth + 1 /\ Hold("ItemsView", 1) /\ UNCHANGED stack
       \/ Branch(node) = "ItemsView" /\ Enter("ItemsView") /\ Hold("ItemsView", 1)
       \/ /\ Branch(node) # "ItemsView" /\ ~TooDeep
          /\ Fail
          /\ depth' = depth + 1
          /\ Hold("ItemsView", 0) \/ Hold("ItemsView", -1)
          /\ UNCHANGED stack
    /\ Frozen /\ UNCHANGED node

(* There is no room for its bracket, or `write' was called with the pending *)
(* exception.                                                               *)
TakenForViewNoRoom ==
    /\ pc = "call" /\ ~AsKey /\ exc = NoExc
    /\ Branch(node) \in BehindCheck
    /\ NoRoom(out, Extra)
    /\ out'.written = out.written
    /\ Fail
    /\ Frozen /\ UNCHANGED <<stack, depth, node, refs>>

(***************************************************************************)
(* __json__, default and the value of an enum member: the object to encode *)
(* in place of this one, as a key if this one is a key.  Only an enum does *)
(* not count as a level.                                                   *)
(***************************************************************************)
Unwrap(how) ==
    /\ Push(NewFrame(how, AsKey))
    /\ node' = Obj[node].to
    /\ Hold(how, 1)
    /\ UNCHANGED <<pc, exc>>

(* Variant: what was returned takes the place of the object, and no level   *)
(* is counted for it.                                                       *)
CallWrapperInPlace(how) ==
    /\ how \in {"ToJson", "Default"}
    /\ Calling(how)
    /\ exc = NoExc
    /\ node' = Obj[node].to
    /\ Frozen /\ UNCHANGED <<out, stack, depth, pc, exc, refs>>

CallWrapper(how) ==
    /\ how \in {"ToJson", "Default"}
    /\ Calling(how)
    /\ \/ exc = NoExc /\ ~TooDeep /\ depth' = depth + 1 /\ Unwrap(how)
       \/ EnterFails /\ UNCHANGED <<node, refs>>
    /\ Frozen /\ UNCHANGED out

CallEnumValue ==
    /\ Calling("Enum")
    /\ Unwrap("Enum")
    /\ Frozen /\ UNCHANGED <<out, depth>>

UnwrapRaises ==
    /\ \/ Calling("Enum") /\ UNCHANGED depth
       \/ (Calling("ToJson") \/ Calling("Default")) /\ ~TooDeep /\ depth' = depth + 1
    /\ Raise("Callback")
    /\ Fail
    /\ Frozen /\ UNCHANGED <<out, stack, node, refs>>

-----------------------------------------------------------------------------
(* The loops of the containers. *)

Looping(kinds) == pc = "loop" /\ stack # <<>> /\ Top.how \in kinds
Items == Obj[Top.node].items
More == Top.i < Len(Items)

Call(n) == pc' = "call" /\ node' = n

(* PyIter_Next returned a new reference; the others borrow. *)
HoldItem ==
    IF Top.how \in {"ItemsView", "Iterable"} THEN Hold(Top.how, 1) ELSE UNCHANGED refs

NextEntry ==
    /\ Looping(MappingKinds)
    /\ More
    /\ out' = Put(out, <<Quote>>)
    /\ SetTop(Top.i + 1, TRUE)
    /\ Call(Obj[Top.node].keys[Top.i + 1])
    /\ HoldItem
    /\ Frozen /\ UNCHANGED <<depth, exc>>

NextItem ==
    /\ Looping(ListKinds)
    /\ More
    /\ SetTop(Top.i + 1, FALSE)
    /\ Call(Items[Top.i + 1])
    /\ HoldItem
    /\ Frozen /\ UNCHANGED <<out, depth, exc>>

(***************************************************************************)
(* PyIter_Next returned NULL, and an exception is set: its own or one that *)
(* was pending before.  EncodeItemsView releases its iterator after the    *)
(* loop and once more at its `error' label.                                *)
(***************************************************************************)
NextRaises ==
    /\ Looping({"ItemsView", "Iterable"})
    /\ Raise("Callback") \/ (~More /\ exc # NoExc /\ UNCHANGED exc)
    /\ Pop
    /\ Hold(Top.how, IF Top.how = "ItemsView" THEN -2 ELSE -1)
    /\ Fail
    /\ Frozen /\ UNCHANGED <<out, depth, node>>

(* An ItemsView yielded something else than a pair; item and iterator go. *)
BadItem ==
    /\ Looping({"ItemsView"})
    /\ Pop
    /\ Hold("ItemsView", -1)
    /\ Raise("Callback")
    /\ Fail
    /\ Frozen /\ UNCHANGED <<out, depth, node>>

Closer == IF Top.how \in MappingKinds THEN "}" ELSE "]"

(* Variant: the loops over iterators end without a look at PyErr_Occurred. *)
CloseUntested ==
    /\ Looping(MappingKinds \cup ListKinds)
    /\ ~More
    /\ out' = Put(IF Items = <<>> THEN out ELSE Retract(out), <<Closer>>)
    /\ Pop
    /\ depth' = depth - 1
    /\ pc' = "return"
    /\ IF Top.how \in {"ItemsView", "Dataclass", "Iterable"}
       THEN Hold(Top.how, -1) ELSE UNCHANGED refs
    /\ Frozen /\ UNCHANGED <<node, exc>>

(* The loop has ended: overwrite the last comma, if there was an item. *)
Close ==
    /\ Looping(MappingKinds \cup ListKinds)
    /\ ~More
    /\ Top.how \in {"ItemsView", "Iterable"} => exc = NoExc
    /\ out' = Put(IF Items = <<>> THEN out ELSE Retract(out), <<Closer>>)
    /\ Pop
    /\ depth' = depth - 1
    /\ pc' = "return"
    /\ IF Top.how \in {"ItemsView", "Dataclass", "Iterable"}
       THEN Hold(Top.how, -1) ELSE UNCHANGED refs
    /\ Frozen /\ UNCHANGED <<node, exc>>

-----------------------------------------------------------------------------
(* A nested call has returned true. *)

Returned(kinds) == pc = "return" /\ stack # <<>> /\ Top.how \in kinds

(* The key is written; now the value.  The one of a dataclass is fetched. *)
KeyDone ==
    /\ Returned(MappingKinds)
    /\ Top.keyCall
    /\ out' = Put(out, <<Quote, ":">>)
    /\ SetTop(Top.i, FALSE)
    /\ Call(Items[Top.i])
    /\ IF Top.how = "Dataclass" THEN Hold("Dataclass", 1) ELSE UNCHANGED refs
    /\ Frozen /\ UNCHANGED <<depth, exc>>

FieldRaises ==
    /\ Returned({"Dataclass"})
    /\ Top.keyCall
    /\ out' = Put(out, <<Quote, ":">>)
    /\ Pop
    /\ Hold("Dataclass", -1)
    /\ Raise("Callback")
    /\ Fail
    /\ Frozen /\ UNCHANGED <<depth, node>>

(* Variant: a full file buffer is flushed behind the comma. *)
SeparatedFlushed(o) ==
    IF target = "file" THEN Flushed(Put(o, <<",">>)) ELSE Put(o, <<",">>)

Separated(o) == Put(o, <<",">>)

ItemDone ==
    /\ Returned(MappingKinds \cup ListKinds)
    /\ ~Top.keyCall
    /\ out' = Separated(out)
    /\ pc' = "loop"
    /\ IF Top.how \in {"ItemsView", "Iterable", "Dataclass"}
       THEN Hold(Top.how, -1) ELSE UNCHANGED refs
    /\ Frozen /\ UNCHANGED <<stack, depth, node, exc>>

WrapperDone ==
    /\ Returned(WrapperKinds)
    /\ Pop
    /\ depth' = IF Top.how = "Enum" THEN depth ELSE depth - 1
    /\ Hold(Top.how, -1)
    /\ Frozen /\ UNCHANGED <<out, pc, node, exc>>

-----------------------------------------------------------------------------
(* Variants: an exception that is already set does not count, or the limit   *)
(* is off by one.                                                           *)
RecursionByDepth == depth > MaxDepth
RecursionBeyond == depth > MaxDepth + 1 /\ exc = NoExc

(***************************************************************************)
(* A nested call has returned false.  The first frame that sees it, if the *)
(* cause is the depth and no exception is set, reports the error           *)
(* (Encoder_RecursionOccured, Encoder_HandleRecursion).  An enum only      *)
(* passes the result on.                                                   *)
(***************************************************************************)
RecursionOccured == depth > MaxDepth /\ exc = NoExc

(* Variant: the item of an iterable is not released. *)
ReleasedIterator(f) == IF f.how \in {"Iterable"} \cup WrapperKinds THEN 1 ELSE 0

(* What the frame releases.  EncodeItemsView returns from within            *)
(* Encoder_HandleRecursion and keeps its item and its iterator.             *)
Released(f) ==
    IF f.how = "Iterable" THEN 2
    ELSE IF f.how = "ItemsView" THEN (IF RecursionOccured THEN 0 ELSE 2)
    ELSE IF f.how = "Dataclass" THEN (IF f.keyCall THEN 1 ELSE 2)
    ELSE IF f.how \in WrapperKinds THEN 1
    ELSE 0

(* Variants: the functions for lists, or for __json__, only pass it on. *)
ReportsExceptList(f) == f.how \notin {"Enum", "List"}
ReportsExceptJson(f) == f.how \notin {"Enum", "ToJson"}

Reports(f) == f.how # "Enum"

CallFailed ==
    /\ pc = "fail"
    /\ stack # <<>>
    /\ IF RecursionOccured /\ Reports(Top)
       THEN exc' = [type |-> "Recursion", at |-> Top.node]
       ELSE UNCHANGED exc
    /\ Pop
    /\ Hold(Top.how, 0 - Released(Top))
    /\ Frozen /\ UNCHANGED <<out, depth, pc, node>>

-----------------------------------------------------------------------------
(* The outermost call. *)

(* dumps and dumpb build their result from the buffer; dump flushes it. *)
(* Variant: dump returns without the last Flush. *)
FinishUnflushed ==
    /\ pc = "return"
    /\ stack = <<>>
    /\ pc' = "returned"
    /\ Frozen /\ UNCHANGED <<out, stack, depth, node, exc, refs>>

Finish ==
    /\ pc = "return"
    /\ stack = <<>>
    /\ out' = IF target = "file" THEN Flushed(out) ELSE out
    /\ pc' = "returned"
    /\ Frozen /\ UNCHANGED <<stack, depth, node, exc, refs>>

(* The result cannot be allocated, or the last `write' raised. *)
FinishFails ==
    /\ pc = "return"
    /\ stack = <<>>
    /\ IF target = "file" THEN out.text # <<>> /\ Raise("Callback") ELSE Raise("NoMemory")
    /\ pc' = "raised"
    /\ Frozen /\ UNCHANGED <<out, stack, depth, node, refs>>

ReturnNull ==
    /\ pc = "fail"
    /\ stack = <<>>
    /\ pc' = "raised"
    /\ Frozen /\ UNCHANGED <<out, stack, depth, node, exc, refs>>

Over == pc \in {"returned", "raised"} /\ UNCHANGED vars

Leaves == LookupClears \/ EncodeLeaf \/ LeafNoRoom \/ LeafRaises \/ Refuse
Entries ==
    \/ EncodeEmptyDict \/ EnterDict \/ EnterItemsView \/ EnterDataclass
    \/ EnterList \/ EnterIterable \/ EnterNoRoom \/ EnterRaises
    \/ TakenForView \/ TakenForViewNoRoom
Wrappers == (\E how \in WrapperKinds : CallWrapper(how)) \/ CallEnumValue \/ UnwrapRaises
Loops == NextEntry \/ NextItem \/ NextRaises \/ BadItem \/ Close
Returns == KeyDone \/ FieldRaises \/ ItemDone \/ WrapperDone \/ CallFailed
Ends == Finish \/ FinishFails \/ ReturnNull

Next == Leaves \/ Entries \/ Wrappers \/ Loops \/ Returns \/ Ends \/ Over

Spec == Init /\ [][Next]_vars

(* The encoder is sequential code: it runs on as long as it can. *)
FairSpec == Spec /\ WF_vars(Next)

-----------------------------------------------------------------------------
(* A container on the stack is the object it was entered for, and its index *)
(* stays within its items; one that waits for a nested call has fetched one *)
(* (the loops of EncodeDict, EncodeList and the others).                    *)
IndexInItems ==
    \A k \in 1..Len(stack) :
        LET f == stack[k]
        IN  f.how \in MappingKinds \cup ListKinds =>
                /\ Obj[f.node].kind = f.how
                /\ f.i <= Len(Obj[f.node].items)
                /\ (k < Len(stack) \/ pc # "loop") => f.i >= 1

(* The types of the state, and the frames' hold on their items. *)
TypeOK ==
    /\ target \in {"memory", "file"}
    /\ root \in Node
    /\ out \in Buffer
    /\ stack \in Seq(Frame)
    /\ depth \in Nat
    /\ pc \in {"call", "loop", "return", "fail", "returned", "raised"}
    /\ node \in Node
    /\ exc \in Exceptions
    /\ refs \in [FrameKinds -> Int]
    /\ IndexInItems

(* The frames that count as a level; the value of an enum member does not. *)
Levels(s) == {k \in 1..Len(s) : s[k].how # "Enum"}

(* While nothing has failed, recursionDepth is the number of levels on the  *)
(* C stack and within the limit: no path through the encoding functions     *)
(* enters without leaving, or leaves twice.  After a failure it is no       *)
(* longer kept up to date.                                                  *)
DepthCountsLevels ==
    pc \in {"call", "loop", "return", "returned"} =>
        /\ depth = Cardinality(Levels(stack))
        /\ depth <= MaxDepth

(* An exception may be pending while the encoding goes on, because a test   *)
(* that raised was taken for a yes.  It cannot end in a success: the        *)
(* EncodeItemsView that will look for it is still on the stack, or          *)
(* something fails before, or it is cleared.                                *)
PendingIsSeen ==
    pc \in {"call", "loop", "return", "returned"} /\ exc # NoExc =>
        \E k \in 1..Len(stack) : stack[k].how = "ItemsView"

(* While a failure is passed up there is an exception, or the depth is      *)
(* exceeded and the levels that will report it are still on the stack.      *)
(* Encoder_EnterRecursive itself returns false without an exception.        *)
SomeoneReports ==
    pc \in {"fail", "raised"} =>
        \/ exc # NoExc
        \/ pc = "fail" /\ depth > MaxDepth /\ Cardinality(Levels(stack)) = MaxDepth

(* The rule of the C API: dumps, dumpb and dump return NULL if and only if  *)
(* an exception is set.                                                     *)
NullMeansException ==
    /\ pc = "raised" => exc # NoExc
    /\ pc = "returned" => exc = NoExc

(* Encoder_AppendFast never writes behind the buffer, as its assertion      *)
(* demands (encoder.h:23): the characters put between two requests, those   *)
(* of closing brackets included, stay within what was requested.            *)
NoOverrun == Len(out.text) <= out.size

(* The space the functions on the stack still count on: one closing bracket *)
(* for each of them, and what they write before the next request.           *)
Room == out.size - Len(out.text)
Slack ==
    /\ pc = "call" => Room >= 1
    /\ pc = "loop" => Room >= depth + (IF Top.i = 0 THEN 2 ELSE 1)
    /\ pc = "return" => Room >= depth + 2
    /\ Room >= 0

(* What a closing bracket overwrites is the comma behind the last item of   *)
(* its own container, and that comma is still in the buffer: no Flush can   *)
(* fall between the two (the `--cursor' at the end of the loops).           *)
CommaInBuffer ==
    pc = "loop" /\ Top.i > 0 =>
        /\ out.text # <<>>
        /\ out.text[Len(out.text)] = ","

(* What Encoder_LeaveRecursive asserts before it decrements recursionDepth  *)
(* (encoder.h:38).                                                          *)
Leaving ==
    \/ Looping(MappingKinds \cup ListKinds) /\ ~More
    \/ Returned(WrapperKinds \ {"Enum"})
LeaveAssertion == Leaving => depth < MaxDepth

(* The exception a function fails with is not replaced by those around it   *)
(* while the call unwinds: the one of the Python code that failed, or the   *)
(* depth error of the innermost container, is the one the caller sees       *)
(* (Encoder_RecursionOccured).                                              *)
FirstExceptionKept ==
    [][exc # NoExc /\ pc \in {"fail", "raised"} => exc' = exc]_vars

(* The depth error is set by the function that could not enter its item,    *)
(* the one at the limit, which knows the item, its index or its key, and    *)
(* not by one of the functions around it.                                   *)
InnermostReports ==
    [][exc # exc' /\ exc'.type = "Recursion" =>
          /\ Cardinality(Levels(stack)) = MaxDepth
          /\ exc'.at = Top.node]_vars

(* Every reference the encoder took is released when the call is over,      *)
(* except those of an ItemsView or a Dataclass when the call fails.         *)
RefsReleased ==
    /\ pc = "returned" => \A how \in FrameKinds : refs[how] = 0
    /\ pc = "raised" =>
          \A how \in FrameKinds \ {"ItemsView", "Dataclass"} : refs[how] = 0

(* Every call returns, on cyclic objects too. *)
Terminates == <>(pc \in {"returned", "raised"})
=============================================================================
