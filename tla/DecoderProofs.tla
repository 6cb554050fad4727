---------------------------- MODULE DecoderProofs ----------------------------
(***************************************************************************)
(* For every text, of any length and nesting, and all arguments of loads:  *)
(* the decoder releases what it owns on every way out, and it returns NULL *)
(* with an exception or an object without one; a JsonDecodeError names the *)
(* first token that is not in its place, and only a text in which every    *)
(* token is in its place makes an object.                                  *)
(***************************************************************************)
EXTENDS ErrorPosition, SequenceLemmas, FiniteSetTheorems

-----------------------------------------------------------------------------
(* The inductive invariant.  A dict that waits for a value has the key the  *)
(* value is for; the one whose turn it is to read a key has none.  A NULL   *)
(* on its way to the caller comes with an exception, and an exception that  *)
(* is pending while decoding goes on has one of the two excuses that        *)
(* NullMeansError allows.                                                   *)

IsSequence(s) == s \in Seq({s[i] : i \in DOMAIN s})

Waits(f) == f.kind = "dict" => f.key # Null

StackInv ==
    /\ IsSequence(stack)
    /\ \A i \in 1..Len(stack) : FrameOK(stack[i])
    /\ \A i \in 1..(Len(stack) - 1) : Waits(stack[i])
    /\ unbalanced = {}

TopInv ==
    /\ pc \in {"value", "got"} /\ stack # <<>> => Waits(Top)
    /\ pc = "key" => stack # <<>> /\ Top.kind = "dict" /\ Top.key = Null
    /\ pc \in {"loads", "done"} => stack = <<>>

ErrorInv ==
    /\ pc = "loads" => ret = Null
    /\ pc \in {"got", "done"} /\ ret = Null => exc # NoExc
    /\ pc \in {"value", "key"} /\ exc # NoExc => BadArgument \/ swallowed
    /\ pc \in {"got", "done"} /\ ret # Null /\ exc # NoExc => BadArgument \/ swallowed

IInv == TypeOK /\ StackInv /\ TopInv /\ ErrorInv

-----------------------------------------------------------------------------
(* The cursor. *)

(* The terminator is a NUL, and the cursor may be advanced at anything else.*)
LEMMA CursorMoves ==
    ASSUME call \in Call, NEW i \in 1..End
    PROVE  /\ At(End) = "nul"
           /\ At(i) # "nul" => i + 1 \in 1..End
  <1>1. Len(Text) \in Nat
    BY LenProperties DEF Call, Text
  <1> QED
    BY <1>1 DEF At, End

(* Decoder_EatWhiteSpace stops, at the terminator at the latest. *)
LEMMA EatStops ==
    ASSUME call \in Call, NEW i \in 1..End
    PROVE  Eat(i) \in 1..End
  <1> DEFINE S == {j \in i..End : At(j) # "ws"}
  <1>1. End \in Nat
    BY LenProperties DEF Call, Text, End
  <1>2. S \in SUBSET Nat /\ End \in S
    BY <1>1, CursorMoves
  <1>3. PICK n \in S : \A m \in S : n <= m
    BY <1>2, LeastNumber
  <1>4. \A k \in i..(n - 1) : At(k) = "ws"
    BY <1>1, <1>2, <1>3
  <1> QED
    BY <1>1, <1>3, <1>4 DEF Eat

-----------------------------------------------------------------------------
(* The stack. *)

LEMMA ItsElements ==
    ASSUME NEW S, NEW t \in Seq(S)
    PROVE  t \in Seq({t[j] : j \in DOMAIN t})
  <1> DEFINE E == {t[j] : j \in DOMAIN t}
  <1>1. Len(t) \in Nat /\ t \in [1..Len(t) -> S]
    BY LenProperties
  <1>2. t \in [1..Len(t) -> E]
    BY <1>1
  <1> QED
    BY <1>1, <1>2, SeqDef

LEMMA Pushed ==
    ASSUME NEW s, IsSequence(s), NEW f
    PROVE  /\ IsSequence(Append(s, f))
           /\ Len(s) \in Nat
           /\ Len(Append(s, f)) = Len(s) + 1
           /\ \A i \in 1..Len(s) : Append(s, f)[i] = s[i]
           /\ Append(s, f)[Len(s) + 1] = f
  <1> DEFINE S == {s[i] : i \in DOMAIN s} \cup {f}
             t == Append(s, f)
  <1>1. s \in Seq(S) /\ f \in S
    BY SeqMonotonic DEF IsSequence
  <1>2. /\ t \in Seq(S) /\ Len(s) \in Nat /\ Len(t) = Len(s) + 1
        /\ \A i \in 1..Len(s) : t[i] = s[i]
        /\ t[Len(s) + 1] = f
    BY <1>1, AppendProperties, LenProperties
  <1>4. t \in Seq({t[j] : j \in DOMAIN t})
    BY <1>2, ItsElements
  <1> QED
    BY <1>2, <1>4 DEF IsSequence

LEMMA Popped ==
    ASSUME NEW s, IsSequence(s), s # <<>>
    PROVE  /\ IsSequence(SubSeq(s, 1, Len(s) - 1))
           /\ Len(s) \in Nat \ {0}
           /\ Len(SubSeq(s, 1, Len(s) - 1)) = Len(s) - 1
           /\ \A i \in 1..(Len(s) - 1) : SubSeq(s, 1, Len(s) - 1)[i] = s[i]
  <1> DEFINE S == {s[i] : i \in DOMAIN s}
             t == SubSeq(s, 1, Len(s) - 1)
  <1>1. s \in Seq(S) /\ Len(s) \in Nat \ {0} /\ DOMAIN s = 1..Len(s)
    BY LenProperties, EmptySeq DEF IsSequence
  <1>2. \A i \in 1..(Len(s) - 1) : s[i] \in S
    BY <1>1
  <1>3. /\ t \in Seq(S) /\ Len(t) = Len(s) - 1
        /\ \A i \in 1..(Len(s) - 1) : t[i] = s[i]
    BY <1>1, <1>2, SubSeqProperties
  <1>4. t \in Seq({t[j] : j \in DOMAIN t})
    BY <1>3, ItsElements
  <1> QED
    BY <1>1, <1>3, <1>4 DEF IsSequence

(* A frame returns having released what it owns, no more and no less. *)
LEMMA LeaveInv ==
    ASSUME IInv, stack # <<>>, pc' = "got",
           NEW f, NEW released, Leave(f, released), f.owns = released
    PROVE  StackInv' /\ TopInv'
  <1>1. /\ stack' = SubSeq(stack, 1, Len(stack) - 1)
        /\ unbalanced' = {}
    BY DEF Leave, Below, IInv, StackInv
  <1>2. /\ IsSequence(stack') /\ Len(stack) \in Nat \ {0}
        /\ Len(stack') = Len(stack) - 1
        /\ \A i \in 1..(Len(stack) - 1) : stack'[i] = stack[i]
    BY <1>1, Popped DEF IInv, StackInv
  <1>3. /\ \A i \in 1..Len(stack') : FrameOK(stack'[i])
        /\ \A i \in 1..Len(stack') : Waits(stack'[i])
    BY <1>2 DEF IInv, StackInv
  <1>4. stack' # <<>> => Len(stack') \in 1..Len(stack')
    BY <1>2, EmptySeq DEF IsSequence
  <1> QED
    BY <1>1, <1>2, <1>3, <1>4 DEF StackInv, TopInv, Top

(* The innermost frame is exchanged for f. *)
LEMMA GoOnInv ==
    ASSUME IInv, stack # <<>>,
           NEW f, NEW next, NEW at, GoOn(f, next, at), FrameOK(f),
           \/ next = "value" /\ Waits(f)
           \/ next = "key" /\ f.kind = "dict" /\ f.key = Null
    PROVE  StackInv' /\ TopInv'
  <1>1. /\ IsSequence(Below) /\ Len(stack) \in Nat \ {0}
        /\ Len(Below) = Len(stack) - 1
        /\ \A i \in 1..(Len(stack) - 1) : Below[i] = stack[i]
    BY Popped DEF IInv, StackInv, Below
  <1>2. stack' = Append(Below, f) /\ pc' = next /\ unbalanced' = unbalanced
    BY DEF GoOn
  <1>3. /\ IsSequence(stack') /\ Len(stack') = Len(stack)
        /\ \A i \in 1..(Len(stack) - 1) : stack'[i] = stack[i]
        /\ stack'[Len(stack)] = f
    BY <1>1, <1>2, Pushed
  <1>4. \A i \in 1..Len(stack') : FrameOK(stack'[i])
    BY <1>1, <1>3 DEF IInv, StackInv
  <1>5. StackInv'
    BY <1>1, <1>2, <1>3, <1>4 DEF IInv, StackInv
  <1>6. stack' # <<>> /\ Top' = f
    BY <1>1, <1>3 DEF Top
  <1> QED
    BY <1>2, <1>5, <1>6 DEF TopInv

-----------------------------------------------------------------------------
(* What the functions return. *)

LEMMA ObjectsAreNotNull ==
    ASSUME NEW x
    PROVE  /\ StrObj(x) # Null /\ DateObj(x) # Null /\ PlainObj(x) # Null
           /\ FloatObj(x) # Null /\ ParsedObj(x) # Null /\ ListObj(x) # Null
           /\ DictObj(x) # Null /\ HookedObj(x) # Null
  BY DEF Null, StrObj, DateObj, PlainObj, FloatObj, ParsedObj, ListObj, DictObj, HookedObj

LEMMA Errors ==
    /\ NoExc \in Exceptions /\ Failed \in Exceptions /\ TypeError \in Exceptions
    /\ Failed # NoExc /\ TypeError # NoExc
  BY DEF Exceptions, NoExc, Failed, TypeError

LEMMA ReportIsError ==
    ASSUME NEW e, NEW what \in {"end", "character", "junk", "string"}, NEW i \in Nat,
           NEW r \in Reports(e, what, i)
    PROVE  r \in Exceptions /\ r # NoExc
  <1>1. CASE r = Failed
    BY <1>1, Errors
  <1>2. CASE r = [type |-> "DecodeError", what |-> what, at |-> i]
    BY <1>2 DEF Exceptions, NoExc
  <1> QED
    BY <1>1, <1>2 DEF Reports

(* A function that returns NULL leaves an exception; one that returns an    *)
(* object leaves what was pending, or nothing.                              *)
OutcomeOK(o) ==
    /\ o.exc \in Exceptions
    /\ o.hidden \in BOOLEAN
    /\ o.ret = Null => o.exc # NoExc
    /\ o.ret # Null => o.exc \in {exc, NoExc}

LEMMA FailsOK ==
    ASSUME NEW e \in Exceptions, e # NoExc
    PROVE  OutcomeOK(Fails(e)) /\ Fails(e).ret = Null
  BY DEF Fails, Outcome, OutcomeOK

LEMMA GivesOK ==
    ASSUME NEW value, value # Null, NEW e \in Exceptions, e \in {exc, NoExc}
    PROVE  OutcomeOK(Gives(value, e))
  BY DEF Gives, Outcome, OutcomeOK

LEMMA HookOutcome ==
    ASSUME exc \in Exceptions, NEW hook, NEW value, value # Null,
           NEW o \in CallsHook(hook, value)
    PROVE  OutcomeOK(o)
  <1>1. \/ o = Fails(Failed)
        \/ o = Gives(value, NoExc)
        \/ o = Fails(TypeError)
    BY DEF CallsHook
  <1> QED
    BY <1>1, Errors, FailsOK, GivesOK

LEMMA PlainStringOutcome ==
    ASSUME NEW e \in Exceptions, e \in {exc, NoExc}, NEW t,
           NEW o \in ReadPlainString(t, e)
    PROVE  OutcomeOK(o) /\ OutcomeOK([o EXCEPT !.hidden = TRUE])
  <1>1. \/ o = Gives(StrObj(t), e)
        \/ o = Fails(Failed)
        \/ o = Gives(StrObj(t), NoExc)
    BY DEF ReadPlainString
  <1>2. StrObj(t) # Null
    BY ObjectsAreNotNull
  <1>3. OutcomeOK(o)
    BY <1>1, <1>2, Errors, FailsOK, GivesOK
  <1>4. DOMAIN o = {"ret", "exc", "hidden"}
    BY <1>1 DEF Gives, Fails, Outcome
  <1>5. /\ [o EXCEPT !.hidden = TRUE].exc = o.exc
        /\ [o EXCEPT !.hidden = TRUE].ret = o.ret
        /\ [o EXCEPT !.hidden = TRUE].hidden = TRUE
    BY <1>4
  <1> QED
    BY <1>3, <1>5 DEF OutcomeOK

LEMMA StringOutcome ==
    ASSUME IInv, NEW i \in 1..End, At(i) \in Strings \cup BadStr,
           NEW o \in ReadString(i)
    PROVE  OutcomeOK(o) /\ At(i) # "nul"
  <1>1. exc \in Exceptions /\ i \in Nat
    BY LenProperties DEF IInv, TypeOK, Call, End, Text
  <1>2. At(i) # "nul"
    BY TokenAssumption DEF Scalar, Stray
  <1>3. CASE At(i) \in BadStr
    <2>1. At(i) \notin Date /\ At(i) \notin NotDate
      BY <1>3, TokenAssumption DEF Scalar, Strings
    <2>2. ReadString(i) = {Fails(e) : e \in Reports(exc, "string", i)}
      BY <1>3, <2>1 DEF ReadString
    <2>3. PICK e \in Reports(exc, "string", i) : o = Fails(e)
      BY <2>2
    <2>4. e \in Exceptions /\ e # NoExc
      BY <1>1, <2>3, ReportIsError
    <2> QED
      BY <1>2, <2>3, <2>4, FailsOK
  <1>4. CASE At(i) \notin BadStr
    <2>1. \/ o = Gives(DateObj(At(i)), exc)
          \/ \E p \in ReadPlainString(At(i), NoExc) :
                o = p \/ o = [p EXCEPT !.hidden = TRUE]
          \/ o \in ReadPlainString(At(i), exc)
      BY <1>4 DEF ReadString
    <2>2. OutcomeOK(Gives(DateObj(At(i)), exc))
      BY <1>1, ObjectsAreNotNull, GivesOK
    <2> QED
      BY <1>1, <1>2, <2>1, <2>2, PlainStringOutcome, Errors
  <1> QED
    BY <1>3, <1>4

LEMMA OtherOutcome ==
    ASSUME IInv, NEW i \in 1..End, NEW o \in ReadOther(i)
    PROVE  OutcomeOK(o) /\ (o.ret # Null => At(i) # "nul")
  <1>1. exc \in Exceptions /\ i \in Nat
    BY LenProperties DEF IInv, TypeOK, Call, End, Text
  <1>2. CASE At(i) \in Plain
    <2>1. At(i) \notin Float /\ At(i) # "nul"
      BY <1>2, TokenAssumption DEF Scalar, Stray
    <2>2. o \in {Gives(PlainObj(At(i)), exc), Fails(Failed)}
      BY <1>2, <2>1 DEF ReadOther
    <2> QED
      BY <1>1, <2>1, <2>2, Errors, ObjectsAreNotNull, GivesOK, FailsOK
  <1>3. CASE At(i) \notin Plain /\ At(i) \in Float
    <2>1. \/ o \in {Gives(FloatObj(At(i)), exc), Fails(Failed)}
          \/ o \in CallsHook(call.parseFloat, ParsedObj(At(i)))
      BY <1>3 DEF ReadOther
    <2>2. At(i) # "nul"
      BY <1>3, TokenAssumption DEF Scalar, Stray
    <2>3. o \in {Gives(FloatObj(At(i)), exc), Fails(Failed)} => OutcomeOK(o)
      BY <1>1, Errors, ObjectsAreNotNull, GivesOK, FailsOK
    <2>4. ParsedObj(At(i)) # Null
      BY ObjectsAreNotNull
    <2>5. o \in CallsHook(call.parseFloat, ParsedObj(At(i))) => OutcomeOK(o)
      BY <1>1, <2>4, HookOutcome
    <2> QED
      BY <2>1, <2>2, <2>3, <2>5
  <1>4. CASE At(i) \notin Plain /\ At(i) \notin Float
    <2>1. PICK e \in Reports(exc, IF i = End THEN "end" ELSE "character", i) : o = Fails(e)
      BY <1>4 DEF ReadOther
    <2>2. e \in Exceptions /\ e # NoExc
      BY <1>1, <2>1, ReportIsError
    <2> QED
      BY <2>1, <2>2, FailsOK
  <1> QED
    BY <1>2, <1>3, <1>4

-----------------------------------------------------------------------------
(* The steps. *)

(* What the steps of the decoder leave of ErrorInv when a function returns. *)
LEMMA ReturnInv ==
    ASSUME IInv, pc # "done", NEW value, NEW e, Return(value, e),
           value = Null => e # NoExc,
           value # Null /\ e # NoExc => BadArgument' \/ swallowed'
    PROVE  ErrorInv'
  BY DEF Return, ErrorInv

(* An exception that is pending while decoding goes on keeps its excuse. *)
LEMMA ExcuseStays ==
    ASSUME IInv, pc \in {"value", "key"} \/ (pc = "got" /\ ret # Null),
           call' = call, swallowed => swallowed',
           NEW e \in {exc, NoExc}, e # NoExc
    PROVE  BadArgument' \/ swallowed'
  BY DEF IInv, ErrorInv, BadArgument, Refused

LEMMA LoadsInv == IInv /\ Loads => IInv'
  <1> SUFFICES ASSUME IInv, Loads PROVE IInv'
    OBVIOUS
  <1>1. /\ UNCHANGED <<call, pos, stack, ret, swallowed, unbalanced>>
        /\ stack = <<>> /\ ret = Null
        /\ End' = End /\ BadArgument' = BadArgument
    BY DEF Loads, IInv, TopInv, ErrorInv, BadArgument, End, Text
  <1>2. TypeOK'
    BY <1>1, Errors DEF IInv, TypeOK, Loads
  <1>3. StackInv' /\ TopInv'
    BY <1>1 DEF IInv, StackInv, TopInv, Loads
  <1>4. ErrorInv'
    BY <1>1, Errors DEF ErrorInv, Loads
  <1> QED
    BY <1>2, <1>3, <1>4 DEF IInv

LEMMA ScalarInv == IInv /\ ReadScalar => IInv'
  <1> SUFFICES ASSUME IInv, ReadScalar PROVE IInv'
    OBVIOUS
  <1> DEFINE i == Eat(pos)
  <1>1. /\ pc = "value" /\ call' = call /\ stack' = stack
        /\ unbalanced' = unbalanced /\ End' = End
    BY DEF ReadScalar, End, Text
  <1>2. call \in Call /\ pos \in 1..End /\ swallowed \in BOOLEAN
    BY DEF IInv, TypeOK
  <1>3. i \in 1..End
    BY <1>2, EatStops
  <1>4. PICK o \in IF At(i) \in Strings \cup BadStr THEN ReadString(i) ELSE ReadOther(i) :
           /\ Return(o.ret, o.exc)
           /\ swallowed' = (swallowed \/ o.hidden)
           /\ pos' = IF o.ret = Null THEN pos ELSE i + 1
    BY DEF ReadScalar
  <1>5. OutcomeOK(o) /\ (o.ret # Null => At(i) # "nul")
    <2> HIDE DEF i
    <2> QED
      BY <1>3, <1>4, StringOutcome, OtherOutcome
  <1>6. pos' \in 1..End
    <2> HIDE DEF i
    <2> QED
      BY <1>2, <1>3, <1>4, <1>5, CursorMoves
  <1>7. TypeOK'
    BY <1>1, <1>2, <1>4, <1>5, <1>6 DEF IInv, TypeOK, Return, OutcomeOK
  <1>8. StackInv' /\ TopInv'
    BY <1>1, <1>4 DEF IInv, StackInv, TopInv, Top, Return
  <1>9. ErrorInv'
    <2>1. o.ret # Null /\ o.exc # NoExc => BadArgument' \/ swallowed'
      BY <1>1, <1>4, <1>5, ExcuseStays DEF OutcomeOK
    <2> QED
      BY <1>1, <1>4, <1>5, <2>1, ReturnInv DEF OutcomeOK
  <1> QED
    BY <1>7, <1>8, <1>9 DEF IInv

LEMMA EnterInv ==
    ASSUME IInv, NEW opening, NEW closing, opening # "nul", closing # "nul",
           NEW empty, empty # Null, NEW frame, NEW next,
           Enter(opening, closing, empty, frame, next), FrameOK(frame),
           \/ next = "value" /\ Waits(frame)
           \/ next = "key" /\ frame.kind = "dict" /\ frame.key = Null
    PROVE  IInv'
  <1> DEFINE i == Eat(pos)
             j == Eat(i + 1)
  <1>1. /\ pc = "value" /\ At(i) = opening
        /\ UNCHANGED <<call, swallowed, unbalanced>> /\ End' = End
    BY DEF Enter, End, Text
  <1>2. call \in Call /\ pos \in 1..End /\ swallowed \in BOOLEAN /\ exc \in Exceptions
    BY DEF IInv, TypeOK
  <1>3. i \in 1..End
    BY <1>2, EatStops
  <1>4. i + 1 \in 1..End
    <2> HIDE DEF i
    <2> QED
      BY <1>1, <1>2, <1>3, CursorMoves
  <1>5. j \in 1..End
    <2> HIDE DEF i
    <2> QED
      BY <1>2, <1>4, EatStops
  <1>6. CASE Return(Null, Failed) /\ UNCHANGED <<pos, stack>>
    <2>1. TypeOK'
      BY <1>1, <1>2, <1>6, Errors DEF IInv, TypeOK, Return
    <2>2. StackInv' /\ TopInv'
      BY <1>1, <1>6 DEF IInv, StackInv, TopInv, Top, Return
    <2>3. ErrorInv'
      BY <1>1, <1>6, Errors, ReturnInv
    <2> QED
      BY <2>1, <2>2, <2>3 DEF IInv
  <1>7. CASE At(j) = closing /\ Return(empty, exc) /\ pos' = j + 1 /\ UNCHANGED stack
    <2>1. pos' \in 1..End
      <3> HIDE DEF j
      <3> QED
        BY <1>2, <1>5, <1>7, CursorMoves
    <2>2. TypeOK'
      BY <1>1, <1>2, <1>7, <2>1 DEF IInv, TypeOK, Return
    <2>3. StackInv' /\ TopInv'
      BY <1>1, <1>7 DEF IInv, StackInv, TopInv, Top, Return
    <2>4. exc # NoExc => BadArgument' \/ swallowed'
      BY <1>1, ExcuseStays
    <2>5. ErrorInv'
      BY <1>1, <1>7, <2>4, ReturnInv
    <2> QED
      BY <2>2, <2>3, <2>5 DEF IInv
  <1>8. CASE /\ stack' = Append(stack, frame)
             /\ pc' = next
             /\ pos' = j
             /\ UNCHANGED <<ret, exc>>
    <2>1. /\ IsSequence(stack') /\ Len(stack) \in Nat /\ Len(stack') = Len(stack) + 1
          /\ \A k \in 1..Len(stack) : stack'[k] = stack[k]
          /\ stack'[Len(stack) + 1] = frame
      BY <1>8, Pushed DEF IInv, StackInv
    <2>2. \A k \in 1..Len(stack') : FrameOK(stack'[k])
      BY <2>1 DEF IInv, StackInv
    <2>3. \A k \in 1..Len(stack) : Waits(stack[k])
      <3>1. stack # <<>> => Waits(stack[Len(stack)])
        BY <1>1 DEF IInv, TopInv, Top
      <3>2. Len(stack) # 0 => stack # <<>>
        BY EmptySeq DEF IInv, StackInv, IsSequence
      <3> QED
        BY <2>1, <3>1, <3>2 DEF IInv, StackInv
    <2>4. StackInv'
      BY <1>1, <2>1, <2>2, <2>3 DEF IInv, StackInv
    <2>5. Top' = frame /\ stack' # <<>>
      BY <2>1 DEF Top
    <2>6. TopInv'
      BY <1>8, <2>5 DEF TopInv
    <2>7. TypeOK'
      <3> HIDE DEF j
      <3> QED
        BY <1>1, <1>2, <1>5, <1>8, <2>2 DEF TypeOK
    <2>8. ErrorInv'
      <3>1. exc # NoExc => BadArgument' \/ swallowed'
        BY <1>1, ExcuseStays
      <3> QED
        BY <1>8, <3>1 DEF ErrorInv
    <2> QED
      BY <2>4, <2>6, <2>7, <2>8 DEF IInv
  <1> QED
    BY <1>6, <1>7, <1>8 DEF Enter

LEMMA EnterEitherInv == IInv /\ (EnterList \/ EnterDict) => IInv'
  <1> SUFFICES ASSUME IInv, EnterList \/ EnterDict PROVE IInv'
    OBVIOUS
  <1>1. ListObj(<<>>) # Null /\ DictObj(<<>>) # Null
    BY ObjectsAreNotNull
  <1>2. CASE EnterList
    <2>1. FrameOK(ListFrame(<<>>)) /\ Waits(ListFrame(<<>>))
      BY DEF FrameOK, ListFrame, Waits
    <2> QED
      BY <1>1, <1>2, <2>1, EnterInv DEF EnterList
  <1>3. CASE EnterDict
    <2> DEFINE f == DictFrame(<<>>, Null, {"container"})
    <2>1. FrameOK(f) /\ f.kind = "dict" /\ f.key = Null
      BY DEF FrameOK, DictFrame
    <2> QED
      BY <1>1, <1>3, <2>1, EnterInv DEF EnterDict
  <1> QED
    BY <1>2, <1>3

(* A frame is left: what remains to be shown of the step. *)
LEMMA LeaveStep ==
    ASSUME IInv, stack # <<>>, pc # "done", call' = call, pos' \in 1..End,
           swallowed' \in BOOLEAN,
           NEW f, NEW released, Leave(f, released), f.owns = released,
           NEW value, NEW e \in Exceptions, Return(value, e),
           value = Null => e # NoExc,
           value # Null /\ e # NoExc => BadArgument' \/ swallowed'
    PROVE  IInv'
  <1>1. pc' = "got" /\ exc' = e
    BY DEF Return
  <1>2. StackInv' /\ TopInv'
    BY <1>1, LeaveInv
  <1>3. ErrorInv'
    BY ReturnInv
  <1>4. End' = End /\ call' \in Call
    BY DEF End, Text, IInv, TypeOK
  <1>5. TypeOK'
    BY <1>1, <1>2, <1>4 DEF TypeOK, StackInv
  <1> QED
    BY <1>2, <1>3, <1>5 DEF IInv

(* The innermost frame changes: what remains to be shown of the step. *)
LEMMA GoOnStep ==
    ASSUME IInv, stack # <<>>, call' = call, NEW at \in 1..End,
           swallowed' \in BOOLEAN, exc' \in Exceptions,
           exc' # NoExc => BadArgument' \/ swallowed',
           NEW f, NEW next, GoOn(f, next, at), FrameOK(f),
           \/ next = "value" /\ Waits(f)
           \/ next = "key" /\ f.kind = "dict" /\ f.key = Null
    PROVE  IInv'
  <1>1. pc' = next /\ pos' = at
    BY DEF GoOn
  <1>2. StackInv' /\ TopInv'
    BY GoOnInv
  <1>3. ErrorInv'
    BY <1>1 DEF ErrorInv
  <1>4. End' = End /\ call' \in Call
    BY DEF End, Text, IInv, TypeOK
  <1>5. TypeOK'
    BY <1>1, <1>2, <1>4 DEF TypeOK, StackInv
  <1> QED
    BY <1>2, <1>3, <1>5 DEF IInv

(* The innermost frame is one of the stack, and what its variables refer to *)
(* is what the error label gives up.                                        *)
LEMMA TopOwns ==
    ASSUME IInv, stack # <<>>
    PROVE  FrameOK(Top) /\ Abandons(Top, Null) = Top.owns
  <1>1. Len(stack) \in 1..Len(stack)
    BY Popped DEF IInv, StackInv
  <1>2. FrameOK(Top)
    BY <1>1 DEF IInv, StackInv, Top
  <1> QED
    BY <1>2 DEF FrameOK, Abandons

(* Decoder_Error at any character but the terminator or at it. *)
LEMMA RefusalStep ==
    ASSUME IInv, stack # <<>>, pc \in {"key", "got"}, call' = call, pos' = pos,
           swallowed' \in BOOLEAN,
           NEW f, NEW released, Leave(f, released), f.owns = released,
           NEW c, NEW e, NEW i \in 1..End, NEW g \in Reports(e, Unexpected(c), i),
           Return(Null, g)
    PROVE  IInv'
  <1>1. Unexpected(c) \in {"end", "character", "junk", "string"} /\ i \in Nat
    BY LenProperties DEF Unexpected, IInv, TypeOK, Call, End, Text
  <1>2. g \in Exceptions /\ g # NoExc
    BY <1>1, ReportIsError
  <1>3. End' = End /\ pos' \in 1..End'
    BY DEF End, Text, IInv, TypeOK
  <1> QED
    BY <1>2, <1>3, LeaveStep

LEMMA KeyInv == IInv /\ ReadKey => IInv'
  <1> SUFFICES ASSUME IInv, ReadKey PROVE IInv'
    OBVIOUS
  <1>1. /\ pc = "key" /\ call' = call /\ End' = End
        /\ stack # <<>> /\ Top.kind = "dict" /\ Top.key = Null
    BY DEF ReadKey, End, Text, IInv, TopInv
  <1>2. call \in Call /\ pos \in 1..End /\ swallowed \in BOOLEAN /\ exc \in Exceptions
    BY DEF IInv, TypeOK
  <1>3. FrameOK(Top) /\ Abandons(Top, Null) = Top.owns
    BY <1>1, TopOwns
  <1>4. CASE /\ \E e \in Reports(exc, Unexpected(pos), pos) : Return(Null, e)
             /\ Leave(Top, Abandons(Top, Null))
             /\ UNCHANGED <<pos, swallowed>>
    BY <1>1, <1>2, <1>3, <1>4, RefusalStep
  <1>5. ASSUME At(pos) \in Strings \cup BadStr, NEW o \in ReadString(pos),
               swallowed' = (swallowed \/ o.hidden)
        PROVE  LET f == [Top EXCEPT !.key = o.ret, !.owns = Top.owns \cup {"key"}]
                   j == Eat(pos + 1)
               IN  \/ /\ o.ret = Null
                      /\ Return(Null, o.exc)
                      /\ Leave(Top, Abandons(Top, Null))
                      /\ UNCHANGED pos
                   \/ /\ o.ret # Null
                      /\ At(j) = ":"
                      /\ GoOn(f, "value", j + 1)
                      /\ exc' = o.exc
                      /\ UNCHANGED ret
                   \/ /\ o.ret # Null
                      /\ At(j) # ":"
                      /\ \E e \in Reports(o.exc, Unexpected(j), NoColon(j)) : Return(Null, e)
                      /\ Leave(f, Abandons(f, Null))
                      /\ UNCHANGED pos
                   => IInv'
    <2> DEFINE f == [Top EXCEPT !.key = o.ret, !.owns = Top.owns \cup {"key"}]
               j == Eat(pos + 1)
    <2>1. OutcomeOK(o) /\ At(pos) # "nul"
      BY <1>2, <1>5, StringOutcome
    <2>2. pos + 1 \in 1..End
      BY <1>2, <2>1, CursorMoves
    <2>3. j \in 1..End
      BY <1>2, <2>2, EatStops
    <2>4. swallowed' \in BOOLEAN /\ (swallowed => swallowed')
      BY <1>2, <1>5, <2>1 DEF OutcomeOK
    <2>5. /\ f.kind = "dict" /\ f.key = o.ret /\ f.owns = Top.owns \cup {"key"}
          /\ DOMAIN f = {"kind", "built", "key", "owns"}
      BY <1>1, <1>3 DEF FrameOK
    <2>6. o.ret # Null => /\ FrameOK(f) /\ Waits(f) /\ Abandons(f, Null) = f.owns
      <3> HIDE DEF f
      <3> QED
        BY <1>1, <1>3, <2>5 DEF FrameOK, Waits, Abandons
    <2>7. CASE /\ o.ret = Null
               /\ Return(Null, o.exc)
               /\ Leave(Top, Abandons(Top, Null))
               /\ UNCHANGED pos
      <3>1. o.exc \in Exceptions /\ o.exc # NoExc
        BY <2>1, <2>7 DEF OutcomeOK
      <3>2. Top.owns = Abandons(Top, Null) /\ pos' \in 1..End'
        BY <1>1, <1>2, <1>3, <2>7
      <3> QED
        BY <1>1, <2>4, <2>7, <3>1, <3>2, LeaveStep
    <2>8. CASE /\ o.ret # Null
               /\ At(j) = ":"
               /\ GoOn(f, "value", j + 1)
               /\ exc' = o.exc
      <3>1. j + 1 \in 1..End
        <4> HIDE DEF j, f
        <4> QED
          BY <1>2, <2>3, <2>8, CursorMoves
      <3>2. exc' \in Exceptions /\ (exc' # NoExc => BadArgument' \/ swallowed')
        <4>1. exc' \in Exceptions /\ exc' \in {exc, NoExc}
          BY <2>1, <2>8 DEF OutcomeOK
        <4> QED
          BY <1>1, <2>4, <4>1, ExcuseStays
      <3> HIDE DEF f, j
      <3> QED
        BY <1>1, <2>4, <2>6, <2>8, <3>1, <3>2, GoOnStep
    <2>9. CASE /\ o.ret # Null
               /\ \E e \in Reports(o.exc, Unexpected(j), NoColon(j)) : Return(Null, e)
               /\ Leave(f, Abandons(f, Null))
               /\ UNCHANGED pos
      <3> HIDE DEF f, j
      <3>1. PICK e \in Reports(o.exc, Unexpected(j), j) : Return(Null, e)
        BY <2>9 DEF NoColon
      <3> QED
        BY <1>1, <2>3, <2>4, <2>6, <2>9, <3>1, RefusalStep
    <2> QED
      BY <2>7, <2>8, <2>9
  <1> QED
    BY <1>4, <1>5 DEF ReadKey

LEMMA ChildFailedInv == IInv /\ ChildFailed => IInv'
  <1> SUFFICES ASSUME IInv, ChildFailed PROVE IInv'
    OBVIOUS
  <1>1. /\ pc = "got" /\ ret = Null /\ stack # <<>>
        /\ Return(Null, exc) /\ Leave(Top, Abandons(Top, Null))
        /\ UNCHANGED <<call, pos, swallowed>>
    BY DEF ChildFailed
  <1>2. Abandons(Top, Null) = Top.owns
    BY <1>1, TopOwns
  <1>3. /\ exc # NoExc /\ exc \in Exceptions
        /\ pos' \in 1..End /\ swallowed' \in BOOLEAN
    BY <1>1 DEF IInv, TypeOK, ErrorInv, End, Text
  <1> QED
    BY <1>1, <1>2, <1>3, LeaveStep

LEMMA FinishInv == IInv /\ Finish => IInv'
  <1> SUFFICES ASSUME IInv, Finish PROVE IInv'
    OBVIOUS
  <1> DEFINE j == Eat(pos)
  <1>1. /\ pc = "got" /\ stack = <<>> /\ pc' = "done"
        /\ UNCHANGED <<call, pos, stack, swallowed, unbalanced>>
        /\ End' = End /\ BadArgument' = BadArgument
        /\ \/ UNCHANGED <<ret, exc>>
           \/ ret' = Null /\ exc' \in Reports(exc, "junk", j)
    BY DEF Finish, End, Text, BadArgument
  <1>2. j \in Nat
    <2>1. j \in 1..End
      BY EatStops DEF IInv, TypeOK
    <2>2. End \in Nat
      BY LenProperties DEF IInv, TypeOK, Call, End, Text
    <2> HIDE DEF j
    <2> QED
      BY <2>1, <2>2
  <1>3. exc' \in Exceptions /\ ErrorInv'
    <2>1. CASE UNCHANGED <<ret, exc>>
      BY <1>1, <2>1 DEF IInv, TypeOK, ErrorInv
    <2>2. CASE ret' = Null /\ exc' \in Reports(exc, "junk", j)
      <3>1. exc' \in Exceptions /\ exc' # NoExc
        <4> HIDE DEF j
        <4> QED
          BY <1>2, <2>2, ReportIsError
      <3> QED
        BY <1>1, <2>2, <3>1 DEF ErrorInv
    <2> QED
      BY <1>1, <2>1, <2>2
  <1>4. StackInv' /\ TopInv'
    BY <1>1 DEF IInv, StackInv, TopInv
  <1>5. TypeOK'
    BY <1>1, <1>3 DEF IInv, TypeOK
  <1> QED
    BY <1>3, <1>4, <1>5 DEF IInv

LEMMA ItemInv == IInv /\ ItemDone => IInv'
  <1> SUFFICES ASSUME IInv, ItemDone PROVE IInv'
    OBVIOUS
  <1> DEFINE j == Eat(pos)
  <1>1. /\ pc = "got" /\ ret # Null /\ stack # <<>> /\ Top.kind = "list"
        /\ call' = call
    BY DEF ItemDone
  <1>2. call \in Call /\ pos \in 1..End /\ swallowed \in BOOLEAN /\ exc \in Exceptions
    BY DEF IInv, TypeOK
  <1>3. j \in 1..End
    BY <1>2, EatStops
  <1>4. FrameOK(Top) /\ Top.key = Null /\ Top.owns = {"container"}
    BY <1>1, TopOwns DEF FrameOK
  <1>5. PICK stored \in BOOLEAN :
           LET f == IF stored THEN ListFrame(Append(Top.built, ret)) ELSE Top
               e == IF stored THEN exc ELSE Failed
           IN  /\ swallowed' = (swallowed \/ ~stored)
               /\ \/ At(j) = "," /\ GoOn(f, "value", j + 1) /\ exc' = e /\ UNCHANGED ret
                  \/ /\ At(j) = "]"
                     /\ Leave(f, {"container"})
                     /\ Return(ListObj(f.built), e)
                     /\ pos' = j + 1
                  \/ /\ At(j) \notin {",", "]"}
                     /\ Leave(f, Abandons(f, Null))
                     /\ \E g \in Reports(e, Unexpected(j), j) : Return(Null, g)
                     /\ UNCHANGED pos
    BY DEF ItemDone
  <1> DEFINE f == IF stored THEN ListFrame(Append(Top.built, ret)) ELSE Top
             e == IF stored THEN exc ELSE Failed
  <1>6. /\ FrameOK(f) /\ Waits(f) /\ f.owns = {"container"}
        /\ Abandons(f, Null) = f.owns
    <2>1. CASE stored
      BY <2>1 DEF ListFrame, FrameOK, Waits, Abandons
    <2>2. CASE ~stored
      BY <1>1, <1>4, <2>2 DEF Waits, Abandons
    <2> QED
      BY <2>1, <2>2
  <1>7. /\ e \in Exceptions /\ swallowed' \in BOOLEAN
        /\ e # NoExc => BadArgument' \/ swallowed'
    <2>1. CASE stored
      <3>1. exc # NoExc => BadArgument' \/ swallowed'
        BY <1>1, <1>5, <2>1, ExcuseStays
      <3> QED
        BY <1>2, <1>5, <2>1, <3>1
    <2>2. CASE ~stored
      BY <1>2, <1>5, <2>2, Errors
    <2> QED
      BY <2>1, <2>2
  <1>8. CASE At(j) = "," /\ GoOn(f, "value", j + 1) /\ exc' = e
    <2> HIDE DEF j, f, e
    <2>1. j + 1 \in 1..End
      BY <1>2, <1>3, <1>8, CursorMoves
    <2> QED
      BY <1>1, <1>6, <1>7, <1>8, <2>1, GoOnStep
  <1>9. CASE /\ At(j) = "]"
             /\ Leave(f, {"container"})
             /\ Return(ListObj(f.built), e)
             /\ pos' = j + 1
    <2> HIDE DEF j, f, e
    <2>1. j + 1 \in 1..End
      BY <1>2, <1>3, <1>9, CursorMoves
    <2>2. ListObj(f.built) # Null
      BY ObjectsAreNotNull
    <2> QED
      BY <1>1, <1>6, <1>7, <1>9, <2>1, <2>2, LeaveStep
  <1>10. CASE /\ Leave(f, Abandons(f, Null))
              /\ \E g \in Reports(e, Unexpected(j), j) : Return(Null, g)
              /\ UNCHANGED pos
    <2> HIDE DEF j, f, e
    <2> QED
      BY <1>1, <1>3, <1>6, <1>7, <1>10, RefusalStep
  <1> QED
    BY <1>5, <1>8, <1>9, <1>10

LEMMA PairInv == IInv /\ PairDone => IInv'
  <1> SUFFICES ASSUME IInv, PairDone PROVE IInv'
    OBVIOUS
  <1> DEFINE j == Eat(pos)
             owner == [Top EXCEPT !.owns = Top.owns \cup {"value"}]
             f == PairStored([Top EXCEPT !.built = Stored(Top.built, Top.key, ret)])
  <1>1. /\ pc = "got" /\ ret # Null /\ stack # <<>> /\ Top.kind = "dict"
        /\ UNCHANGED <<call, swallowed>>
    BY DEF PairDone
  <1>2. call \in Call /\ pos \in 1..End /\ swallowed \in BOOLEAN /\ exc \in Exceptions
    BY DEF IInv, TypeOK
  <1>3. j \in 1..End
    BY <1>2, EatStops
  <1>4. FrameOK(Top) /\ Top.key # Null /\ Top.owns = {"container", "key"}
    BY <1>1, TopOwns DEF FrameOK, IInv, TopInv, Waits
  <1>5. /\ FrameOK(f) /\ f.kind = "dict" /\ f.key = Null
        /\ f.owns = {"container"} /\ Abandons(f, Null) = f.owns
    BY DEF PairStored, DictFrame, FrameOK, Abandons
  <1>6. exc # NoExc => BadArgument' \/ swallowed'
    BY <1>1, ExcuseStays
  <1>7. swallowed' \in BOOLEAN
    BY <1>1, <1>2
  <1>8. CASE /\ Return(Null, Failed)
             /\ Leave(owner, Abandons(owner, ret))
             /\ UNCHANGED pos
    <2>1. owner.owns = {"container", "key", "value"} /\ owner.key = Top.key
      BY <1>4 DEF FrameOK
    <2>2. Abandons(owner, ret) = owner.owns
      <3> HIDE DEF owner
      <3> QED
        BY <1>1, <1>4, <2>1 DEF Abandons
    <2> HIDE DEF owner
    <2> QED
      BY <1>1, <1>2, <1>7, <1>8, <2>2, Errors, LeaveStep
  <1>9. CASE At(j) = "," /\ GoOn(f, "key", Eat(j + 1)) /\ UNCHANGED <<ret, exc>>
    <2> HIDE DEF j, f
    <2>1. j + 1 \in 1..End
      BY <1>2, <1>3, <1>9, CursorMoves
    <2>2. Eat(j + 1) \in 1..End
      BY <1>2, <2>1, EatStops
    <2> QED
      BY <1>1, <1>2, <1>5, <1>6, <1>7, <1>9, <2>2, GoOnStep
  <1>10. CASE At(j) = "}" /\ CloseDict(f) /\ pos' = j + 1
    <2> HIDE DEF j, f
    <2>1. j + 1 \in 1..End
      BY <1>2, <1>3, <1>10, CursorMoves
    <2>2. DictObj(f.built) # Null /\ HookedObj(DictObj(f.built)) # Null
      BY ObjectsAreNotNull
    <2>3. CASE Return(DictObj(f.built), exc)
      BY <1>1, <1>2, <1>5, <1>6, <1>7, <1>10, <2>1, <2>2, <2>3, LeaveStep DEF CloseDict
    <2>4. CASE \E o \in CallsHook(call.objectHook, HookedObj(DictObj(f.built))) :
                  Return(o.ret, o.exc)
      <3>1. PICK o \in CallsHook(call.objectHook, HookedObj(DictObj(f.built))) :
               Return(o.ret, o.exc)
        BY <2>4
      <3>2. OutcomeOK(o)
        BY <1>2, <2>2, HookOutcome
      <3>3. o.exc \in Exceptions /\ (o.ret = Null => o.exc # NoExc)
        BY <3>2 DEF OutcomeOK
      <3>4. o.ret # Null /\ o.exc # NoExc => BadArgument' \/ swallowed'
        BY <1>6, <3>2 DEF OutcomeOK
      <3>5. Leave(f, {"container"})
        BY <1>10 DEF CloseDict
      <3> QED
        BY <1>1, <1>2, <1>5, <1>7, <1>10, <2>1, <3>1, <3>3, <3>4, <3>5, LeaveStep
    <2> QED
      BY <1>10, <2>3, <2>4 DEF CloseDict
  <1>11. CASE /\ Leave(f, Abandons(f, Null))
              /\ \E e \in Reports(exc, Unexpected(j), j) : Return(Null, e)
              /\ UNCHANGED pos
    <2> HIDE DEF j, f
    <2> QED
      BY <1>1, <1>2, <1>3, <1>5, <1>7, <1>11, RefusalStep
  <1> QED
    BY <1>8, <1>9, <1>10, <1>11 DEF PairDone

-----------------------------------------------------------------------------
(* The decoder. *)

LEMMA InitInv == Init => IInv
  <1> SUFFICES ASSUME Init PROVE IInv
    OBVIOUS
  <1>1. call \in Call /\ Len(Text) \in Nat
    BY TokenAssumption, LenProperties DEF Init, Call, Text
  <1>2. stack = <<>> /\ Len(stack) = 0 /\ IsSequence(stack)
    BY EmptySeq DEF Init, IsSequence
  <1>3. TypeOK
    <2>1. pos \in 1..End
      BY <1>1 DEF Init, End
    <2>2. exc \in Exceptions
      BY Errors DEF Init
    <2>3. pc = "loads" /\ swallowed \in BOOLEAN
      BY DEF Init
    <2> QED
      BY <1>1, <1>2, <2>1, <2>2, <2>3 DEF TypeOK
  <1>4. StackInv /\ TopInv /\ ErrorInv
    BY <1>2 DEF Init, StackInv, TopInv, ErrorInv
  <1> QED
    BY <1>3, <1>4 DEF IInv

LEMMA NextInv == IInv /\ [Next]_vars => IInv'
  <1> SUFFICES ASSUME IInv, [Next]_vars PROVE IInv'
    OBVIOUS
  <1>1. CASE UNCHANGED vars
    <2>1. End' = End /\ Top' = Top /\ BadArgument' = BadArgument
      BY <1>1 DEF vars, End, Text, Top, BadArgument
    <2> QED
      BY <1>1, <2>1 DEF vars, IInv, TypeOK, StackInv, TopInv, ErrorInv
  <1> QED
    BY <1>1, LoadsInv, ScalarInv, EnterEitherInv, KeyInv, ChildFailedInv,
       ItemInv, PairInv, FinishInv DEF Next

LEMMA Invariance == Spec => []IInv
  BY InitInv, NextInv, PTL DEF Spec

(* The cursor of the decoder stays within the text and its terminator, and  *)
(* every ReadList and ReadDict that waits owns what its variables refer to. *)
THEOREM TypeCorrect == Spec => []TypeOK
  BY Invariance, PTL DEF IInv

(* ReadList and ReadDict release each reference they own once, whichever    *)
(* way they leave, and all of them have left when loads returns.            *)
THEOREM ReleasedOnce == Spec => []RefsBalanced
  <1>1. IInv => RefsBalanced
    BY DEF IInv, StackInv, TopInv, RefsBalanced
  <1> QED
    BY <1>1, Invariance, PTL

(* loads returns NULL with an exception, and an object without one but for  *)
(* the two ways in which decoding goes on after a failure.                  *)
THEOREM NullContract == Spec => []NullMeansError
  <1>1. IInv => NullMeansError
    BY DEF IInv, ErrorInv, NullMeansError
  <1> QED
    BY <1>1, Invariance, PTL


-----------------------------------------------------------------------------
(* The inductive invariant.  While nothing has failed, all tokens before    *)
(* the cursor are in their places, the frames on the stack are the brackets *)
(* that are open, from the outermost to the innermost, and the token before *)
(* the cursor is one that the next step can follow.                         *)

InOrder(s, i) == \A j \in 1..(i - 1) : s[j] \in Expected(s, j)

Mark(f) == IF f.kind = "list" THEN "[" ELSE "{"

Nested(s, frames, i) ==
    /\ Depth(s, i) = Len(frames)
    /\ LastOpen(s, i, -1) = "none"
    /\ \A k \in 1..Len(frames) : LastOpen(s, i, k - 1) = Mark(frames[k])

(* What the value that is read next stands behind. *)
BeforeValue(prev) ==
    IF stack # <<>> /\ Top.kind = "list" THEN prev \in {"[", ","} ELSE prev = ":"

Turn ==
    LET prev == Previous(Text, pos)
    IN  /\ pc = "loads" => pos = 1
        /\ pc = "value" =>
              /\ BeforeValue(prev)
              /\ prev = "[" => At(pos) \notin {"]", "ws"}
        /\ pc = "key" =>
              /\ prev \in {"{", ","}
              /\ At(pos) # "ws"
              /\ prev = "{" => At(pos) # "}"
        /\ pc = "got" => prev \in Scalar \cup Close /\ ~BehindKey(Text, pos)

Going == pc \in {"loads", "value", "key"} \/ (pc = "got" /\ ret # Null)

OrderInv ==
    /\ Going => exc.type # "DecodeError" /\ InOrder(Text, pos) /\ Nested(Text, stack, pos) /\ Turn
    /\ ErrorInPlace
    /\ AcceptsInOrder

-----------------------------------------------------------------------------
(* The order of tokens: what one more token changes. *)

LEMMA BracketsAreFinite ==
    ASSUME NEW s \in Seq(Token), NEW i \in 1..(Len(s) + 1)
    PROVE  /\ IsFiniteSet({j \in 1..(i - 1) : s[j] \in Open})
           /\ IsFiniteSet({j \in 1..(i - 1) : s[j] \in Close})
           /\ Cardinality({j \in 1..(i - 1) : s[j] \in Open}) \in Nat
           /\ Cardinality({j \in 1..(i - 1) : s[j] \in Close}) \in Nat
  <1>1. IsFiniteSet(1..(i - 1))
    BY LenProperties, FS_Interval
  <1> QED
    BY <1>1, FS_Subset, FS_CardinalityType

LEMMA MaxIsLast ==
    ASSUME NEW S \in SUBSET Nat, NEW n \in S, \A m \in S : m <= n
    PROVE  Max(S) = n
  <1>1. \A y \in S : n >= y
    OBVIOUS
  <1>2. \A x \in S : (\A y \in S : x >= y) => x = n
    OBVIOUS
  <1> QED
    BY <1>1, <1>2, Zenon DEF Max

(* White space changes nothing. *)
LEMMA Blanks ==
    ASSUME NEW s \in Seq(Token), NEW i \in 1..(Len(s) + 1), NEW j \in i..(Len(s) + 1),
           \A k \in i..(j - 1) : s[k] = "ws"
    PROVE  /\ Depth(s, j) = Depth(s, i)
           /\ Before(s, j) = Before(s, i)
           /\ Previous(s, j) = Previous(s, i)
           /\ \A d : LastOpen(s, j, d) = LastOpen(s, i, d)
           /\ Bracket(s, j) = Bracket(s, i)
           /\ BehindKey(s, j) <=> BehindKey(s, i)
  <1>1. Len(s) \in Nat
    BY LenProperties
  <1>2. \A k \in 1..(j - 1) : k \in 1..(i - 1) \/ s[k] = "ws"
    BY <1>1
  <1>3. 1..(i - 1) \subseteq 1..(j - 1)
    BY <1>1
  <1>4. "ws" \notin Open \cup Close
    BY DEF Open, Close
  <1>5. /\ {k \in 1..(j - 1) : s[k] \in Open} = {k \in 1..(i - 1) : s[k] \in Open}
        /\ {k \in 1..(j - 1) : s[k] \in Close} = {k \in 1..(i - 1) : s[k] \in Close}
        /\ {k \in 1..(j - 1) : s[k] # "ws"} = {k \in 1..(i - 1) : s[k] # "ws"}
    BY <1>2, <1>3, <1>4
  <1>6. Depth(s, j) = Depth(s, i)
    BY <1>5 DEF Depth
  <1>7. Before(s, j) = Before(s, i)
    BY <1>5 DEF Before
  <1>8. Previous(s, j) = Previous(s, i)
    BY <1>7 DEF Previous
  <1>9. ASSUME NEW d PROVE LastOpen(s, j, d) = LastOpen(s, i, d)
    <2>1. {k \in 1..(j - 1) : s[k] \in Open /\ Depth(s, k) = d}
             = {k \in 1..(i - 1) : s[k] \in Open /\ Depth(s, k) = d}
      BY <1>2, <1>3, <1>4
    <2> QED
      BY <2>1 DEF LastOpen
  <1>10. Bracket(s, j) = Bracket(s, i)
    BY <1>6, <1>9 DEF Bracket
  <1> QED
    BY <1>6, <1>7, <1>8, <1>9, <1>10 DEF BehindKey

(* Any other token is the one before the next. *)
LEMMA TokenBefore ==
    ASSUME NEW s \in Seq(Token), NEW i \in 1..Len(s), s[i] # "ws"
    PROVE  Max(Before(s, i + 1)) = i /\ Previous(s, i + 1) = s[i]
  <1>1. Len(s) \in Nat
    BY LenProperties
  <1>2. /\ Before(s, i + 1) \in SUBSET Nat
        /\ i \in Before(s, i + 1)
        /\ \A m \in Before(s, i + 1) : m <= i
    BY <1>1 DEF Before
  <1>3. Max(Before(s, i + 1)) = i
    BY <1>2, MaxIsLast
  <1> QED
    BY <1>2, <1>3 DEF Previous

(* Only brackets change the depth. *)
LEMMA DepthAfter ==
    ASSUME NEW s \in Seq(Token), NEW i \in 1..Len(s)
    PROVE  /\ Depth(s, i) \in Int
           /\ s[i] \in Open => Depth(s, i + 1) = Depth(s, i) + 1
           /\ s[i] \in Close => Depth(s, i + 1) = Depth(s, i) - 1
           /\ s[i] \notin Open \cup Close => Depth(s, i + 1) = Depth(s, i)
  <1> DEFINE O == {j \in 1..(i - 1) : s[j] \in Open}
             C == {j \in 1..(i - 1) : s[j] \in Close}
             P == {j \in 1..((i + 1) - 1) : s[j] \in Open}
             D == {j \in 1..((i + 1) - 1) : s[j] \in Close}
  <1>1. Len(s) \in Nat
    BY LenProperties
  <1>2. /\ IsFiniteSet(O) /\ IsFiniteSet(C)
        /\ Cardinality(O) \in Nat /\ Cardinality(C) \in Nat
    <2>1. i \in 1..(Len(s) + 1)
      BY <1>1
    <2> QED
      BY <2>1, BracketsAreFinite, Zenon
  <1>3. 1..((i + 1) - 1) = 1..(i - 1) \cup {i}
    BY <1>1
  <1>4. i \notin O /\ i \notin C
    BY <1>1
  <1>5. /\ P = IF s[i] \in Open THEN O \cup {i} ELSE O
        /\ D = IF s[i] \in Close THEN C \cup {i} ELSE C
    BY <1>3
  <1>6. Open \cap Close = {}
    BY DEF Open, Close
  <1>7. Depth(s, i) = Cardinality(O) - Cardinality(C)
    BY DEF Depth
  <1>8. Depth(s, i + 1) = Cardinality(P) - Cardinality(D)
    BY DEF Depth
  <1> HIDE DEF O, C, P, D
  <1>9. /\ Cardinality(O \cup {i}) = Cardinality(O) + 1
        /\ Cardinality(C \cup {i}) = Cardinality(C) + 1
    BY <1>2, <1>4, FS_AddElement
  <1> QED
    BY <1>2, <1>5, <1>6, <1>7, <1>8, <1>9

(* An opening bracket is the last at its depth, and leaves the others.      *)
LEMMA LastOpenAfter ==
    ASSUME NEW s \in Seq(Token), NEW i \in 1..Len(s), NEW d
    PROVE  LastOpen(s, i + 1, d) =
              IF s[i] \in Open /\ Depth(s, i) = d THEN s[i] ELSE LastOpen(s, i, d)
  <1> DEFINE A == {j \in 1..(i - 1) : s[j] \in Open /\ Depth(s, j) = d}
             B == {j \in 1..((i + 1) - 1) : s[j] \in Open /\ Depth(s, j) = d}
  <1>1. Len(s) \in Nat
    BY LenProperties
  <1>2. 1..((i + 1) - 1) = 1..(i - 1) \cup {i}
    BY <1>1
  <1>3. B = IF s[i] \in Open /\ Depth(s, i) = d THEN A \cup {i} ELSE A
    BY <1>2
  <1>4. B \in SUBSET Nat /\ \A m \in B : m <= i
    BY <1>1
  <1>5. /\ LastOpen(s, i, d) = IF A = {} THEN "none" ELSE s[Max(A)]
        /\ LastOpen(s, i + 1, d) = IF B = {} THEN "none" ELSE s[Max(B)]
    BY DEF LastOpen
  <1> HIDE DEF A, B
  <1>6. CASE s[i] \in Open /\ Depth(s, i) = d
    <2>1. i \in B
      BY <1>3, <1>6
    <2>2. Max(B) = i
      BY <1>4, <2>1, MaxIsLast
    <2> QED
      BY <1>5, <1>6, <2>1, <2>2
  <1>7. CASE ~(s[i] \in Open /\ Depth(s, i) = d)
    BY <1>3, <1>5, <1>7
  <1> QED
    BY <1>6, <1>7

(* The first wrong token is the one behind which none is known to be wrong. *)
LEMMA WrongHere ==
    ASSUME NEW s \in Seq(Token), NEW i \in 1..(Len(s) + 1),
           \A j \in 1..(i - 1) : s[j] \in Expected(s, j),
           i # Len(s) + 1 => s[i] \notin Expected(s, i)
    PROVE  FirstWrong(s) = i
  <1> DEFINE W == {j \in 1..Len(s) : s[j] \notin Expected(s, j)} \cup {Len(s) + 1}
  <1>1. Len(s) \in Nat
    BY LenProperties
  <1>2. W \in SUBSET Nat /\ i \in W
    BY <1>1
  <1>3. \A j \in W : i <= j
    BY <1>1
  <1>4. FirstWrong(s) = Min(W)
    BY DEF FirstWrong
  <1> HIDE DEF W
  <1>5. \A x \in W : (\A y \in W : x =< y) => x = i
    BY <1>2, <1>3
  <1> QED
    BY <1>2, <1>3, <1>4, <1>5, Zenon DEF Min

(* What may follow, by the token before. *)
LEMMA ExpectedIs ==
    ASSUME NEW s, NEW i
    PROVE  LET prev == Previous(s, i)
               bracket == Bracket(s, i)
           IN  /\ prev = ":" => Expected(s, i) = {"ws"} \cup BeginsValue
               /\ prev = "[" => Expected(s, i) = {"ws"} \cup (BeginsValue \cup {"]"})
               /\ prev = "{" => Expected(s, i) = {"ws"} \cup (Strings \cup {"}"})
               /\ prev = "," =>
                     Expected(s, i) =
                        {"ws"} \cup (IF bracket = "{" THEN Strings ELSE BeginsValue)
               /\ BehindKey(s, i) => Expected(s, i) = {"ws"} \cup {":"}
               /\ prev \in Scalar \cup Close /\ ~BehindKey(s, i) =>
                     Expected(s, i) =
                        {"ws"} \cup (IF bracket = "[" THEN {",", "]"}
                                    ELSE IF bracket = "{" THEN {",", "}"} ELSE {})
  <1> DEFINE prev == Previous(s, i)
  <1>1. \A t \in Scalar : t \notin {":", "[", "{", ","}
    BY TokenAssumption DEF Punctuation, Open
  <1>2. BehindKey(s, i) => prev \in Scalar
    BY DEF BehindKey, Scalar
  <1>3. prev \in Close => prev \notin {":", "[", "{", ","}
    BY DEF Close
  <1> HIDE DEF prev
  <1>4. CASE prev = ":"
    BY <1>1, <1>2, <1>3, <1>4 DEF Expected, prev
  <1>5. CASE prev = "["
    BY <1>1, <1>2, <1>3, <1>5 DEF Expected, prev
  <1>6. CASE prev = "{"
    BY <1>1, <1>2, <1>3, <1>6 DEF Expected, prev
  <1>7. CASE prev = ","
    BY <1>1, <1>2, <1>3, <1>7 DEF Expected, prev
  <1>8. CASE prev \notin {":", "[", "{", ","}
    BY <1>1, <1>2, <1>8 DEF Expected, prev
  <1> QED
    BY <1>4, <1>5, <1>6, <1>7, <1>8

(* The frames and the brackets. *)
LEMMA NestedSame ==
    ASSUME NEW s, NEW frames, NEW i, Nested(s, frames, i),
           NEW others, Len(others) = Len(frames),
           \A k \in 1..Len(frames) : others[k].kind = frames[k].kind
    PROVE  Nested(s, others, i)
  BY DEF Nested, Mark

LEMMA NestedAfter ==
    ASSUME NEW s \in Seq(Token), NEW frames, IsSequence(frames),
           NEW i \in 1..Len(s), Nested(s, frames, i)
    PROVE  /\ s[i] \notin Open \cup Close => Nested(s, frames, i + 1)
           /\ \A f : s[i] \in Open /\ Mark(f) = s[i] => Nested(s, Append(frames, f), i + 1)
           /\ s[i] \in Close /\ frames # <<>> =>
                 Nested(s, SubSeq(frames, 1, Len(frames) - 1), i + 1)
  <1>1. Len(frames) \in Nat /\ Depth(s, i) = Len(frames)
    BY Pushed DEF Nested
  <1>2. \A d : LastOpen(s, i + 1, d) =
                  IF s[i] \in Open /\ Depth(s, i) = d THEN s[i] ELSE LastOpen(s, i, d)
    BY LastOpenAfter
  <1>3. LastOpen(s, i + 1, -1) = "none"
    BY <1>1, <1>2 DEF Nested
  <1>4. \A k \in 1..Len(frames) : LastOpen(s, i + 1, k - 1) = Mark(frames[k])
    BY <1>1, <1>2 DEF Nested
  <1>5. ASSUME s[i] \notin Open \cup Close PROVE Nested(s, frames, i + 1)
    BY <1>1, <1>3, <1>4, <1>5, DepthAfter DEF Nested
  <1>6. ASSUME NEW f, s[i] \in Open, Mark(f) = s[i]
        PROVE  Nested(s, Append(frames, f), i + 1)
    <2> DEFINE t == Append(frames, f)
    <2>1. /\ Len(t) = Len(frames) + 1
          /\ \A k \in 1..Len(frames) : t[k] = frames[k]
          /\ t[Len(frames) + 1] = f
      BY Pushed
    <2>2. Depth(s, i + 1) = Len(t)
      BY <1>1, <1>6, <2>1, DepthAfter
    <2>3. LastOpen(s, i + 1, Len(frames)) = Mark(f)
      BY <1>1, <1>2, <1>6
    <2> HIDE DEF t
    <2>4. ASSUME NEW k \in 1..Len(t) PROVE LastOpen(s, i + 1, k - 1) = Mark(t[k])
      <3>1. CASE k = Len(frames) + 1
        BY <1>1, <2>1, <2>3, <3>1
      <3>2. CASE k # Len(frames) + 1
        <4>1. k \in 1..Len(frames)
          BY <1>1, <2>1, <3>2
        <4> QED
          BY <1>4, <2>1, <4>1
      <3> QED
        BY <3>1, <3>2
    <2>5. Nested(s, t, i + 1)
      BY <1>3, <2>2, <2>4 DEF Nested
    <2> QED
      BY <2>5 DEF t
  <1>7. ASSUME s[i] \in Close, frames # <<>>
        PROVE  Nested(s, SubSeq(frames, 1, Len(frames) - 1), i + 1)
    <2> DEFINE t == SubSeq(frames, 1, Len(frames) - 1)
    <2>1. /\ Len(t) = Len(frames) - 1
          /\ \A k \in 1..(Len(frames) - 1) : t[k] = frames[k]
      BY <1>7, Popped
    <2>2. Depth(s, i + 1) = Len(t)
      BY <1>1, <1>7, <2>1, DepthAfter
    <2> HIDE DEF t
    <2>3. \A k \in 1..Len(t) : LastOpen(s, i + 1, k - 1) = Mark(t[k])
      BY <1>1, <1>4, <2>1
    <2>4. Nested(s, t, i + 1)
      BY <1>3, <2>2, <2>3 DEF Nested
    <2> QED
      BY <2>4 DEF t
  <1> QED
    BY <1>5, <1>6, <1>7

(* The innermost frame is the innermost bracket. *)
LEMMA BracketIsTop ==
    ASSUME IInv, NEW i, Nested(Text, stack, i)
    PROVE  Bracket(Text, i) = IF stack = <<>> THEN "none" ELSE Mark(Top)
  <1>1. CASE stack = <<>>
    <2>1. Len(stack) = 0
      BY <1>1, EmptySeq
    <2>2. Depth(Text, i) - 1 = -1
      BY <2>1 DEF Nested
    <2> QED
      BY <1>1, <2>2 DEF Bracket, Nested
  <1>2. CASE stack # <<>>
    <2>1. Len(stack) \in 1..Len(stack)
      BY <1>2, Popped DEF IInv, StackInv
    <2>2. LastOpen(Text, i, Len(stack) - 1) = Mark(stack[Len(stack)])
      BY <2>1 DEF Nested
    <2> QED
      BY <1>2, <2>2 DEF Bracket, Nested, Top
  <1> QED
    BY <1>1, <1>2

-----------------------------------------------------------------------------
(* The cursor. *)

LEMMA TheText ==
    ASSUME call \in Call
    PROVE  /\ Text \in Seq(Token) /\ Len(Text) \in Nat /\ End = Len(Text) + 1
           /\ At(End) = "nul"
           /\ \A i \in 1..End : i # End => i \in 1..Len(Text) /\ At(i) = Text[i]
  BY LenProperties DEF Call, Text, End, At

(* Eat comes to the first token that is no white space. *)
LEMMA EatSkips ==
    ASSUME call \in Call, NEW i \in 1..End
    PROVE  /\ Eat(i) \in i..End
           /\ At(Eat(i)) # "ws"
           /\ \A k \in i..(Eat(i) - 1) : At(k) = "ws"
  <1> DEFINE S == {j \in i..End : At(j) # "ws"}
  <1>1. End \in Nat
    BY TheText
  <1>2. S \in SUBSET Nat /\ End \in S
    BY <1>1, TheText
  <1>3. PICK n \in S : \A m \in S : n <= m
    BY <1>2, LeastNumber
  <1>4. \A k \in i..(n - 1) : At(k) = "ws"
    BY <1>1, <1>2, <1>3
  <1> QED
    BY <1>1, <1>3, <1>4 DEF Eat

LEMMA EatStays ==
    ASSUME call \in Call, NEW i \in 1..End, At(i) # "ws"
    PROVE  Eat(i) = i
  <1> DEFINE j == Eat(i)
  <1>1. End \in Nat
    BY TheText
  <1>2. j \in i..End /\ \A k \in i..(j - 1) : At(k) = "ws"
    BY EatSkips
  <1> HIDE DEF j
  <1>3. j = i
    BY <1>1, <1>2
  <1> QED
    BY <1>3 DEF j

(* Skipping white space is no step in the order of the tokens. *)
LEMMA Skipped ==
    ASSUME call \in Call, NEW i \in 1..End, NEW frames,
           InOrder(Text, i), Nested(Text, frames, i)
    PROVE  LET j == Eat(i)
           IN  /\ j \in 1..End /\ At(j) # "ws"
               /\ InOrder(Text, j) /\ Nested(Text, frames, j)
               /\ Previous(Text, j) = Previous(Text, i)
               /\ Bracket(Text, j) = Bracket(Text, i)
               /\ BehindKey(Text, j) <=> BehindKey(Text, i)
  <1> DEFINE j == Eat(i)
  <1>1. /\ Text \in Seq(Token) /\ Len(Text) \in Nat /\ End = Len(Text) + 1
        /\ \A k \in 1..End : k # End => k \in 1..Len(Text) /\ At(k) = Text[k]
    BY TheText
  <1>2. j \in i..End /\ At(j) # "ws" /\ \A k \in i..(j - 1) : At(k) = "ws"
    BY EatSkips
  <1> HIDE DEF j
  <1>3. \A k \in i..(j - 1) : Text[k] = "ws"
    BY <1>1, <1>2
  <1>4. /\ Depth(Text, j) = Depth(Text, i)
        /\ Previous(Text, j) = Previous(Text, i)
        /\ \A d : LastOpen(Text, j, d) = LastOpen(Text, i, d)
        /\ Bracket(Text, j) = Bracket(Text, i)
        /\ BehindKey(Text, j) <=> BehindKey(Text, i)
    BY <1>1, <1>2, <1>3, Blanks
  <1>5. InOrder(Text, j)
    <2>1. \A k : "ws" \in Expected(Text, k)
      BY DEF Expected
    <2> QED
      BY <1>1, <1>2, <1>3, <2>1 DEF InOrder
  <1>6. Nested(Text, frames, j)
    BY <1>4 DEF Nested
  <1>7. j \in 1..End
    BY <1>1, <1>2
  <1> QED
    BY <1>2, <1>4, <1>5, <1>6, <1>7 DEF j

(* A token in its place is passed. *)
LEMMA Passed ==
    ASSUME call \in Call, NEW i \in 1..End, InOrder(Text, i),
           At(i) \in Expected(Text, i), At(i) \notin {"nul", "ws"}
    PROVE  /\ i \in 1..Len(Text) /\ At(i) = Text[i] /\ i + 1 \in 1..End
           /\ InOrder(Text, i + 1)
           /\ Previous(Text, i + 1) = At(i)
           /\ Max(Before(Text, i + 1)) = i
  <1>1. /\ Text \in Seq(Token) /\ Len(Text) \in Nat /\ End = Len(Text) + 1
        /\ At(End) = "nul"
        /\ \A k \in 1..End : k # End => k \in 1..Len(Text) /\ At(k) = Text[k]
    BY TheText
  <1>2. i \in 1..Len(Text) /\ At(i) = Text[i] /\ i + 1 \in 1..End
    BY <1>1
  <1>3. InOrder(Text, i + 1)
    BY <1>2 DEF InOrder
  <1>4. Max(Before(Text, i + 1)) = i /\ Previous(Text, i + 1) = Text[i]
    BY <1>1, <1>2, TokenBefore
  <1> QED
    BY <1>2, <1>3, <1>4

(* A value that has ended is not taken for a key. *)
LEMMA ValueIsNoKey ==
    ASSUME call \in Call, NEW i \in 1..End, InOrder(Text, i),
           At(i) \in Expected(Text, i), At(i) \notin {"nul", "ws"},
           Previous(Text, i) \notin {"{", ","} \/ Bracket(Text, i + 1) # "{" \/ At(i) \notin Strings
    PROVE  ~BehindKey(Text, i + 1)
  BY Passed DEF BehindKey

-----------------------------------------------------------------------------
(* The ways in which a step ends. *)

(* Something has failed, elsewhere or at i. *)
Blames(e, i) ==
    e.type = "DecodeError" =>
        /\ e.at = i
        /\ e.what = "end" => At(i) = "nul"
        /\ i = End => e.what = "end"
        /\ e.what # "junk"

LEMMA RefusedThere ==
    ASSUME call \in Call, call' = call, NEW i \in 1..End, InOrder(Text, i),
           NEW e, Blames(e, i), Return(Null, e),
           e.type = "DecodeError" /\ i # End => At(i) \notin Expected(Text, i)
    PROVE  OrderInv'
  <1>1. pc' = "got" /\ ret' = Null /\ exc' = e
    BY DEF Return
  <1>2. ~Going' /\ AcceptsInOrder'
    BY <1>1 DEF Going, AcceptsInOrder
  <1>3. /\ Text \in Seq(Token) /\ Len(Text) \in Nat /\ End = Len(Text) + 1
        /\ \A k \in 1..End : k # End => k \in 1..Len(Text) /\ At(k) = Text[k]
    BY TheText
  <1>4. e.type = "DecodeError" => FirstWrong(Text) = i
    BY <1>3, WrongHere DEF InOrder
  <1>5. Text' = Text /\ End' = End
    BY DEF Text, End
  <1>6. ErrorInPlace'
    BY <1>1, <1>4, <1>5 DEF ErrorInPlace, Blames, At
  <1> QED
    BY <1>2, <1>6 DEF OrderInv

LEMMA FailedElsewhere ==
    ASSUME NEW e, Return(Null, e), e.type # "DecodeError"
    PROVE  OrderInv'
  BY DEF Return, OrderInv, Going, ErrorInPlace, AcceptsInOrder

(* Nothing has failed. *)
LEMMA GoesOn ==
    ASSUME call' = call, NEW i, pos' = i, pc' # "done", exc'.type # "DecodeError",
           InOrder(Text, i), Nested(Text, stack', i), Turn'
    PROVE  OrderInv'
  <1>1. Text' = Text
    BY DEF Text
  <1>2. ErrorInPlace' /\ AcceptsInOrder'
    BY DEF ErrorInPlace, AcceptsInOrder
  <1> QED
    BY <1>1, <1>2 DEF OrderInv

LEMMA ValueEnds ==
    ASSUME call' = call, NEW i, pos' = i, pc' = "got", exc'.type # "DecodeError",
           InOrder(Text, i), Nested(Text, stack', i),
           Previous(Text, i) \in Scalar \cup Close, ~BehindKey(Text, i)
    PROVE  OrderInv'
  <1>1. Text' = Text
    BY DEF Text
  <1>2. Turn'
    BY <1>1 DEF Turn
  <1> QED
    BY <1>2, GoesOn

LEMMA ValueBegins ==
    ASSUME call' = call, NEW i, pos' = i, pc' = "value", exc'.type # "DecodeError",
           InOrder(Text, i), Nested(Text, stack', i), stack' # <<>>,
           IF Top'.kind = "list" THEN Previous(Text, i) \in {"[", ","}
           ELSE Previous(Text, i) = ":",
           Previous(Text, i) = "[" => At(i) \notin {"]", "ws"}
    PROVE  OrderInv'
  <1>1. Text' = Text /\ At(pos)' = At(i)
    BY DEF Text, At
  <1>2. BeforeValue(Previous(Text, i))'
    BY <1>1 DEF BeforeValue
  <1>3. Turn'
    BY <1>1, <1>2 DEF Turn
  <1> QED
    BY <1>3, GoesOn

LEMMA KeyBegins ==
    ASSUME call' = call, NEW i, pos' = i, pc' = "key", exc'.type # "DecodeError",
           InOrder(Text, i), Nested(Text, stack', i),
           Previous(Text, i) \in {"{", ","}, At(i) # "ws",
           Previous(Text, i) = "{" => At(i) # "}"
    PROVE  OrderInv'
  <1>1. Text' = Text /\ At(pos)' = At(i)
    BY DEF Text, At
  <1>2. Turn'
    BY <1>1 DEF Turn
  <1> QED
    BY <1>2, GoesOn

-----------------------------------------------------------------------------
(* What the functions return. *)

(* No text has anything but white space, a value or a punctuation mark.     *)
LEMMA ExpectedTokens ==
    ASSUME NEW s, NEW i
    PROVE  Expected(s, i) \subseteq {"ws"} \cup Scalar \cup Punctuation
  BY DEF Expected, BeginsValue, Scalar, Punctuation, Open, Close

LEMMA NeverExpected ==
    ASSUME NEW s, NEW i
    PROVE  /\ \A t \in BadStr : t \notin Expected(s, i)
           /\ "nul" \notin Expected(s, i) /\ "bad" \notin Expected(s, i)
  <1>1. Expected(s, i) \subseteq {"ws"} \cup Scalar \cup Punctuation
    BY ExpectedTokens
  <1>2. \A t \in BadStr : t \notin {"ws"} \cup Scalar \cup Punctuation
    BY TokenAssumption
  <1>3. "nul" \notin Scalar /\ "bad" \notin Scalar
    BY TokenAssumption DEF Stray
  <1>4. "nul" \notin Punctuation /\ "bad" \notin Punctuation
    BY DEF Punctuation, Open, Close
  <1> QED
    BY <1>1, <1>2, <1>3, <1>4

LEMMA ReportBlames ==
    ASSUME NEW e, NEW what, what # "junk", NEW i, NEW r \in Reports(e, what, i),
           what = "end" => At(i) = "nul",
           i = End => what = "end"
    PROVE  Blames(r, i)
  <1>1. CASE r = Failed
    BY <1>1 DEF Failed, Blames
  <1>2. CASE r = [type |-> "DecodeError", what |-> what, at |-> i]
    BY <1>2 DEF Blames
  <1> QED
    BY <1>1, <1>2 DEF Reports

LEMMA UnexpectedBlames ==
    ASSUME call \in Call, NEW e, NEW i, NEW r \in Reports(e, Unexpected(i), i)
    PROVE  Blames(r, i)
  <1>1. i = End => At(i) = "nul"
    BY TheText
  <1>2. /\ Unexpected(i) # "junk"
        /\ Unexpected(i) = "end" => At(i) = "nul"
        /\ i = End => Unexpected(i) = "end"
    BY <1>1 DEF Unexpected
  <1> QED
    BY <1>2, ReportBlames

(* A value comes without a JsonDecodeError; a NULL may bring one, that      *)
(* names the token the function has been called for.                        *)
OutcomeAt(o, i, accepted) ==
    /\ o.ret # Null => At(i) \in accepted /\ o.exc.type # "DecodeError"
    /\ o.ret = Null => Blames(o.exc, i)
    /\ o.exc.type = "DecodeError" => At(i) \notin accepted

LEMMA FailsAt ==
    ASSUME NEW e, NEW i, NEW accepted, Blames(e, i),
           e.type = "DecodeError" => At(i) \notin accepted
    PROVE  OutcomeAt(Fails(e), i, accepted)
  BY DEF Fails, Outcome, OutcomeAt

LEMMA GivesAt ==
    ASSUME NEW value, value # Null, NEW e, e.type # "DecodeError",
           NEW i, NEW accepted, At(i) \in accepted
    PROVE  OutcomeAt(Gives(value, e), i, accepted)
  BY DEF Gives, Outcome, OutcomeAt

LEMMA OtherErrors ==
    /\ Failed.type # "DecodeError" /\ TypeError.type # "DecodeError" /\ NoExc.type # "DecodeError"
    /\ \A i : Blames(Failed, i) /\ Blames(TypeError, i)
  BY DEF Failed, TypeError, NoExc, Blames

LEMMA HookAt ==
    ASSUME NEW hook, NEW value, value # Null, NEW i, NEW accepted, At(i) \in accepted,
           NEW o \in CallsHook(hook, value)
    PROVE  OutcomeAt(o, i, accepted)
  <1>1. \/ o = Fails(Failed)
        \/ o = Gives(value, NoExc)
        \/ o = Fails(TypeError)
    BY DEF CallsHook
  <1> QED
    BY <1>1, OtherErrors, FailsAt, GivesAt

LEMMA PlainStringAt ==
    ASSUME NEW e, e.type # "DecodeError", NEW t, NEW o \in ReadPlainString(t, e),
           NEW i, NEW accepted, At(i) \in accepted
    PROVE  OutcomeAt(o, i, accepted) /\ OutcomeAt([o EXCEPT !.hidden = TRUE], i, accepted)
  <1>1. \/ o = Gives(StrObj(t), e)
        \/ o = Fails(Failed)
        \/ o = Gives(StrObj(t), NoExc)
    BY DEF ReadPlainString
  <1>2. StrObj(t) # Null
    BY ObjectsAreNotNull
  <1>3. OutcomeAt(o, i, accepted)
    BY <1>1, <1>2, OtherErrors, FailsAt, GivesAt
  <1>4. DOMAIN o = {"ret", "exc", "hidden"}
    BY <1>1 DEF Gives, Fails, Outcome
  <1>5. /\ [o EXCEPT !.hidden = TRUE].exc = o.exc
        /\ [o EXCEPT !.hidden = TRUE].ret = o.ret
    BY <1>4
  <1> QED
    BY <1>3, <1>5 DEF OutcomeAt

LEMMA StringAt ==
    ASSUME call \in Call, exc.type # "DecodeError", NEW i \in 1..End,
           At(i) \in Strings \cup BadStr, NEW o \in ReadString(i)
    PROVE  OutcomeAt(o, i, Strings)
  <1>1. CASE At(i) \in BadStr
    <2>1. At(i) \notin Strings /\ At(i) \notin Date /\ At(i) \notin NotDate
      BY <1>1, TokenAssumption DEF Scalar, Strings
    <2>2. i # End
      BY <1>1, TheText, TokenAssumption DEF Stray
    <2>3. PICK e \in Reports(exc, "string", i) : o = Fails(e)
      BY <1>1, <2>1 DEF ReadString
    <2>4. Blames(e, i)
      BY <2>2, <2>3, ReportBlames
    <2> QED
      BY <2>1, <2>3, <2>4, FailsAt
  <1>2. CASE At(i) \notin BadStr
    <2>1. \/ o = Gives(DateObj(At(i)), exc)
          \/ \E p \in ReadPlainString(At(i), NoExc) :
                o = p \/ o = [p EXCEPT !.hidden = TRUE]
          \/ o \in ReadPlainString(At(i), exc)
      BY <1>2 DEF ReadString
    <2>2. At(i) \in Strings
      BY <1>2
    <2>3. OutcomeAt(Gives(DateObj(At(i)), exc), i, Strings)
      BY <2>2, ObjectsAreNotNull, GivesAt
    <2>4. ASSUME NEW p \in ReadPlainString(At(i), NoExc)
          PROVE  OutcomeAt(p, i, Strings) /\ OutcomeAt([p EXCEPT !.hidden = TRUE], i, Strings)
      BY <2>2, PlainStringAt, OtherErrors
    <2>5. ASSUME o \in ReadPlainString(At(i), exc) PROVE OutcomeAt(o, i, Strings)
      BY <2>2, <2>5, PlainStringAt
    <2> QED
      BY <2>1, <2>3, <2>4, <2>5, Zenon
  <1> QED
    BY <1>1, <1>2

LEMMA OtherAt ==
    ASSUME call \in Call, exc.type # "DecodeError", NEW i \in 1..End, NEW o \in ReadOther(i)
    PROVE  OutcomeAt(o, i, Plain \cup Float)
  <1>1. CASE At(i) \in Plain
    <2>1. At(i) \notin Float
      BY <1>1, TokenAssumption
    <2>2. o \in {Gives(PlainObj(At(i)), exc), Fails(Failed)}
      BY <1>1, <2>1 DEF ReadOther
    <2> QED
      BY <1>1, <2>2, OtherErrors, ObjectsAreNotNull, GivesAt, FailsAt
  <1>2. CASE At(i) \notin Plain /\ At(i) \in Float
    <2>1. \/ o \in {Gives(FloatObj(At(i)), exc), Fails(Failed)}
          \/ o \in CallsHook(call.parseFloat, ParsedObj(At(i)))
      BY <1>2 DEF ReadOther
    <2>2. o \in {Gives(FloatObj(At(i)), exc), Fails(Failed)} =>
             OutcomeAt(o, i, Plain \cup Float)
      BY <1>2, OtherErrors, ObjectsAreNotNull, GivesAt, FailsAt
    <2>3. ParsedObj(At(i)) # Null
      BY ObjectsAreNotNull
    <2>4. o \in CallsHook(call.parseFloat, ParsedObj(At(i))) =>
             OutcomeAt(o, i, Plain \cup Float)
      BY <1>2, <2>3, HookAt
    <2> QED
      BY <2>1, <2>2, <2>4
  <1>3. CASE At(i) \notin Plain \cup Float
    <2> DEFINE what == IF i = End THEN "end" ELSE "character"
    <2>1. PICK e \in Reports(exc, what, i) : o = Fails(e)
      BY <1>3 DEF ReadOther
    <2>2. what # "junk" /\ (what = "end" => At(i) = "nul") /\ (i = End => what = "end")
      BY TheText
    <2> HIDE DEF what
    <2>3. Blames(e, i)
      BY <2>1, <2>2, ReportBlames
    <2> QED
      BY <1>3, <2>1, <2>3, FailsAt
  <1> QED
    BY <1>1, <1>2, <1>3

-----------------------------------------------------------------------------
(* The steps. *)

LEMMA WhileGoing ==
    ASSUME IInv, OrderInv, Going
    PROVE  /\ call \in Call /\ pos \in 1..End /\ exc.type # "DecodeError"
           /\ InOrder(Text, pos) /\ Nested(Text, stack, pos) /\ Turn
  BY DEF IInv, TypeOK, OrderInv

LEMMA LoadsOrder == IInv /\ OrderInv /\ Loads => OrderInv'
  <1> SUFFICES ASSUME IInv, OrderInv, Loads PROVE OrderInv'
    OBVIOUS
  <1>1. /\ pc = "loads" /\ Going /\ ret = Null /\ ret' = ret /\ stack = <<>>
        /\ UNCHANGED <<call, pos, stack>>
        /\ pc' \in {"value", "done"} /\ exc' \in {TypeError, NoExc}
    BY DEF Loads, Going, IInv, ErrorInv, TopInv
  <1>2. InOrder(Text, pos) /\ Nested(Text, stack, pos) /\ pos = 1
    BY <1>1, WhileGoing DEF Turn
  <1>3. exc'.type # "DecodeError"
    BY <1>1, OtherErrors
  <1>4. CASE pc' = "done"
    BY <1>1, <1>3, <1>4 DEF OrderInv, Going, ErrorInPlace, AcceptsInOrder
  <1>5. CASE pc' = "value"
    <2>1. Text' = Text
      BY <1>1 DEF Text
    <2>2. Previous(Text, 1) = ":"
      <3>1. Before(Text, 1) = {}
        BY DEF Before
      <3> QED
        BY <3>1 DEF Previous
    <2>3. Turn'
      BY <1>1, <1>2, <1>5, <2>1, <2>2 DEF Turn, BeforeValue
    <2> QED
      BY <1>1, <1>2, <1>3, <1>5, <2>3, GoesOn
  <1> QED
    BY <1>1, <1>4, <1>5

(* Where a value is to be read, any value is in its place, and nothing else.*)
LEMMA ValuePlace ==
    ASSUME IInv, OrderInv, pc = "value"
    PROVE  LET i == Eat(pos)
           IN  /\ i \in 1..End /\ InOrder(Text, i) /\ Nested(Text, stack, i)
               /\ At(i) \in Expected(Text, i) <=> At(i) \in BeginsValue
               /\ Previous(Text, i) \notin {"{", ","} \/ Bracket(Text, i) # "{"
  <1> DEFINE i == Eat(pos)
  <1>1. /\ call \in Call /\ pos \in 1..End
        /\ InOrder(Text, pos) /\ Nested(Text, stack, pos) /\ Turn
    BY WhileGoing DEF Going
  <1>2. /\ i \in 1..End /\ At(i) # "ws"
        /\ InOrder(Text, i) /\ Nested(Text, stack, i)
        /\ Previous(Text, i) = Previous(Text, pos)
    BY <1>1, Skipped
  <1>3. Previous(Text, i) = "[" => At(i) # "]"
    BY <1>1, <1>2, EatStays DEF Turn
  <1> HIDE DEF i
  <1>4. "]" \notin BeginsValue
    BY TokenAssumption DEF BeginsValue, Punctuation, Open, Close
  <1>5. /\ At(i) \in Expected(Text, i) <=> At(i) \in BeginsValue
        /\ Previous(Text, i) \notin {"{", ","} \/ Bracket(Text, i) # "{"
    <2>1. CASE stack # <<>> /\ Top.kind = "list"
      <3>1. Previous(Text, i) \in {"[", ","} /\ Bracket(Text, i) = "["
        BY <1>1, <1>2, <2>1, BracketIsTop DEF Turn, BeforeValue, Mark
      <3>2. \/ Expected(Text, i) = {"ws"} \cup BeginsValue
            \/ /\ Expected(Text, i) = {"ws"} \cup (BeginsValue \cup {"]"})
               /\ Previous(Text, i) = "["
        BY <3>1, ExpectedIs
      <3> QED
        BY <1>2, <1>3, <1>4, <3>1, <3>2
    <2>2. CASE ~(stack # <<>> /\ Top.kind = "list")
      <3>1. Previous(Text, i) = ":"
        BY <1>1, <1>2, <2>2 DEF Turn, BeforeValue
      <3>2. Expected(Text, i) = {"ws"} \cup BeginsValue
        BY <3>1, ExpectedIs
      <3> QED
        BY <1>2, <3>1, <3>2
    <2> QED
      BY <2>1, <2>2
  <1> QED
    BY <1>2, <1>5 DEF i

LEMMA ScalarOrder == IInv /\ OrderInv /\ ReadScalar => OrderInv'
  <1> SUFFICES ASSUME IInv, OrderInv, ReadScalar PROVE OrderInv'
    OBVIOUS
  <1> DEFINE i == Eat(pos)
             accepted == IF At(i) \in Strings \cup BadStr THEN Strings ELSE Plain \cup Float
  <1>1. /\ pc = "value" /\ call' = call /\ stack' = stack
        /\ At(i) \notin Open
    BY DEF ReadScalar
  <1>2. call \in Call /\ exc.type # "DecodeError"
    BY <1>1, WhileGoing DEF Going
  <1>3. /\ i \in 1..End /\ InOrder(Text, i) /\ Nested(Text, stack, i)
        /\ At(i) \in Expected(Text, i) <=> At(i) \in BeginsValue
        /\ Previous(Text, i) \notin {"{", ","} \/ Bracket(Text, i) # "{"
    BY <1>1, ValuePlace
  <1>4. PICK o \in IF At(i) \in Strings \cup BadStr THEN ReadString(i) ELSE ReadOther(i) :
           /\ Return(o.ret, o.exc)
           /\ pos' = IF o.ret = Null THEN pos ELSE i + 1
    BY DEF ReadScalar
  <1>5. OutcomeAt(o, i, accepted)
    <2> HIDE DEF i
    <2>1. CASE At(i) \in Strings \cup BadStr
      BY <1>2, <1>3, <1>4, <2>1, StringAt
    <2>2. CASE At(i) \notin Strings \cup BadStr
      BY <1>2, <1>3, <1>4, <2>2, OtherAt
    <2> QED
      BY <2>1, <2>2
  <1>6. At(i) \in accepted <=> At(i) \in BeginsValue
    <2>1. At(i) \in BadStr => At(i) \notin Scalar
      BY TokenAssumption
    <2> HIDE DEF i
    <2> QED
      BY <1>1, <2>1 DEF BeginsValue, Scalar
  <1> HIDE DEF i, accepted
  <1>7. CASE o.ret = Null
    <2>1. Return(Null, o.exc) /\ Blames(o.exc, i)
      BY <1>4, <1>5, <1>7 DEF OutcomeAt
    <2>2. o.exc.type = "DecodeError" => At(i) \notin Expected(Text, i)
      BY <1>3, <1>5, <1>6 DEF OutcomeAt
    <2> QED
      BY <1>1, <1>2, <1>3, <2>1, <2>2, RefusedThere
  <1>8. CASE o.ret # Null
    <2>1. /\ pos' = i + 1 /\ pc' = "got" /\ exc' = o.exc
          /\ exc'.type # "DecodeError" /\ At(i) \in Expected(Text, i)
          /\ At(i) \in Scalar
      BY <1>1, <1>3, <1>4, <1>5, <1>6, <1>8 DEF OutcomeAt, Return, BeginsValue
    <2>2. At(i) \notin Punctuation \cup Stray \cup {"ws"}
      BY <2>1, TokenAssumption
    <2>3. At(i) \notin {"nul", "ws"} /\ At(i) \notin Open \cup Close
      BY <2>2 DEF Stray, Punctuation
    <2>4. /\ InOrder(Text, i + 1) /\ Previous(Text, i + 1) = At(i)
          /\ Text[i] = At(i) /\ i \in 1..Len(Text)
      BY <1>2, <1>3, <2>1, <2>3, Passed
    <2>5. Nested(Text, stack, i + 1)
      BY <1>2, <1>3, <2>3, <2>4, NestedAfter, TheText DEF IInv, StackInv
    <2>6. ~BehindKey(Text, i + 1)
      <3>1. Bracket(Text, i + 1) = Bracket(Text, i)
        BY <1>3, <2>5, BracketIsTop
      <3> QED
        BY <1>2, <1>3, <2>1, <2>3, <3>1, ValueIsNoKey
    <2> QED
      BY <1>1, <2>1, <2>4, <2>5, <2>6, ValueEnds
  <1> QED
    BY <1>7, <1>8

LEMMA ChildFailedOrder == IInv /\ OrderInv /\ ChildFailed => OrderInv'
  <1> SUFFICES ASSUME IInv, OrderInv, ChildFailed PROVE OrderInv'
    OBVIOUS
  <1>1. /\ stack # <<>> /\ call' = call
        /\ ret' = Null /\ exc' = exc /\ pc' = "got"
    BY DEF ChildFailed, Return
  <1>2. Text' = Text /\ End' = End
    BY <1>1 DEF Text, End
  <1>3. ErrorInPlace'
    BY <1>1, <1>2 DEF OrderInv, ErrorInPlace, At
  <1> QED
    BY <1>1, <1>3 DEF OrderInv, Going, AcceptsInOrder

LEMMA FinishOrder == IInv /\ OrderInv /\ Finish => OrderInv'
  <1> SUFFICES ASSUME IInv, OrderInv, Finish PROVE OrderInv'
    OBVIOUS
  <1> DEFINE j == Eat(pos)
  <1>1. /\ pc = "got" /\ pc' = "done" /\ stack = <<>>
        /\ UNCHANGED <<call, pos, stack>>
    BY DEF Finish
  <1>2. Text' = Text /\ End' = End /\ ~Going'
    BY <1>1 DEF Text, End, Going
  <1>3. CASE ret = Null /\ UNCHANGED <<ret, exc>>
    <2>1. ErrorInPlace'
      BY <1>1, <1>2, <1>3 DEF OrderInv, ErrorInPlace, At
    <2> QED
      BY <1>2, <1>3, <2>1 DEF OrderInv, AcceptsInOrder
  <1>4. ASSUME ret # Null
        PROVE  /\ call \in Call /\ exc.type # "DecodeError" /\ j \in 1..End
               /\ InOrder(Text, j) /\ Nested(Text, stack, j)
               /\ At(j) \notin Expected(Text, j)
    <2>1. /\ call \in Call /\ pos \in 1..End /\ exc.type # "DecodeError"
          /\ InOrder(Text, pos) /\ Nested(Text, stack, pos) /\ Turn
      BY <1>1, <1>4, WhileGoing DEF Going
    <2>2. /\ j \in 1..End /\ At(j) # "ws"
          /\ InOrder(Text, j) /\ Nested(Text, stack, j)
          /\ Previous(Text, j) = Previous(Text, pos)
          /\ BehindKey(Text, j) <=> BehindKey(Text, pos)
      BY <2>1, Skipped
    <2>3. Previous(Text, j) \in Scalar \cup Close /\ ~BehindKey(Text, j)
      BY <1>1, <2>1, <2>2 DEF Turn
    <2>4. Bracket(Text, j) = "none"
      BY <1>1, <2>2, BracketIsTop
    <2> HIDE DEF j
    <2>5. Expected(Text, j) = {"ws"}
      BY <2>3, <2>4, ExpectedIs
    <2> QED
      BY <2>1, <2>2, <2>5
  <1> HIDE DEF j
  <1>5. CASE ret # Null /\ j = End /\ UNCHANGED <<ret, exc>>
    <2>1. /\ Text \in Seq(Token) /\ End = Len(Text) + 1 /\ Len(Text) \in Nat
      BY <1>4, <1>5, TheText
    <2>2. FirstWrong(Text) = End
      BY <1>4, <1>5, <2>1, WrongHere DEF InOrder
    <2>3. Depth(Text, End) = 0
      BY <1>1, <1>4, <1>5, EmptySeq DEF Nested
    <2> QED
      BY <1>2, <1>4, <1>5, <2>2, <2>3 DEF OrderInv, ErrorInPlace, AcceptsInOrder
  <1>6. CASE ret # Null /\ j # End /\ ret' = Null /\ exc' \in Reports(exc, "junk", j)
    <2>1. /\ Text \in Seq(Token) /\ End = Len(Text) + 1 /\ Len(Text) \in Nat
          /\ j # End => j \in 1..Len(Text) /\ At(j) = Text[j]
      BY <1>4, <1>6, TheText
    <2>2. FirstWrong(Text) = j
      BY <1>4, <1>6, <2>1, WrongHere DEF InOrder
    <2>3. exc' = Failed \/ exc' = [type |-> "DecodeError", what |-> "junk", at |-> j]
      BY <1>6 DEF Reports
    <2>4. exc'.type = "DecodeError" => exc'.what = "junk" /\ exc'.at = j
      BY <2>3, OtherErrors
    <2>5. ErrorInPlace'
      BY <1>1, <1>2, <1>6, <2>2, <2>4 DEF ErrorInPlace
    <2> QED
      BY <1>2, <1>6, <2>5 DEF OrderInv, AcceptsInOrder
  <1> QED
    BY <1>3, <1>5, <1>6 DEF Finish, j

(* Behind a value in a list or a dict. *)
LEMMA BehindValue ==
    ASSUME IInv, OrderInv, pc = "got", ret # Null, stack # <<>>
    PROVE  LET j == Eat(pos)
           IN  /\ j \in 1..End /\ InOrder(Text, j) /\ Nested(Text, stack, j)
               /\ At(j) \in Expected(Text, j) <=>
                     At(j) \in {",", IF Top.kind = "list" THEN "]" ELSE "}"}
  <1> DEFINE j == Eat(pos)
  <1>1. /\ call \in Call /\ pos \in 1..End
        /\ InOrder(Text, pos) /\ Nested(Text, stack, pos) /\ Turn
    BY WhileGoing DEF Going
  <1>2. /\ j \in 1..End /\ At(j) # "ws"
        /\ InOrder(Text, j) /\ Nested(Text, stack, j)
        /\ Previous(Text, j) = Previous(Text, pos)
        /\ BehindKey(Text, j) <=> BehindKey(Text, pos)
    BY <1>1, Skipped
  <1> HIDE DEF j
  <1>3. Previous(Text, j) \in Scalar \cup Close /\ ~BehindKey(Text, j)
    BY <1>1, <1>2 DEF Turn
  <1>4. Bracket(Text, j) = Mark(Top)
    BY <1>2, BracketIsTop
  <1>5. Expected(Text, j) = {"ws"} \cup {",", IF Top.kind = "list" THEN "]" ELSE "}"}
    <2>1. Expected(Text, j) =
             {"ws"} \cup (IF Mark(Top) = "[" THEN {",", "]"}
                         ELSE IF Mark(Top) = "{" THEN {",", "}"} ELSE {})
      BY <1>3, <1>4, ExpectedIs
    <2> QED
      BY <2>1 DEF Mark
  <1>6. At(j) \in Expected(Text, j) <=>
           At(j) \in {",", IF Top.kind = "list" THEN "]" ELSE "}"}
    BY <1>2, <1>5
  <1> QED
    BY <1>2, <1>6 DEF j

LEMMA CommaPassed ==
    ASSUME IInv, NEW j \in 1..End, InOrder(Text, j), Nested(Text, stack, j),
           At(j) \in Expected(Text, j), At(j) = ","
    PROVE  /\ j + 1 \in 1..End /\ InOrder(Text, j + 1) /\ Nested(Text, stack, j + 1)
           /\ Previous(Text, j + 1) = ","
  <1>1. call \in Call /\ Text \in Seq(Token)
    BY TheText DEF IInv, TypeOK
  <1>2. /\ j + 1 \in 1..End /\ InOrder(Text, j + 1) /\ Previous(Text, j + 1) = ","
        /\ Text[j] = "," /\ j \in 1..Len(Text)
    BY <1>1, Passed
  <1>3. Nested(Text, stack, j + 1)
    BY <1>1, <1>2, NestedAfter DEF IInv, StackInv, Open, Close
  <1> QED
    BY <1>2, <1>3

LEMMA ClosingPassed ==
    ASSUME call \in Call, NEW frames, IsSequence(frames), frames # <<>>,
           NEW j \in 1..End, InOrder(Text, j), Nested(Text, frames, j),
           At(j) \in Expected(Text, j), At(j) \in Close
    PROVE  /\ InOrder(Text, j + 1)
           /\ Nested(Text, SubSeq(frames, 1, Len(frames) - 1), j + 1)
           /\ Previous(Text, j + 1) \in Scalar \cup Close
           /\ ~BehindKey(Text, j + 1)
  <1>1. At(j) \notin {"nul", "ws"} /\ At(j) \notin Strings
    BY TokenAssumption DEF Close, Scalar, Punctuation
  <1>2. /\ InOrder(Text, j + 1) /\ Previous(Text, j + 1) = At(j)
        /\ Text[j] = At(j) /\ j \in 1..Len(Text)
    BY <1>1, Passed
  <1>3. Nested(Text, SubSeq(frames, 1, Len(frames) - 1), j + 1)
    BY <1>2, TheText, NestedAfter
  <1>4. ~BehindKey(Text, j + 1)
    BY <1>1, ValueIsNoKey
  <1> QED
    BY <1>2, <1>3, <1>4

LEMMA Exchanged ==
    ASSUME IInv, stack # <<>>, NEW f, f.kind = Top.kind, stack' = Append(Below, f),
           NEW i, Nested(Text, stack, i)
    PROVE  Nested(Text, stack', i) /\ stack' # <<>> /\ Top' = f
  <1>1. /\ IsSequence(Below) /\ Len(stack) \in Nat \ {0}
        /\ Len(Below) = Len(stack) - 1
        /\ \A k \in 1..(Len(stack) - 1) : Below[k] = stack[k]
    BY Popped DEF IInv, StackInv, Below
  <1>2. /\ IsSequence(stack') /\ Len(stack') = Len(stack)
        /\ \A k \in 1..(Len(stack) - 1) : stack'[k] = stack[k]
        /\ stack'[Len(stack)] = f
    BY <1>1, Pushed
  <1>3. \A k \in 1..Len(stack) : stack'[k].kind = stack[k].kind
    BY <1>1, <1>2 DEF Top
  <1>4. Nested(Text, stack', i)
    BY <1>2, <1>3, NestedSame
  <1> QED
    BY <1>1, <1>2, <1>4, EmptySeq DEF Top

LEMMA ItemOrder == IInv /\ OrderInv /\ ItemDone => OrderInv'
  <1> SUFFICES ASSUME IInv, OrderInv, ItemDone PROVE OrderInv'
    OBVIOUS
  <1> DEFINE j == Eat(pos)
  <1>1. /\ pc = "got" /\ ret # Null /\ stack # <<>> /\ Top.kind = "list"
        /\ call' = call
    BY DEF ItemDone
  <1>2. call \in Call /\ exc.type # "DecodeError"
    BY <1>1, WhileGoing DEF Going
  <1>3. /\ j \in 1..End /\ InOrder(Text, j) /\ Nested(Text, stack, j)
        /\ At(j) \in Expected(Text, j) <=> At(j) \in {",", "]"}
    BY <1>1, BehindValue
  <1>4. PICK stored \in BOOLEAN :
           LET f == IF stored THEN ListFrame(Append(Top.built, ret)) ELSE Top
               e == IF stored THEN exc ELSE Failed
           IN  \/ At(j) = "," /\ GoOn(f, "value", j + 1) /\ exc' = e /\ UNCHANGED ret
               \/ /\ At(j) = "]"
                  /\ Leave(f, {"container"})
                  /\ Return(ListObj(f.built), e)
                  /\ pos' = j + 1
               \/ /\ At(j) \notin {",", "]"}
                  /\ Leave(f, Abandons(f, Null))
                  /\ \E g \in Reports(e, Unexpected(j), j) : Return(Null, g)
                  /\ UNCHANGED pos
    BY DEF ItemDone
  <1> DEFINE f == IF stored THEN ListFrame(Append(Top.built, ret)) ELSE Top
             e == IF stored THEN exc ELSE Failed
  <1>5. f.kind = "list" /\ e.type # "DecodeError"
    BY <1>1, <1>2, OtherErrors DEF ListFrame
  <1> HIDE DEF j, f, e
  <1>6. CASE At(j) = "," /\ GoOn(f, "value", j + 1) /\ exc' = e
    <2>1. /\ InOrder(Text, j + 1) /\ Nested(Text, stack, j + 1)
          /\ Previous(Text, j + 1) = ","
      BY <1>3, <1>6, CommaPassed
    <2>2. pc' = "value" /\ pos' = j + 1 /\ stack' = Append(Below, f)
      BY <1>6 DEF GoOn
    <2>3. Nested(Text, stack', j + 1) /\ stack' # <<>> /\ Top' = f
      BY <1>1, <1>5, <2>1, <2>2, Exchanged
    <2> QED
      BY <1>1, <1>5, <1>6, <2>1, <2>2, <2>3, ValueBegins
  <1>7. CASE At(j) = "]" /\ Leave(f, {"container"}) /\ Return(ListObj(f.built), e) /\ pos' = j + 1
    <2>1. At(j) \in Expected(Text, j) /\ At(j) \in Close
      BY <1>3, <1>7 DEF Close
    <2>2. /\ stack' = SubSeq(stack, 1, Len(stack) - 1)
          /\ pc' = "got" /\ exc' = e /\ pos' = j + 1
      BY <1>7 DEF Leave, Below, Return
    <2>3. /\ InOrder(Text, j + 1) /\ Nested(Text, stack', j + 1)
          /\ Previous(Text, j + 1) \in Scalar \cup Close /\ ~BehindKey(Text, j + 1)
      BY <1>1, <1>2, <1>3, <2>1, <2>2, ClosingPassed DEF IInv, StackInv
    <2> QED
      BY <1>1, <1>5, <2>2, <2>3, ValueEnds
  <1>8. CASE /\ At(j) \notin {",", "]"}
             /\ \E g \in Reports(e, Unexpected(j), j) : Return(Null, g)
    <2>1. PICK g \in Reports(e, Unexpected(j), j) : Return(Null, g)
      BY <1>8
    <2>2. Blames(g, j)
      BY <1>2, UnexpectedBlames
    <2> QED
      BY <1>1, <1>2, <1>3, <1>8, <2>1, <2>2, RefusedThere
  <1> QED
    BY <1>4, <1>6, <1>7, <1>8 DEF f, e

LEMMA PairOrder == IInv /\ OrderInv /\ PairDone => OrderInv'
  <1> SUFFICES ASSUME IInv, OrderInv, PairDone PROVE OrderInv'
    OBVIOUS
  <1> DEFINE j == Eat(pos)
             f == PairStored([Top EXCEPT !.built = Stored(Top.built, Top.key, ret)])
             owner == [Top EXCEPT !.owns = Top.owns \cup {"value"}]
  <1>1. /\ pc = "got" /\ ret # Null /\ stack # <<>> /\ Top.kind = "dict"
        /\ call' = call
    BY DEF PairDone
  <1>2. call \in Call /\ exc.type # "DecodeError"
    BY <1>1, WhileGoing DEF Going
  <1>3. /\ j \in 1..End /\ InOrder(Text, j) /\ Nested(Text, stack, j)
        /\ At(j) \in Expected(Text, j) <=> At(j) \in {",", "}"}
    BY <1>1, BehindValue
  <1>4. f.kind = "dict"
    BY DEF PairStored, DictFrame
  <1>5. \/ Return(Null, Failed)
        \/ At(j) = "," /\ GoOn(f, "key", Eat(j + 1)) /\ UNCHANGED <<ret, exc>>
        \/ At(j) = "}" /\ CloseDict(f) /\ pos' = j + 1
        \/ /\ At(j) \notin {",", "}"}
           /\ \E e \in Reports(exc, Unexpected(j), j) : Return(Null, e)
    BY DEF PairDone
  <1> HIDE DEF j, f, owner
  <1>6. CASE Return(Null, Failed)
    BY <1>6, OtherErrors, FailedElsewhere
  <1>7. CASE At(j) = "," /\ GoOn(f, "key", Eat(j + 1)) /\ UNCHANGED <<ret, exc>>
    <2>1. /\ j + 1 \in 1..End /\ InOrder(Text, j + 1) /\ Nested(Text, stack, j + 1)
          /\ Previous(Text, j + 1) = ","
      BY <1>3, <1>7, CommaPassed
    <2> DEFINE k == Eat(j + 1)
    <2>2. /\ At(k) # "ws" /\ InOrder(Text, k) /\ Nested(Text, stack, k)
          /\ Previous(Text, k) = ","
      BY <1>2, <2>1, Skipped
    <2>3. pc' = "key" /\ pos' = k /\ stack' = Append(Below, f) /\ exc' = exc
      BY <1>7 DEF GoOn
    <2> HIDE DEF k
    <2>4. Nested(Text, stack', k)
      BY <1>1, <1>4, <2>2, <2>3, Exchanged
    <2> QED
      BY <1>1, <1>2, <2>2, <2>3, <2>4, KeyBegins
  <1>8. CASE At(j) = "}" /\ CloseDict(f) /\ pos' = j + 1
    <2>1. At(j) \in Expected(Text, j) /\ At(j) \in Close
      BY <1>3, <1>8 DEF Close
    <2>2. stack' = SubSeq(stack, 1, Len(stack) - 1) /\ pos' = j + 1
      BY <1>8 DEF CloseDict, Leave, Below
    <2>3. \/ \E v : Return(v, exc)
          \/ \E o \in CallsHook(call.objectHook, HookedObj(DictObj(f.built))) :
                Return(o.ret, o.exc)
      BY <1>8 DEF CloseDict
    <2>4. \/ Return(Null, Failed)
          \/ Return(Null, TypeError)
          \/ pc' = "got" /\ exc'.type # "DecodeError"
      <3>1. CASE \E v : Return(v, exc)
        BY <1>2, <3>1 DEF Return
      <3>2. ASSUME NEW o \in CallsHook(call.objectHook, HookedObj(DictObj(f.built))),
                   Return(o.ret, o.exc)
            PROVE  \/ Return(Null, Failed)
                   \/ Return(Null, TypeError)
                   \/ pc' = "got" /\ exc'.type # "DecodeError"
        BY <3>2, OtherErrors DEF CallsHook, Fails, Gives, Outcome, Return
      <3> QED
        BY <2>3, <3>1, <3>2
    <2>5. CASE pc' = "got" /\ exc'.type # "DecodeError"
      <3>1. /\ InOrder(Text, j + 1) /\ Nested(Text, stack', j + 1)
            /\ Previous(Text, j + 1) \in Scalar \cup Close /\ ~BehindKey(Text, j + 1)
        BY <1>1, <1>2, <1>3, <2>1, <2>2, ClosingPassed DEF IInv, StackInv
      <3> QED
        BY <1>1, <2>2, <2>5, <3>1, ValueEnds
    <2> QED
      BY <2>4, <2>5, OtherErrors, FailedElsewhere
  <1>9. CASE /\ At(j) \notin {",", "}"}
             /\ \E e \in Reports(exc, Unexpected(j), j) : Return(Null, e)
    <2>1. PICK e \in Reports(exc, Unexpected(j), j) : Return(Null, e)
      BY <1>9
    <2>2. Blames(e, j)
      BY <1>2, UnexpectedBlames
    <2> QED
      BY <1>1, <1>2, <1>3, <1>9, <2>1, <2>2, RefusedThere
  <1> QED
    BY <1>5, <1>6, <1>7, <1>8, <1>9

(* Where a key is to be read, a string is in its place, and nothing else.   *)
LEMMA KeyPlace ==
    ASSUME IInv, OrderInv, pc = "key"
    PROVE  /\ At(pos) \in Expected(Text, pos) <=> At(pos) \in Strings
           /\ Previous(Text, pos) \in {"{", ","} /\ Bracket(Text, pos) = "{"
  <1>1. /\ Nested(Text, stack, pos)
        /\ Previous(Text, pos) \in {"{", ","} /\ At(pos) # "ws"
        /\ Previous(Text, pos) = "{" => At(pos) # "}"
    BY WhileGoing DEF Going, Turn
  <1>2. Bracket(Text, pos) = "{"
    BY <1>1, BracketIsTop DEF IInv, TopInv, Mark
  <1>3. \/ Expected(Text, pos) = {"ws"} \cup Strings
        \/ /\ Expected(Text, pos) = {"ws"} \cup (Strings \cup {"}"})
           /\ Previous(Text, pos) = "{"
    BY <1>1, <1>2, ExpectedIs
  <1>4. "}" \notin Strings
    BY TokenAssumption DEF Scalar, Punctuation, Close
  <1> QED
    BY <1>1, <1>2, <1>3, <1>4

LEMMA KeyOrder == IInv /\ OrderInv /\ ReadKey => OrderInv'
  <1> SUFFICES ASSUME IInv, OrderInv, ReadKey PROVE OrderInv'
    OBVIOUS
  <1>1. /\ pc = "key" /\ call' = call /\ stack # <<>> /\ Top.kind = "dict"
        /\ FrameOK(Top)
    BY TopOwns DEF ReadKey, IInv, TopInv
  <1>2. /\ call \in Call /\ pos \in 1..End /\ exc.type # "DecodeError"
        /\ InOrder(Text, pos) /\ Nested(Text, stack, pos)
    BY <1>1, WhileGoing DEF Going
  <1>3. /\ At(pos) \in Expected(Text, pos) <=> At(pos) \in Strings
        /\ Previous(Text, pos) \in {"{", ","} /\ Bracket(Text, pos) = "{"
    BY <1>1, KeyPlace
  <1>4. CASE /\ At(pos) \notin Strings \cup BadStr
             /\ \E e \in Reports(exc, Unexpected(pos), pos) : Return(Null, e)
    <2>1. PICK e \in Reports(exc, Unexpected(pos), pos) : Return(Null, e)
      BY <1>4
    <2>2. Blames(e, pos)
      BY <1>2, UnexpectedBlames
    <2> QED
      BY <1>1, <1>2, <1>3, <1>4, <2>1, <2>2, RefusedThere
  <1>5. ASSUME At(pos) \in Strings \cup BadStr, NEW o \in ReadString(pos),
               LET f == [Top EXCEPT !.key = o.ret, !.owns = Top.owns \cup {"key"}]
                   j == Eat(pos + 1)
               IN  \/ o.ret = Null /\ Return(Null, o.exc)
                   \/ o.ret # Null /\ At(j) = ":" /\ GoOn(f, "value", j + 1) /\ exc' = o.exc
                   \/ /\ o.ret # Null /\ At(j) # ":"
                      /\ \E e \in Reports(o.exc, Unexpected(j), NoColon(j)) : Return(Null, e)
        PROVE  OrderInv'
    <2> DEFINE f == [Top EXCEPT !.key = o.ret, !.owns = Top.owns \cup {"key"}]
               j == Eat(pos + 1)
    <2>1. OutcomeAt(o, pos, Strings)
      BY <1>2, <1>5, StringAt
    <2>2. CASE o.ret = Null /\ Return(Null, o.exc)
      <3>1. /\ Blames(o.exc, pos)
            /\ o.exc.type = "DecodeError" => At(pos) \notin Expected(Text, pos)
        BY <1>3, <2>1, <2>2 DEF OutcomeAt
      <3> QED
        BY <1>1, <1>2, <2>2, <3>1, RefusedThere
    <2>3. ASSUME o.ret # Null
          PROVE  /\ j \in 1..End /\ InOrder(Text, j) /\ Nested(Text, stack, j)
                 /\ At(j) \in Expected(Text, j) <=> At(j) = ":"
      <3>1. At(pos) \in Strings /\ At(pos) \in Expected(Text, pos)
        BY <1>3, <2>1, <2>3 DEF OutcomeAt
      <3>2. At(pos) \notin {"nul", "ws"} /\ At(pos) \notin Open \cup Close
        BY <3>1, TokenAssumption DEF Scalar, Stray, Punctuation
      <3>3. /\ pos \in 1..Len(Text) /\ At(pos) = Text[pos] /\ pos + 1 \in 1..End
            /\ InOrder(Text, pos + 1) /\ Previous(Text, pos + 1) = At(pos)
            /\ Max(Before(Text, pos + 1)) = pos
        BY <1>2, <3>1, <3>2, Passed
      <3>4. Nested(Text, stack, pos + 1)
        BY <1>2, <3>2, <3>3, NestedAfter, TheText DEF IInv, StackInv
      <3>5. Bracket(Text, pos + 1) = "{"
        BY <1>1, <3>4, BracketIsTop DEF Mark
      <3>6. BehindKey(Text, pos + 1)
        BY <1>3, <3>1, <3>3, <3>5 DEF BehindKey
      <3>7. /\ j \in 1..End /\ At(j) # "ws"
            /\ InOrder(Text, j) /\ Nested(Text, stack, j) /\ BehindKey(Text, j)
        BY <1>2, <3>3, <3>4, <3>6, Skipped
      <3> HIDE DEF j
      <3>8. Expected(Text, j) = {"ws"} \cup {":"}
        BY <3>7, ExpectedIs
      <3> QED
        BY <3>7, <3>8
    <2>4. f.kind = "dict"
      BY <1>1 DEF FrameOK
    <2> HIDE DEF j, f
    <2>5. CASE o.ret # Null /\ At(j) = ":" /\ GoOn(f, "value", j + 1) /\ exc' = o.exc
      <3>1. /\ j \in 1..Len(Text) /\ Text[j] = ":"
            /\ InOrder(Text, j + 1) /\ Previous(Text, j + 1) = ":"
        BY <1>2, <2>3, <2>5, Passed
      <3>2. Nested(Text, stack, j + 1)
        BY <1>2, <2>3, <2>5, <3>1, NestedAfter, TheText DEF IInv, StackInv, Open, Close
      <3>3. pc' = "value" /\ pos' = j + 1 /\ stack' = Append(Below, f)
        BY <2>5 DEF GoOn
      <3>4. Nested(Text, stack', j + 1) /\ stack' # <<>> /\ Top' = f
        BY <1>1, <2>4, <3>2, <3>3, Exchanged
      <3>5. exc'.type # "DecodeError"
        BY <2>1, <2>5 DEF OutcomeAt
      <3> QED
        BY <1>1, <2>4, <3>1, <3>3, <3>4, <3>5, ValueBegins
    <2>6. CASE /\ o.ret # Null /\ At(j) # ":"
               /\ \E e \in Reports(o.exc, Unexpected(j), NoColon(j)) : Return(Null, e)
      <3>1. PICK e \in Reports(o.exc, Unexpected(j), j) : Return(Null, e)
        BY <2>6 DEF NoColon
      <3>2. Blames(e, j)
        BY <1>2, UnexpectedBlames
      <3> QED
        BY <1>1, <1>2, <2>3, <2>6, <3>1, <3>2, RefusedThere
    <2> QED
      BY <1>5, <2>2, <2>5, <2>6 DEF j, f
  <1> QED
    BY <1>4, <1>5 DEF ReadKey

(* The stack with one more frame, and without it again. *)
LEMMA PushedFrame ==
    ASSUME IInv, NEW f
    PROVE  LET t == Append(stack, f)
               u == SubSeq(t, 1, Len(t) - 1)
           IN  /\ IsSequence(t) /\ t # <<>> /\ t[Len(t)] = f
               /\ Len(u) = Len(stack)
               /\ \A k \in 1..Len(stack) : u[k] = stack[k]
  <1> DEFINE t == Append(stack, f)
             u == SubSeq(t, 1, Len(t) - 1)
  <1>1. IsSequence(stack)
    BY DEF IInv, StackInv
  <1>2. /\ Len(stack) \in Nat /\ IsSequence(t) /\ Len(t) = Len(stack) + 1
        /\ \A k \in 1..Len(stack) : t[k] = stack[k]
        /\ t[Len(stack) + 1] = f
    BY <1>1, Pushed
  <1> HIDE DEF t
  <1>3. t # <<>>
    <2>1. Len(t) # 0
      BY <1>2
    <2> QED
      BY <2>1, EmptySeq
  <1>4. Len(u) = Len(t) - 1 /\ \A k \in 1..(Len(t) - 1) : u[k] = t[k]
    BY <1>2, <1>3, Popped
  <1> HIDE DEF u
  <1> QED
    BY <1>2, <1>3, <1>4 DEF t, u

(* ReadList or ReadDict has read its first character. *)
LEMMA EnterOrder ==
    ASSUME IInv, OrderInv, NEW opening, NEW closing, NEW empty, empty # Null,
           NEW frame, NEW next, Enter(opening, closing, empty, frame, next),
           \/ /\ opening = "[" /\ closing = "]"
              /\ next = "value" /\ frame.kind = "list"
           \/ /\ opening = "{" /\ closing = "}"
              /\ next = "key" /\ frame.kind = "dict"
    PROVE  OrderInv'
  <1> DEFINE i == Eat(pos)
             j == Eat(i + 1)
             t == Append(stack, frame)
  <1>1. /\ pc = "value" /\ At(i) = opening /\ call' = call
        /\ \/ Return(Null, Failed)
           \/ At(j) = closing /\ Return(empty, exc) /\ pos' = j + 1 /\ UNCHANGED stack
           \/ /\ At(j) # closing
              /\ stack' = t /\ pc' = next /\ pos' = j
              /\ UNCHANGED <<ret, exc>>
    BY DEF Enter
  <1>2. call \in Call /\ exc.type # "DecodeError"
    BY <1>1, WhileGoing DEF Going
  <1>3. opening \in Open /\ closing \in Close /\ Mark(frame) = opening
    BY DEF Open, Close, Mark
  <1>4. /\ i \in 1..End /\ InOrder(Text, i) /\ Nested(Text, stack, i)
        /\ At(i) \in Expected(Text, i)
    BY <1>1, <1>3, ValuePlace DEF BeginsValue
  <1>5. /\ i \in 1..Len(Text) /\ At(i) = Text[i] /\ i + 1 \in 1..End
        /\ InOrder(Text, i + 1) /\ Previous(Text, i + 1) = opening
    <2> HIDE DEF i
    <2> QED
      BY <1>1, <1>2, <1>4, Passed
  <1>6. Nested(Text, t, i + 1)
    <2> HIDE DEF i
    <2> QED
      BY <1>1, <1>2, <1>3, <1>4, <1>5, NestedAfter, TheText DEF IInv, StackInv
  <1>7. /\ j \in 1..End /\ At(j) # "ws" /\ InOrder(Text, j) /\ Nested(Text, t, j)
        /\ Previous(Text, j) = opening
    <2> HIDE DEF i, t
    <2> QED
      BY <1>2, <1>5, <1>6, Skipped
  <1>8. IsSequence(t) /\ t # <<>> /\ t[Len(t)] = frame
    BY PushedFrame, Zenon
  <1> HIDE DEF i, j, t
  <1>9. CASE Return(Null, Failed)
    BY <1>9, OtherErrors, FailedElsewhere
  <1>10. CASE At(j) = closing /\ Return(empty, exc) /\ pos' = j + 1 /\ UNCHANGED stack
    <2>1. At(j) \in Expected(Text, j)
      <3>1. CASE opening = "[" /\ closing = "]"
        <4>1. Expected(Text, j) = {"ws"} \cup (BeginsValue \cup {"]"})
          BY <1>7, <3>1, ExpectedIs
        <4> QED
          BY <1>10, <3>1, <4>1
      <3>2. CASE opening = "{" /\ closing = "}"
        <4>1. Expected(Text, j) = {"ws"} \cup (Strings \cup {"}"})
          BY <1>7, <3>2, ExpectedIs
        <4> QED
          BY <1>10, <3>2, <4>1
      <3> QED
        BY <3>1, <3>2
    <2> DEFINE u == SubSeq(t, 1, Len(t) - 1)
    <2>2. /\ InOrder(Text, j + 1) /\ Nested(Text, u, j + 1)
          /\ Previous(Text, j + 1) \in Scalar \cup Close /\ ~BehindKey(Text, j + 1)
      BY <1>2, <1>3, <1>7, <1>8, <1>10, <2>1, ClosingPassed
    <2>3. /\ Len(u) = Len(stack)
          /\ \A k \in 1..Len(stack) : u[k] = stack[k]
      BY PushedFrame, Zenon DEF t
    <2> HIDE DEF u
    <2>4. Nested(Text, stack', j + 1)
      BY <1>10, <2>2, <2>3, NestedSame
    <2> QED
      BY <1>1, <1>2, <1>10, <2>2, <2>4, ValueEnds DEF Return
  <1>11. CASE /\ At(j) # closing
              /\ stack' = t /\ pc' = next /\ pos' = j
              /\ UNCHANGED <<ret, exc>>
    <2>1. stack' # <<>> /\ Top' = frame
      BY <1>8, <1>11 DEF Top
    <2>2. CASE next = "value" /\ frame.kind = "list" /\ opening = "[" /\ closing = "]"
      BY <1>1, <1>2, <1>7, <1>11, <2>1, <2>2, ValueBegins
    <2>3. CASE next = "key" /\ opening = "{" /\ closing = "}"
      BY <1>1, <1>2, <1>7, <1>11, <2>3, KeyBegins
    <2> QED
      BY <2>2, <2>3
  <1> QED
    BY <1>1, <1>9, <1>10, <1>11

LEMMA EnterEitherOrder == IInv /\ OrderInv /\ (EnterList \/ EnterDict) => OrderInv'
  <1> SUFFICES ASSUME IInv, OrderInv, EnterList \/ EnterDict PROVE OrderInv'
    OBVIOUS
  <1>1. ListObj(<<>>) # Null /\ DictObj(<<>>) # Null
    BY ObjectsAreNotNull
  <1>2. ListFrame(<<>>).kind = "list" /\ DictFrame(<<>>, Null, {"container"}).kind = "dict"
    BY DEF ListFrame, DictFrame
  <1>3. CASE EnterList
    BY <1>1, <1>2, <1>3, EnterOrder DEF EnterList
  <1>4. CASE EnterDict
    BY <1>1, <1>2, <1>4, EnterOrder DEF EnterDict
  <1> QED
    BY <1>3, <1>4

-----------------------------------------------------------------------------
(* The decoder. *)

LEMMA InitOrder == Init => OrderInv
  <1> SUFFICES ASSUME Init PROVE OrderInv
    OBVIOUS
  <1>1. /\ pc = "loads" /\ pos = 1 /\ stack = <<>> /\ exc = NoExc
        /\ call \in Call
    BY TokenAssumption DEF Init
  <1>2. Len(stack) = 0
    BY <1>1, EmptySeq
  <1>3. Depth(Text, 1) = 0 /\ LastOpen(Text, 1, -1) = "none"
    <2>1. \A P : {j \in 1..(1 - 1) : Text[j] \in P} = {}
      OBVIOUS
    <2>2. Depth(Text, 1) = 0
      BY <2>1, FS_EmptySet DEF Depth
    <2>3. {j \in 1..(1 - 1) : Text[j] \in Open /\ Depth(Text, j) = -1} = {}
      OBVIOUS
    <2> QED
      BY <2>2, <2>3 DEF LastOpen
  <1>4. InOrder(Text, pos) /\ Nested(Text, stack, pos)
    BY <1>1, <1>2, <1>3 DEF InOrder, Nested
  <1> QED
    BY <1>1, <1>4, OtherErrors DEF OrderInv, Turn, ErrorInPlace, AcceptsInOrder

LEMMA NextOrder == IInv /\ OrderInv /\ [Next]_vars => OrderInv'
  <1> SUFFICES ASSUME IInv, OrderInv, [Next]_vars PROVE OrderInv'
    OBVIOUS
  <1>1. CASE UNCHANGED vars
    <2>1. /\ Text' = Text /\ End' = End /\ Top' = Top
          /\ At(pos)' = At(pos) /\ At(exc.at)' = At(exc.at)
      BY <1>1 DEF vars, Text, End, Top, At
    <2>2. /\ pos' = pos /\ stack' = stack /\ pc' = pc /\ ret' = ret /\ exc' = exc
      BY <1>1 DEF vars
    <2>3. Turn' <=> Turn
      BY <2>1, <2>2 DEF Turn, BeforeValue
    <2> QED
      BY <2>1, <2>2, <2>3 DEF OrderInv, Going, ErrorInPlace, AcceptsInOrder
  <1> QED
    BY <1>1, LoadsOrder, ScalarOrder, EnterEitherOrder, KeyOrder, ChildFailedOrder,
       ItemOrder, PairOrder, FinishOrder DEF Next

LEMMA OrderInvariance == Spec => [](IInv /\ OrderInv)
  BY InitInv, InitOrder, NextInv, NextOrder, PTL DEF Spec

(* A JsonDecodeError names the first token that is not in its place: what   *)
(* ReadValue, ReadList, ReadDict and Decode hand to Decoder_Error, through  *)
(* any nesting of lists and dicts.                                          *)
THEOREM ErrorsInPlace == Spec => []ErrorInPlace
  <1>1. OrderInv => ErrorInPlace
    BY DEF OrderInv
  <1> QED
    BY <1>1, OrderInvariance, PTL

(* loads makes an object only of a text in which every token is in its      *)
(* place and every bracket is closed, however deep they are nested.         *)
THEOREM OnlyOrderAccepted == Spec => []AcceptsInOrder
  <1>1. OrderInv => AcceptsInOrder
    BY DEF OrderInv
  <1> QED
    BY <1>1, OrderInvariance, PTL
=============================================================================
