------------------------------ MODULE JsonText ------------------------------
(***************************************************************************)
(* The JSON text of a Python object, defined over the object graph without *)
(* a buffer, a stack or a position: the reference the encoder is compared  *)
(* with.  Where an object cannot be encoded the definition says why, and   *)
(* what comes before the place where that shows.                           *)
(***************************************************************************)
EXTENDS Objects, SequencesExt

Whole(text) == [why |-> "none", text |-> text]
Stopped(why, text) == [why |-> why, text |-> text]

(* One outcome after the other; nothing follows the one that stopped. *)
Then(first, second) ==
    IF first.why = "none"
    THEN [why |-> second.why, text |-> first.text \o second.text]
    ELSE first

(* After(elements, closer)[i]: what follows the first i elements.           *)
After(elements, closer) ==
    LET after[i \in 0..Len(elements)] ==
            IF i = Len(elements) THEN Whole(<<closer>>)
            ELSE LET next == Then(elements[i + 1], after[i + 1])
                 IN  IF i = 0 THEN next ELSE Then(Whole(<<",">>), next)
    IN  after

(* The elements between opener and closer, separated by commas. *)
Enclosed(opener, elements, closer) ==
    Then(Whole(<<opener>>), After(elements, closer)[0])

Quotes(n, asKey) ==
    IF ~asKey /\ Obj[n].kind \in {"String", "UUID"} THEN <<Quote>> ELSE <<>>

(* The containers that write their opening bracket before they find out     *)
(* that they are too deep.                                                  *)
Announced(branch) ==
    IF branch \in MappingKinds THEN <<"{">>
    ELSE IF branch = "Iterable" THEN <<"[">>
    ELSE <<>>

Opener(branch) == IF branch \in MappingKinds THEN "{" ELSE "["
Closing(branch) == IF branch \in MappingKinds THEN "}" ELSE "]"

(* The elements of a container, with the outcomes f of the objects in it,   *)
(* at d levels of nesting.                                                  *)
Elements(f, n, d, branch) ==
    [i \in 1..Len(Obj[n].items) |->
        LET value == f[<<Obj[n].items[i], d, FALSE>>]
        IN  IF branch \in MappingKinds
            THEN Then(Whole(<<Quote>>),
                      Then(f[<<Obj[n].keys[i], d, TRUE>>], Then(Whole(<<Quote, ":">>), value)))
            ELSE value]

(***************************************************************************)
(* The outcome of object n at d levels of nesting, with the outcomes f of  *)
(* the objects in it.  Containers, __json__ and default are levels; {} and *)
(* the value of an enum are not.                                           *)
(***************************************************************************)
Encoding(f, n, d, asKey) ==
    LET branch == BranchOf(n, asKey)
    IN  CASE branch \in LeafKinds ->
                Whole(Quotes(n, asKey) \o Characters(n) \o Quotes(n, asKey))
          [] branch \in {"BigInt", "Refused"} -> Stopped("Encode", <<>>)
          [] branch = "Enum" -> f[<<Obj[n].to, d, asKey>>]
          [] branch = "Dict" /\ Obj[n].items = <<>> -> Whole(<<"{", "}">>)
          [] OTHER ->
             IF d = MaxDepth THEN Stopped("Recursion", Announced(branch))
             ELSE IF branch \in WrapperKinds THEN f[<<Obj[n].to, d + 1, asKey>>]
             ELSE Enclosed(Opener(branch), Elements(f, n, d + 1, branch), Closing(branch))

Outcome[p \in Node \X (0..MaxDepth) \X BOOLEAN] == Encoding(Outcome, p[1], p[2], p[3])

TextOf(n) == Outcome[<<n, 0, FALSE>>]
=============================================================================
