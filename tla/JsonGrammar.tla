----------------------------- MODULE JsonGrammar -----------------------------
(***************************************************************************)
(* What a JSON text means, without a decoder: by matching brackets and     *)
(* cutting at commas.                                                      *)
(***************************************************************************)
EXTENDS TokenOrder, SequencesExt

(* The meaning of a text that has none. *)
NoMeaning == <<"no", "meaning">>

ScalarMeaning(t, c) ==
    CASE t \in Date /\ c.parseDate -> DateObj(t)
      [] t \in Strings /\ ~(t \in Date /\ c.parseDate) -> StrObj(t)
      [] t \in Plain -> PlainObj(t)
      [] t \in Float -> IF c.parseFloat = "absent" THEN FloatObj(t) ELSE ParsedObj(t)
      [] OTHER -> NoMeaning

(* The parts of a text between the commas that are in no brackets. *)
Parts(s) ==
    IF s = <<>> THEN <<>>
    ELSE LET commas == {i \in 1..Len(s) : s[i] = "," /\ Depth(s, i) = 0}
             cuts == SetToSortSeq(commas \cup {0, Len(s) + 1}, <)
         IN  [k \in 1..(Len(cuts) - 1) |-> SubSeq(s, cuts[k] + 1, cuts[k + 1] - 1)]

(* The last of several equal keys counts. *)
DictOf(keys, values) ==
    [k \in Range(keys) |-> values[Max({i \in 1..Len(keys) : keys[i] = k})]]

IsPair(s) == Len(s) > 2 /\ s[1] \in Strings /\ s[2] = ":"

(* What object_hook makes of an object.  It does not get to see an empty    *)
(* one: ReadDict returns before it comes to the hook.                       *)
ObjectMeaning(dict, c) ==
    IF c.objectHook = "absent" \/ dict = <<>> THEN DictObj(dict)
    ELSE HookedObj(DictObj(dict))

RECURSIVE ValueMeaning(_, _)
ValueMeaning(s, c) ==
    LET parts == Parts(SubSeq(s, 2, Len(s) - 1))
        items == [k \in DOMAIN parts |-> ValueMeaning(parts[k], c)]
        keys == [k \in DOMAIN parts |-> ScalarMeaning(parts[k][1], c)]
        values == [k \in DOMAIN parts |->
                      ValueMeaning(SubSeq(parts[k], 3, Len(parts[k])), c)]
    IN  CASE Len(s) = 1 -> ScalarMeaning(s[1], c)
          [] Len(s) > 1 /\ s[1] = "[" /\ s[Len(s)] = "]" /\ NoMeaning \notin Range(items) ->
                ListObj(items)
          [] /\ Len(s) > 1 /\ s[1] = "{" /\ s[Len(s)] = "}"
             /\ \A k \in DOMAIN parts : IsPair(parts[k])
             /\ NoMeaning \notin Range(values) -> ObjectMeaning(DictOf(keys, values), c)
          [] OTHER -> NoMeaning

Meaning(c) == ValueMeaning(SelectSeq(c.text, LAMBDA t : t # "ws"), c)
=============================================================================
