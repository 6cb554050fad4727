------------------------------- MODULE Objects -------------------------------
(***************************************************************************)
(* The Python objects the encoder walks over, as far as src/encoder.h can  *)
(* tell them apart, and the dispatch on their types.                       *)
(***************************************************************************)
EXTENDS Integers, Sequences

CONSTANTS
    Node,         \* the Python objects
    Obj,          \* what the encoder finds out about each of them, see ObjType
    MaxDepth      \* maxRecursionDepth, MAXIMUM_RECURSION_DEPTH in json.cpp

(* Types whose text is written by one function without a nested Encode.  A  *)
(* "Scalar" is None, True, False, an int or a float, a "Moment" a date or a *)
(* time; str() is called for "UUID" and "Decimal", tzinfo for "DateTime".   *)
LeafKinds == {"Scalar", "Moment", "DateTime", "String", "UUID", "Decimal"}

MappingKinds == {"Dict", "ItemsView", "Dataclass"}
ListKinds == {"List", "Iterable"}    \* "List" stands for list and tuple
WrapperKinds == {"ToJson", "Default", "Enum"}

(* "BigInt" is an int that does not fit into a long long.  An object without *)
(* a branch is "Default" in a call with a callable `default', and "Refused" *)
(* in a call without one.                                                   *)
NoBranch == {"Default", "Refused"}
Kinds == LeafKinds \cup MappingKinds \cup ListKinds
            \cup {"ToJson", "Enum", "BigInt"} \cup NoBranch

(* What __encode_dict_key tells apart. *)
KeyKinds == {"Scalar", "BigInt", "String", "ToJson", "Decimal", "Enum", "UUID"}
               \cup NoBranch

(* kind and keyKind: the branch of Encode and the one of __encode_dict_key, *)
(* which differ where one tests a type exactly and the other does not, or   *)
(* in another order: a member of an IntEnum is an int as a value, but an    *)
(* enum as a key.  width and need: the characters a leaf writes, and those  *)
(* requested for it on top of Encoder_EXTRA_CAPACITY; keys and items: the   *)
(* content of a container; to: what its __json__ method, its value          *)
(* attribute or `default' returns for it.                                   *)
ObjType ==
    [kind : Kinds, keyKind : KeyKinds, width : Nat, need : Nat,
     keys : Seq(Node), items : Seq(Node), to : Node]

ASSUME ObjectAssumption ==
    /\ Obj \in [Node -> ObjType]
    /\ \A n \in Node :
          /\ Obj[n].width <= Obj[n].need
          /\ Obj[n].kind \in MappingKinds => Len(Obj[n].keys) = Len(Obj[n].items)
    /\ MaxDepth \in Nat \ {0}

(* The branch of Encode, or of __encode_dict_key, an object is handed to.   *)
BranchOf(n, asKey) == IF asKey THEN Obj[n].keyKind ELSE Obj[n].kind

(* The value of an enum member existed before the member: no member is its  *)
(* own value, and no members are the values of each other.                  *)
EnumMember == {n \in Node : "Enum" \in {Obj[n].kind, Obj[n].keyKind}}
ASSUME EnumAssumption ==
    \A S \in SUBSET EnumMember : S # {} => \E n \in S : Obj[n].to \notin S

(* The text of an object: punctuation, and for each character of a scalar   *)
(* or a string a copy of the object.                                        *)
Quote == "quote"
Punctuation == {"{", "}", "[", "]", ",", ":", Quote}
Cell == Node \cup Punctuation

Characters(n) == [i \in 1..Obj[n].width |-> n]
=============================================================================
