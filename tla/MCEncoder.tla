----------------------------- MODULE MCEncoder -----------------------------
(***************************************************************************)
(* The encoder on a heap of objects that has every type, as a value, as an *)
(* item and, where __encode_dict_key takes it, as a key; two objects that  *)
(* contain themselves; and chains that reach the limit of nesting exactly. *)
(* Any of the objects may be the one to encode.                            *)
(***************************************************************************)
EXTENDS EncoderCorrect

(* A leaf that writes width characters after a request for need of them. *)
Leaf(kind, width, need) ==
    [kind |-> kind, keyKind |-> IF kind \in KeyKinds THEN kind ELSE "Refused",
     width |-> width, need |-> need,
     keys |-> <<>>, items |-> <<>>, to |-> "null"]

Container(kind, items) ==
    [Leaf(kind, 0, 0) EXCEPT !.items = items]

Mapping(kind, keys, items) ==
    [Leaf(kind, 0, 0) EXCEPT !.keys = keys, !.items = items]

Wrapper(kind, to) == [Leaf(kind, 0, 0) EXCEPT !.to = to]

MCObj ==
    [n \in {"null", "date", "stamp", "str", "uuid", "dec", "big", "odd", "bare",
            "enum", "json", "empty", "none", "dict", "view", "data", "iter",
            "mix", "deep", "selfList", "selfDict", "selfJson", "enumKey",
            "badKey", "noItems", "noFields", "ping", "pong", "alien",
            "intEnum", "plain", "numbers", "set", "aliens"} |->
     CASE n = "null"     -> Leaf("Scalar", 4, 4)
       [] n = "date"     -> Leaf("Moment", 4, 4)
       [] n = "stamp"    -> Leaf("DateTime", 6, 8)
       [] n = "str"      -> Leaf("String", 1, 6)
       [] n = "uuid"     -> Leaf("UUID", 2, 12)
       [] n = "dec"      -> Leaf("Decimal", 1, 6)
       [] n = "big"      -> Leaf("BigInt", 0, 0)
       [] n = "odd"      -> Wrapper("Default", "null")
       [] n = "bare"     -> Wrapper("Default", "selfList")
       [] n = "ping"     -> Wrapper("Default", "pong")
       [] n = "pong"     -> Wrapper("ToJson", "ping")
       [] n = "alien"    -> Wrapper("Refused", "null")
       [] n = "intEnum"  -> [Leaf("Scalar", 1, 4) EXCEPT !.keyKind = "Enum", !.to = "dec"]
       [] n = "plain"    -> Mapping("ItemsView", <<"str">>, <<"set">>)
       [] n = "numbers"  -> Mapping("ItemsView", <<"str", "intEnum">>, <<"set", "intEnum">>)
       [] n = "set"      -> Container("Iterable", <<"null">>)
       [] n = "aliens"   -> Container("List", <<"plain", "numbers", "alien">>)
       [] n = "enum"     -> Wrapper("Enum", "str")
       [] n = "json"     -> Wrapper("ToJson", "str")
       [] n = "empty"    -> Container("List", <<>>)
       [] n = "none"     -> Mapping("Dict", <<>>, <<>>)
       [] n = "dict"     -> Mapping("Dict", <<"str", "uuid">>, <<"str", "date">>)
       [] n = "view"     -> Mapping("ItemsView", <<"dec">>, <<"none">>)
       [] n = "data"     -> Mapping("Dataclass", <<"str", "str">>, <<"uuid", "enum">>)
       [] n = "iter"     -> Container("Iterable", <<"stamp", "empty">>)
       [] n = "mix"      -> Container("List", <<"none", "view", "iter", "str">>)
       [] n = "deep"     -> Mapping("Dict", <<"json">>, <<"mix">>)
       [] n = "selfList" -> Container("List", <<"str", "selfList">>)
       [] n = "selfDict" -> Mapping("Dict", <<"null">>, <<"selfJson">>)
       [] n = "selfJson" -> Wrapper("ToJson", "selfDict")
       [] n = "enumKey"  -> Mapping("ItemsView", <<"enum", "null">>, <<"data", "bare">>)
       [] n = "badKey"   -> Mapping("Dict", <<"date">>, <<"big">>)
       [] n = "noItems"  -> Container("Iterable", <<>>)
       [] n = "noFields" -> Mapping("Dataclass", <<>>, <<>>)]

MCNode == DOMAIN MCObj
=============================================================================
