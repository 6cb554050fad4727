--------------------------- MODULE DecoderCorrect ---------------------------
(***************************************************************************)
(* The decoder composed with its promise: Decoder implements LoadCall.     *)
(***************************************************************************)
EXTENDS ErrorPosition

(* A failure that was swallowed counts as one: the caller gets some object, *)
(* with or without an exception, that need not be the meaning of the text.  *)
Status ==
    IF swallowed \/ (BadArgument /\ pc # "loads") THEN "failed"
    ELSE IF pc # "done" THEN "running"
    ELSE IF ret # Null THEN "ok"
    ELSE IF exc.type = "DecodeError" THEN "refused" ELSE "failed"

Promise == INSTANCE LoadCall WITH
    asked <- call,
    status <- Status,
    value <- IF Status = "ok" THEN ret ELSE Null

(* The decoder returns the meaning of the text, with the hooks applied to   *)
(* every float and every object that is not empty, and reports a            *)
(* JsonDecodeError only for a text that has none: Decode, ReadValue,        *)
(* ReadList and ReadDict accept JSON and nothing else.                      *)
ImplementsLoad == Promise!CallSpec

RECURSIVE Unhooked(_)
Unhooked(v) ==
    CASE v[1] = "dict" -> TRUE
      [] v[1] = "list" -> \E i \in DOMAIN v[2] : Unhooked(v[2][i])
      [] v[1] = "hooked" -> \E k \in DOMAIN v[2][2] : Unhooked(v[2][2][k])
      [] OTHER -> FALSE

(* object_hook `will be called with the result of any object literal        *)
(* decoded. The return value of object_hook will be used instead of the     *)
(* dict' (src/_json.pyi): no dict is left where there is a hook.            *)
EveryObjectHooked ==
    pc = "done" /\ ret # Null /\ call.objectHook = "callable" => ~Unhooked(ret)
=============================================================================
