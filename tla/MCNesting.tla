------------------------------ MODULE MCNesting ------------------------------
(***************************************************************************)
(* The encoder with the constants of the debug build (config.h: buffers of *)
(* 10 characters, 1000 levels; encoder.h: 10 extra characters) on a list   *)
(* in a list in a list, each the only item of the one around it.           *)
(***************************************************************************)
EXTENDS Encoder

CONSTANT Lists  \* the number of lists

MCNode == 1..Lists

MCObj ==
    [n \in MCNode |->
        [kind |-> "List", keyKind |-> "Refused", width |-> 0, need |-> 0, keys |-> <<>>,
         items |-> IF n = Lists THEN <<>> ELSE <<n + 1>>, to |-> n]]

(* Only the outermost list is encoded, with dumps. *)
NestingSpec ==
    Init /\ root = 1 /\ target = "memory" /\ [][Next]_vars
=============================================================================
