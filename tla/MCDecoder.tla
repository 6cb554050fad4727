----------------------------- MODULE MCDecoder -----------------------------
(***************************************************************************)
(* loads on every text of up to MaxTokens tokens, with both hooks given,   *)
(* and, with every combination of the arguments, on some longer texts and  *)
(* all texts that differ from one of them in one token.                    *)
(***************************************************************************)
EXTENDS DecoderCorrect

CONSTANT MaxTokens

Base ==
    {<<"n">>,
     <<"{", "k", ":", "[", "{", "}", ",", "f", "]", ",", "k", ":", "d", "}">>,
     <<"ws", "[", "ws", "[", "n", "]", "ws", ",", "{", "ws", "d", "ws", ":",
       "ws", "x", "ws", "}", "ws", "]", "ws">>}

Some == Punctuation \cup Stray \cup {"ws", "k", "f", "q"}

Mutated == UNION {{[b EXCEPT ![i] = t] : i \in DOMAIN b, t \in Some} : b \in Base}

WithArguments(texts, inputs, objectHooks, parseFloats, parseDates) ==
    {[text |-> t, input |-> i, objectHook |-> o, parseFloat |-> f, parseDate |-> d] :
        t \in texts, i \in inputs, o \in objectHooks, f \in parseFloats, d \in parseDates}

AllTexts == UNION {[1..n -> Some] : n \in 0..MaxTokens}

MCCalls ==
    WithArguments(AllTexts, {"wide"}, {"callable"}, {"absent"}, {TRUE})
        \cup WithArguments(Mutated, {"narrow"}, {"callable"}, {"callable"}, {TRUE})
        \cup WithArguments(Base, {"narrow", "wide", "other"}, Hook, Hook, BOOLEAN)
=============================================================================
