---------------------------- MODULE ErrorPosition ----------------------------
(***************************************************************************)
(* The decoder composed with the order of tokens: its error messages point *)
(* at the first token that is not in its place, and it returns an object   *)
(* only when there is none.                                                *)
(***************************************************************************)
EXTENDS Decoder, TokenOrder

(* The position in a JsonDecodeError is that of the first token with which  *)
(* no acceptable text could go on, white space before it not counted; and   *)
(* the message says `Unexpected end' of the end of the text (and of a NUL). *)
ErrorInPlace ==
    exc.type = "DecodeError" =>
        /\ exc.at = FirstWrong(Text)
        /\ exc.what = "end" => At(exc.at) = "nul"
        /\ exc.at = End => exc.what = "end"
        /\ exc.what = "junk" => stack = <<>>

(* loads returns an object only for a text that has every token in its      *)
(* place and every bracket closed, whatever the hooks do and whichever      *)
(* allocation fails: what Decode, ReadList and ReadDict compare with `]',   *)
(* `}', `,', `:' and the terminator leaves no other text.                   *)
AcceptsInOrder ==
    pc = "done" /\ ret # Null => FirstWrong(Text) = End /\ Depth(Text, End) = 0
=============================================================================
