--------------------------- MODULE EncoderCorrect ---------------------------
(***************************************************************************)
(* The encoder composed with its promise: Encoder implements EncodeCall.   *)
(***************************************************************************)
EXTENDS Encoder

(* dump hands its text over as it flushes, dumps and dumpb all at once. *)
Handed == IF target = "file" THEN out.written
          ELSE IF pc = "returned" THEN out.text ELSE <<>>

Verdict == CASE pc = "returned" -> "ok"
             [] pc = "raised" -> exc.type
             [] OTHER -> "running"

Promise == INSTANCE EncodeCall WITH obj <- root, sent <- Handed, result <- Verdict

(* Whatever is flushed, retracted, grown or reported on the way, the caller *)
(* sees a call that keeps the promise of EncodeCall: the full text and only *)
(* then success, a prefix of it in the file at any time, and a refusal only *)
(* of objects that are to be refused.                                       *)
ImplementsCall == Promise!CallSpec
=============================================================================
