----------------------------- MODULE FileBuffer -----------------------------
(***************************************************************************)
(* FileBuffer<T, length> of src/buffer.h: the buffer of dump.  It is a     *)
(* MemoryBuffer whose EnsureCapacity first hands the characters it holds   *)
(* to the `write' method of the target object and then starts over in the  *)
(* same block.  The write method is Python code and may raise.             *)
(***************************************************************************)
EXTENDS MemoryBuffer

VARIABLE
    delivered  \* the characters `write' has accepted, in order

fileVars == <<vars, delivered>>

FileInit ==
    /\ Init
    /\ delivered = <<>>

(* Variant: Flush writes the whole block. *)
PendingBlock == buf.cells

(* The block after a Flush that succeeded, and what it has delivered: an    *)
(* empty buffer calls nobody.                                               *)
Flushed(b) == [b EXCEPT !.cursor = 0]
Pending == Text(buf)

(* Variants: the emptied block is never enlarged, or enlarged as though it   *)
(* had not been emptied.                                                    *)
FileRoomNoGrowth(required) == {Flushed(buf)}
FileRoomBehind(required) ==
    IF Size(buf) < buf.cursor + required
    THEN {Flushed(b) : b \in Grown(buf, required)} ELSE {Flushed(buf)}

(* FileBuffer::EnsureCapacity after its Flush: the emptied block is used    *)
(* again unless the request does not fit into the whole of it.              *)
FileRoomFor(required) ==
    IF Size(buf) < required THEN Grown(Flushed(buf), required) ELSE {Flushed(buf)}

(* Append s after asking for `required' cells, as the encoder does. *)
EncodeToFile(s, required) ==
    /\ alive
    /\ Bounded(s)
    /\ \/ /\ RequestFits(required)
          /\ buf' = Put(buf, s)
          /\ UNCHANGED delivered
       \/ /\ ~RequestFits(required)
          /\ delivered' = delivered \o Pending
          /\ \E b \in FileRoomFor(required) : buf' = Put(b, s)
    /\ offered' = offered \o s
    /\ UNCHANGED <<alive, taken>>

(* Variant: Flush leaves the cursor where it is. *)
FlushInPlace ==
    /\ alive
    /\ delivered' = delivered \o Pending
    /\ taken' = delivered'
    /\ UNCHANGED <<buf, alive, offered>>

(* The last Flush of dump, which then returns None. *)
Flush ==
    /\ alive
    /\ delivered' = delivered \o Pending
    /\ buf' = Flushed(buf)
    /\ taken' = delivered'
    /\ UNCHANGED <<alive, offered>>

(* Variant: the result of `write' is ignored and the block is emptied. *)
WriteFailsSilently ==
    /\ alive
    /\ buf.cursor # 0
    /\ buf' = Flushed(buf)
    /\ UNCHANGED <<alive, offered, taken, delivered>>

(* `write' raised, or the string for it could not be built: EnsureCapacity  *)
(* or Flush returns false and the pending characters stay where they are.   *)
WriteFails ==
    /\ alive
    /\ buf.cursor # 0
    /\ alive' = FALSE
    /\ UNCHANGED <<buf, offered, taken, delivered>>

(* `write' took the pending characters, but the block cannot be enlarged. *)
FileOutOfMemory(required) ==
    /\ alive
    /\ ~RequestFits(required)
    /\ Size(buf) < required
    /\ delivered' = delivered \o Pending
    /\ buf' = Flushed(buf)
    /\ alive' = FALSE
    /\ UNCHANGED <<offered, taken>>

FileNext ==
    \/ \E s \in Slices, slack \in 0..Slack : EncodeToFile(s, Len(s) + slack)
    \/ \E s \in Slices, slack \in 0..Slack : FileOutOfMemory(Len(s) + slack)
    \/ Flush
    \/ WriteFails

FileSpec == FileInit /\ [][FileNext]_fileVars

-----------------------------------------------------------------------------
FileTypeInv ==
    /\ TypeInv
    /\ delivered \in Seq(Char)

(* While nothing has failed, the characters written to the file followed by *)
(* those still in the block are exactly what the encoder produced: none is  *)
(* written twice, dropped or overtaken by a later one when a Flush and a    *)
(* growth of the block fall into one EnsureCapacity.                        *)
NothingLost == alive => delivered \o Pending = offered

(* Whatever fails and whenever, the file holds a prefix of the output. *)
WrittenIsPrefix ==
    /\ Len(delivered) <= Len(offered)
    /\ delivered = SubSeq(offered, 1, Len(delivered))

(* The memory dump needs is bounded by the largest single request, not by   *)
(* the length of the output: the block grows only for a request that does   *)
(* not fit into it empty, and then to less than twice that request.         *)
BoundedBlock ==
    \/ Size(buf) <= InitialSize
    \/ \E s \in Slices :
          Size(buf) <= (IF Debug THEN 1 ELSE 2) * (Len(s) + Slack)

FileSink == INSTANCE TextSink WITH
    text <- IF alive THEN delivered \o Pending ELSE <<>>

(* A FileBuffer keeps the promise of TextSink: a Flush is not visible. *)
ImplementsFileSink == FileSink!Spec
=============================================================================
