----------------------------- MODULE ByteQueue ------------------------------
(***************************************************************************)
(* RingBuffer and ByteQueue (dvb/AvStream.cpp): the stream of bytes from a *)
(* DVB service's queue thread to the thread that serves the stream. Each   *)
(* queue has one writer, that queue thread, and one reader, which also     *)
(* clears the queue when the service is stopped.                           *)
(*                                                                         *)
(* What runs under _lock is one step. A thread that waits on a condition   *)
(* gives the lock up; a broadcast wakes it, and then it goes on without    *)
(* testing the level again.                                                *)
(***************************************************************************)
EXTENDS Integers, Sequences

CONSTANTS
  Bytes,   \* the bytes
  Size,    \* _size
  MaxNum   \* the largest num a caller asks for

ASSUME QueueAssumption == Size \in Nat \ {0} /\ MaxNum \in Nat \ {0}

VARIABLES
  ring,   \* _ringBuffer
  rpos,   \* _readPos, relative to the buffer
  wpos,   \* _writePos, relative to the buffer
  level,  \* _level
  wpc,    \* the writer: "idle", "call", "wait" or "woken"
  todo,   \* the bytes the writer has yet to write in this call
  rpc,    \* the reader: the same, or "clear" between the two reads of _level
  want,   \* the bytes the reader has yet to read in this call
  loops,  \* the reader is in read() or clear(), which call readSome() again
  buffer  \* the bytes the reader has got in this call

ringvars   == <<ring, rpos, wpos, level>>
writervars == <<wpc, todo>>
readervars == <<rpc, want, loops, buffer>>
vars == <<ringvars, writervars, readervars>>

Index == 0 .. Size - 1

Lesser(a, b) == IF a < b THEN a ELSE b

Most == IF Size < MaxNum THEN MaxNum ELSE Size

TypeOK ==
  /\ ring \in [Index -> Bytes]
  /\ rpos \in Index /\ wpos \in Index
  /\ level \in 0 .. Size
  /\ wpc \in {"idle", "call", "wait", "woken"}
  /\ todo \in Seq(Bytes) /\ Len(todo) <= MaxNum
  /\ rpc \in {"idle", "call", "wait", "woken", "clear"}
  /\ want \in 0 .. Most
  /\ loops \in BOOLEAN
  /\ buffer \in Seq(Bytes)

Init ==
  /\ ring \in {[i \in Index |-> b] : b \in Bytes}
  /\ rpos = 0 /\ wpos = 0 /\ level = 0
  /\ wpc = "idle" /\ todo = <<>>
  /\ rpc = "idle" /\ want = 0 /\ loops = FALSE /\ buffer = <<>>

-----------------------------------------------------------------------------
(* RingBuffer *)

\* Where a position moves: past the end it goes on at the beginning.
Advance(pos, num) == IF pos + num >= Size THEN pos + num - Size ELSE pos + num

\* How far index i lies after pos, going round.
Offset(pos, i) == IF i >= pos THEN i - pos ELSE i - pos + Size

\* RingBuffer::read, what it copies.
Copied(pos, num) == [k \in 1 .. num |-> ring[Advance(pos, k - 1)]]

\* RingBuffer::write, what it leaves in the buffer.
Overwritten(pos, bytes, num) ==
  [i \in Index |-> IF Offset(pos, i) < num THEN bytes[Offset(pos, i) + 1] ELSE ring[i]]

-----------------------------------------------------------------------------
(* The writer *)

\* write() with num bytes.
CallWrite ==
  /\ wpc = "idle"
  /\ \E num \in 1 .. MaxNum : todo' \in [1 .. num -> Bytes]
  /\ wpc' = "call"
  /\ UNCHANGED <<ringvars, readervars>>

\* Mutant: what does not fit into the queue is written all the same.
TransferInBug ==
  LET num == Len(todo) IN
    /\ ring' = Overwritten(wpos, todo, num)
    /\ wpos' = Advance(wpos, num)
    /\ level' = level + num
    /\ todo' = <<>>
    /\ wpc' = "idle"
    /\ rpc' = IF rpc = "wait" THEN "woken" ELSE rpc
    /\ UNCHANGED <<rpos, want, loops, buffer>>

\* The part of writeSome() behind the wait, and the loop of write().
TransferIn ==
  LET num == Lesser(Size - level, Len(todo)) IN
    /\ ring' = Overwritten(wpos, todo, num)
    /\ wpos' = Advance(wpos, num)
    /\ level' = level + num
    /\ todo' = SubSeq(todo, num + 1, Len(todo))
    /\ wpc' = IF num = Len(todo) THEN "idle" ELSE "call"
    /\ rpc' = IF level' > 0 /\ rpc = "wait" THEN "woken" ELSE rpc
    /\ UNCHANGED <<rpos, want, loops, buffer>>

\* Mutant: the reader is only woken when the queue has become full.
WriteSomeBug ==
  /\ wpc = "call"
  /\ IF level = Size
       THEN wpc' = "wait" /\ UNCHANGED <<ringvars, todo, readervars>>
       ELSE LET num == Lesser(Size - level, Len(todo)) IN
              /\ ring' = Overwritten(wpos, todo, num)
              /\ wpos' = Advance(wpos, num)
              /\ level' = level + num
              /\ todo' = SubSeq(todo, num + 1, Len(todo))
              /\ wpc' = IF num = Len(todo) THEN "idle" ELSE "call"
              /\ rpc' = IF level' = Size /\ rpc = "wait" THEN "woken" ELSE rpc
              /\ UNCHANGED <<rpos, want, loops, buffer>>

\* writeSome(): a full queue makes the writer wait, once.
WriteSome ==
  /\ wpc = "call"
  /\ IF level = Size
       THEN wpc' = "wait" /\ UNCHANGED <<ringvars, todo, readervars>>
       ELSE TransferIn

WriteOn == wpc = "woken" /\ TransferIn

-----------------------------------------------------------------------------
(* The reader *)

\* readSome() and read() with num bytes.
CallRead ==
  /\ rpc = "idle"
  /\ want' \in 1 .. MaxNum
  /\ loops' \in BOOLEAN
  /\ buffer' = <<>>
  /\ rpc' = "call"
  /\ UNCHANGED <<ringvars, writervars>>

\* clear() reads _level without the lock, for a buffer of that many bytes ...
CallClear ==
  /\ rpc = "idle"
  /\ want' = level
  /\ rpc' = "clear"
  /\ UNCHANGED <<ringvars, writervars, loops, buffer>>

\* ... and once more to say how many to read. Reading none returns at once.
ClearRead ==
  /\ rpc = "clear"
  /\ want' = level
  /\ loops' = TRUE
  /\ buffer' = <<>>
  /\ rpc' = IF level = 0 THEN "idle" ELSE "call"
  /\ UNCHANGED <<ringvars, writervars>>

\* Mutant: the position moves by what was asked for, not by what was there.
TransferOutBug ==
  LET num == Lesser(level, want) IN
    /\ buffer' = buffer \o Copied(rpos, num)
    /\ rpos' = Advance(rpos, Lesser(want, Size))
    /\ level' = level - num
    /\ want' = want - num
    /\ rpc' = IF loops /\ num < want THEN "call" ELSE "idle"
    /\ wpc' = IF level' < Size /\ wpc = "wait" THEN "woken" ELSE wpc
    /\ UNCHANGED <<ring, wpos, todo, loops>>

\* The part of readSome() behind the wait, and the loop of read().
TransferOut ==
  LET num == Lesser(level, want) IN
    /\ buffer' = buffer \o Copied(rpos, num)
    /\ rpos' = Advance(rpos, num)
    /\ level' = level - num
    /\ want' = want - num
    /\ rpc' = IF loops /\ num < want THEN "call" ELSE "idle"
    /\ wpc' = IF level' < Size /\ wpc = "wait" THEN "woken" ELSE wpc
    /\ UNCHANGED <<ring, wpos, todo, loops>>

\* Mutant: the reader does not wait for bytes.
ReadSomeBug == rpc = "call" /\ TransferOut

\* readSome(): an empty queue makes the reader wait, once.
ReadSome ==
  /\ rpc = "call"
  /\ IF level = 0
       THEN rpc' = "wait" /\ UNCHANGED <<ringvars, writervars, want, loops, buffer>>
       ELSE TransferOut

ReadOn == rpc = "woken" /\ TransferOut

-----------------------------------------------------------------------------
Writer == CallWrite \/ WriteSome \/ WriteOn

Reader == CallRead \/ CallClear \/ ClearRead \/ ReadSome \/ ReadOn

Next == Writer \/ Reader

Spec == Init /\ [][Next]_vars

\* A thread that has called goes on, once it can; nobody need call.
Fairness == WF_vars(WriteSome \/ WriteOn) /\ WF_vars(ClearRead \/ ReadSome \/ ReadOn)

FairSpec == Spec /\ Fairness

-----------------------------------------------------------------------------
(* Properties *)

\* The two positions of the ring buffer lie exactly level bytes apart, so that
\* the writer never overwrites what was not read and the reader never reads
\* what was not written, whichever way the transfers of both wrap.
InStep == wpos = Advance(rpos, level)

\* Nobody sleeps over work: a reader waits only at an empty queue, a writer
\* only at a full one, and a thread that was woken finds what it waited for,
\* though it does not look again.
NoVainWait ==
  /\ rpc = "wait"  => level = 0
  /\ rpc = "woken" => level > 0
  /\ wpc = "wait"  => level = Size
  /\ wpc = "woken" => level < Size

\* No wakeup is lost: a reader that waits while the writer has bytes to write
\* is woken, and so is a writer that waits while the reader reads.
Woken ==
  /\ (rpc = "wait" /\ wpc # "idle") ~> rpc # "wait"
  /\ (wpc = "wait" /\ rpc # "idle") ~> wpc # "wait"

\* The blocking byte stream of AvStream.h is what this code implements.
Fifo == INSTANCE ByteFifo WITH
          content  <- Copied(rpos, level),
          calling  <- rpc \in {"call", "wait", "woken"},
          Capacity <- Size

ImplementsFifo == Fifo!Spec

=============================================================================
