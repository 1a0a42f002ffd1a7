------------------------------ MODULE ByteFifo ------------------------------
(***************************************************************************)
(* What class ByteQueue promises (AvStream.h): a blocking byte stream of a *)
(* fixed size. Bytes leave in the order in which they came in, each once;  *)
(* a transfer moves at least one byte, so that a reader is never told that *)
(* nothing could be read, it waits instead.                                *)
(***************************************************************************)
EXTENDS Naturals, Sequences

CONSTANTS
  Bytes,     \* the bytes
  Capacity   \* the size of the queue

VARIABLES
  todo,    \* what the writer has yet to put in
  content, \* the bytes in the queue
  calling, \* the reader is in a call
  buffer   \* what the reader has got in its current call

fifovars == <<todo, content, calling, buffer>>

Init == todo = <<>> /\ content = <<>> /\ calling = FALSE /\ buffer = <<>>

\* write() or writeSome() is called with some bytes.
CallWrite ==
  /\ todo = <<>>
  /\ todo' \in Seq(Bytes) /\ todo' # <<>>
  /\ UNCHANGED <<content, calling, buffer>>

\* A reader comes with an empty buffer. It may turn out to want nothing.
CallRead ==
  /\ ~calling
  /\ calling' \in BOOLEAN
  /\ buffer' = <<>>
  /\ UNCHANGED <<todo, content>>

Put(n) ==
  /\ n <= Len(todo) /\ Len(content) + n <= Capacity
  /\ content' = content \o SubSeq(todo, 1, n)
  /\ todo' = SubSeq(todo, n + 1, Len(todo))
  /\ UNCHANGED <<calling, buffer>>

\* The call may end with these bytes, and it ends in no other way.
Get(n) ==
  /\ calling /\ calling' \in BOOLEAN
  /\ n <= Len(content)
  /\ buffer' = buffer \o SubSeq(content, 1, n)
  /\ content' = SubSeq(content, n + 1, Len(content))
  /\ UNCHANGED todo

Next == CallWrite \/ CallRead \/ \E n \in 1 .. Capacity : Put(n) \/ Get(n)

Spec == Init /\ [][Next]_fifovars

=============================================================================
