---------------------------- MODULE MCByteQueue -----------------------------
(***************************************************************************)
(* An instance of ByteQueue for TLC: requests of up to one byte more than  *)
(* the queue holds, so that every transfer can wrap, split and wait.       *)
(***************************************************************************)
EXTENDS ByteQueue

Bits == {0, 1}
=============================================================================
