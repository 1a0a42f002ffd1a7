-------------------------- MODULE ByteQueue_proofs --------------------------
(***************************************************************************)
(* Proofs about ByteQueue, for every size of the queue, every set of bytes *)
(* and every length of the requests: the ring buffer keeps in step, no     *)
(* thread waits in vain, and the class implements the byte stream that its *)
(* header promises.                                                        *)
(***************************************************************************)
EXTENDS ByteQueue, SequenceTheorems, TLAPS

\* A thread inside a call has something left to do.
Busy ==
  /\ wpc = "idle" <=> todo = <<>>
  /\ rpc \in {"call", "wait", "woken"} => want > 0

QueueInv == TypeOK /\ InStep /\ NoVainWait /\ Busy

-----------------------------------------------------------------------------
(* Going round the ring *)

LEMMA AdvanceType ==
  ASSUME NEW p \in Index, NEW k \in 0 .. Size
  PROVE  Advance(p, k) \in Index
BY QueueAssumption DEF Advance, Index

\* Two moves are one, as long as they stay within one round.
LEMMA AdvanceTwice ==
  ASSUME NEW p \in Index, NEW j \in 0 .. Size, NEW k \in 0 .. Size, j + k <= Size
  PROVE  Advance(Advance(p, j), k) = Advance(p, j + k)
BY QueueAssumption DEF Advance, Index

\* Moving back: after l bytes forward, going on by k lands where moving by k
\* from the start does, if the l bytes were a whole round.
LEMMA OffsetBehind ==
  ASSUME NEW p \in Index, NEW l \in 0 .. Size, NEW k \in 0 .. Size - 1
  PROVE  Offset(Advance(p, l), Advance(p, k)) = IF k < l THEN k - l + Size ELSE k - l
BY QueueAssumption DEF Advance, Offset, Index

LEMMA OffsetType ==
  ASSUME NEW p \in Index, NEW i \in Index
  PROVE  Offset(p, i) \in 0 .. Size - 1
BY QueueAssumption DEF Offset, Index

\* What a read copies is a sequence of bytes.
LEMMA CopiedType ==
  ASSUME TypeOK, NEW p \in Index, NEW n \in 0 .. Size
  PROVE  /\ Copied(p, n) \in Seq(Bytes)
         /\ Len(Copied(p, n)) = n
         /\ \A k \in 1 .. n : Copied(p, n)[k] = ring[Advance(p, k - 1)]
<1>1. ASSUME NEW k \in 1 .. n
      PROVE  ring[Advance(p, k - 1)] \in Bytes
  <2>1. k - 1 \in 0 .. Size
    BY QueueAssumption
  <2> QED
    BY <2>1, AdvanceType DEF TypeOK
<1>2. Copied(p, n) \in [1 .. n -> Bytes]
  BY <1>1 DEF Copied
<1>3. n \in Nat
  BY QueueAssumption
<1> QED
  BY <1>2, <1>3 DEF Copied

\* A read takes the head of what is in the queue and leaves the rest.
LEMMA CopiedSplits ==
  ASSUME TypeOK, NEW p \in Index, NEW l \in 0 .. Size, NEW n \in 0 .. l
  PROVE  /\ SubSeq(Copied(p, l), 1, n) = Copied(p, n)
         /\ SubSeq(Copied(p, l), n + 1, l) = Copied(Advance(p, n), l - n)
<1> DEFINE whole == Copied(p, l)
           head  == SubSeq(whole, 1, n)
           rest  == SubSeq(whole, n + 1, l)
           q     == Advance(p, n)
<1>1. /\ n \in 0 .. Size /\ l - n \in 0 .. Size /\ n \in Nat /\ l \in Nat
      /\ n <= l
  BY QueueAssumption
<1>2. q \in Index
  BY <1>1, AdvanceType
<1>3. /\ whole \in Seq(Bytes) /\ Len(whole) = l
      /\ \A k \in 1 .. l : whole[k] = ring[Advance(p, k - 1)]
  BY CopiedType
<1>4. /\ Copied(p, n) \in Seq(Bytes) /\ Len(Copied(p, n)) = n
      /\ \A k \in 1 .. n : Copied(p, n)[k] = ring[Advance(p, k - 1)]
  BY <1>1, CopiedType
<1>5. /\ Copied(q, l - n) \in Seq(Bytes) /\ Len(Copied(q, l - n)) = l - n
      /\ \A k \in 1 .. l - n : Copied(q, l - n)[k] = ring[Advance(q, k - 1)]
  BY <1>1, <1>2, CopiedType
<1> HIDE DEF whole
<1>6. \A k \in 1 .. l : whole[k] \in Bytes
  BY <1>3, ElementOfSeq
<1>7. /\ head \in Seq(Bytes) /\ Len(head) = n
      /\ \A k \in 1 .. n : head[k] = whole[k]
  <2>1. \A k \in 1 .. n : whole[k] \in Bytes
    BY <1>1, <1>6
  <2>2. /\ head \in Seq(Bytes)
        /\ Len(head) = IF 1 <= n THEN n - 1 + 1 ELSE 0
        /\ \A k \in 1 .. n - 1 + 1 : head[k] = whole[1 + k - 1]
    BY <1>1, <2>1, SubSeqProperties
  <2> HIDE DEF head
  <2> QED
    BY <1>1, <2>2
<1>8. /\ rest \in Seq(Bytes) /\ Len(rest) = l - n
      /\ \A k \in 1 .. l - n : rest[k] = whole[n + k]
  <2>1. \A k \in n + 1 .. l : whole[k] \in Bytes
    BY <1>1, <1>6
  <2>2. n + 1 \in Int /\ l \in Int
    BY <1>1
  <2>3. /\ rest \in Seq(Bytes)
        /\ Len(rest) = IF n + 1 <= l THEN l - (n + 1) + 1 ELSE 0
        /\ \A k \in 1 .. l - (n + 1) + 1 : rest[k] = whole[n + 1 + k - 1]
    BY <2>1, <2>2, SubSeqProperties
  <2> HIDE DEF rest
  <2> QED
    BY <1>1, <2>3
<1> HIDE DEF head, rest, q
<1>9. head = Copied(p, n)
  <2>1. ASSUME NEW k \in 1 .. n
        PROVE  head[k] = Copied(p, n)[k]
    <3>1. k \in 1 .. l
      BY <1>1
    <3>2. head[k] = whole[k]
      BY <1>7
    <3>3. whole[k] = ring[Advance(p, k - 1)]
      BY <1>3, <3>1
    <3>4. Copied(p, n)[k] = ring[Advance(p, k - 1)]
      BY <1>4
    <3> QED
      BY <3>2, <3>3, <3>4
  <2> QED
    BY <1>4, <1>7, <2>1, SeqEqual
<1>10. rest = Copied(q, l - n)
  <2>1. ASSUME NEW k \in 1 .. l - n
        PROVE  rest[k] = Copied(q, l - n)[k]
    <3>1. /\ k \in Nat /\ n + k \in 1 .. l
          /\ k - 1 \in 0 .. Size /\ n + (k - 1) <= Size
          /\ n + (k - 1) = n + k - 1
      BY <1>1, QueueAssumption
    <3>2. rest[k] = ring[Advance(p, n + k - 1)]
      BY <1>3, <1>8, <3>1
    <3>3. Advance(q, k - 1) = Advance(p, n + k - 1)
      BY <1>1, <3>1, AdvanceTwice DEF q
    <3> QED
      BY <1>5, <3>2, <3>3
  <2> QED
    BY <1>5, <1>8, <2>1, SeqEqual
<1> QED
  BY <1>9, <1>10 DEF head, rest, whole, q

\* A write puts its bytes behind what is in the queue and leaves that alone.
LEMMA OverwrittenAppends ==
  ASSUME TypeOK, InStep, NEW n \in 0 .. Size - level, n <= Len(todo),
         NEW k \in 1 .. level + n
  PROVE  Overwritten(wpos, todo, n)[Advance(rpos, k - 1)]
           = IF k <= level THEN ring[Advance(rpos, k - 1)] ELSE todo[k - level]
<1> DEFINE i == Advance(rpos, k - 1)
<1>1. /\ rpos \in Index /\ level \in 0 .. Size /\ k - 1 \in 0 .. Size - 1
      /\ k - 1 \in 0 .. Size
      /\ wpos = Advance(rpos, level)
  BY QueueAssumption DEF TypeOK, InStep
<1>2. i \in Index
  BY <1>1, AdvanceType
<1>3. Offset(wpos, i) = IF k - 1 < level THEN k - 1 - level + Size ELSE k - 1 - level
  BY <1>1, OffsetBehind
<1>4. Overwritten(wpos, todo, n)[i]
        = IF Offset(wpos, i) < n THEN todo[Offset(wpos, i) + 1] ELSE ring[i]
  BY <1>2 DEF Overwritten
<1> HIDE DEF i
<1>5. CASE k <= level
  <2>1. ~(Offset(wpos, i) < n)
    BY <1>1, <1>3, <1>5, QueueAssumption
  <2> QED
    BY <1>4, <1>5, <2>1 DEF i
<1>6. CASE ~(k <= level)
  <2>1. Offset(wpos, i) < n /\ Offset(wpos, i) + 1 = k - level
    BY <1>1, <1>3, <1>6, QueueAssumption
  <2> QED
    BY <1>4, <1>6, <2>1 DEF i
<1> QED
  BY <1>5, <1>6

\* What a write leaves in the ring are bytes.
LEMMA OverwrittenType ==
  ASSUME TypeOK, NEW n \in 0 .. Size, n <= Len(todo)
  PROVE  Overwritten(wpos, todo, n) \in [Index -> Bytes]
<1> SUFFICES ASSUME NEW i \in Index
             PROVE  (IF Offset(wpos, i) < n THEN todo[Offset(wpos, i) + 1] ELSE ring[i]) \in Bytes
  BY DEF Overwritten
<1>1. Offset(wpos, i) \in 0 .. Size - 1
  BY OffsetType DEF TypeOK
<1>2. CASE Offset(wpos, i) < n
  <2>1. Offset(wpos, i) + 1 \in 1 .. Len(todo)
    BY <1>1, <1>2, QueueAssumption DEF TypeOK
  <2>2. todo[Offset(wpos, i) + 1] \in Bytes
    BY <2>1, ElementOfSeq DEF TypeOK
  <2> QED
    BY <1>2, <2>2
<1>3. CASE ~(Offset(wpos, i) < n)
  BY <1>3 DEF TypeOK
<1> QED
  BY <1>2, <1>3

\* What a transfer leaves of the bytes to be written.
LEMMA Remaining ==
  ASSUME TypeOK, NEW n \in 0 .. Len(todo)
  PROVE  /\ SubSeq(todo, n + 1, Len(todo)) \in Seq(Bytes)
         /\ Len(SubSeq(todo, n + 1, Len(todo))) = Len(todo) - n
<1> DEFINE rest == SubSeq(todo, n + 1, Len(todo))
<1>1. todo \in Seq(Bytes) /\ Len(todo) \in Nat /\ n \in Nat /\ n <= Len(todo)
  BY LenProperties DEF TypeOK
<1>2. \A k \in n + 1 .. Len(todo) : todo[k] \in Bytes
  BY <1>1, ElementOfSeq
<1>3. n + 1 \in Int /\ Len(todo) \in Int
  BY <1>1
<1>4. /\ rest \in Seq(Bytes)
      /\ Len(rest) = IF n + 1 <= Len(todo) THEN Len(todo) - (n + 1) + 1 ELSE 0
  BY <1>2, <1>3, SubSeqProperties
<1> HIDE DEF rest
<1>5. rest \in Seq(Bytes) /\ Len(rest) = Len(todo) - n
  BY <1>1, <1>4
<1> QED
  BY <1>5 DEF rest

-----------------------------------------------------------------------------
(* The transfers *)

\* How much a transfer into the queue moves: something, and no more than fits.
LEMMA TransferInAmount ==
  ASSUME TypeOK, todo # <<>>, level < Size
  PROVE  /\ Lesser(Size - level, Len(todo)) \in 1 .. Size
         /\ Lesser(Size - level, Len(todo)) \in 0 .. Size - level
         /\ Lesser(Size - level, Len(todo)) \in 0 .. Len(todo)
<1>1. Len(todo) \in Nat /\ Len(todo) # 0
  BY LenProperties, EmptySeq DEF TypeOK
<1> QED
  BY <1>1, QueueAssumption DEF TypeOK, Lesser

LEMMA TransferOutAmount ==
  ASSUME TypeOK, want > 0, level > 0
  PROVE  /\ Lesser(level, want) \in 1 .. Size
         /\ Lesser(level, want) \in 0 .. level
         /\ Lesser(level, want) \in 0 .. want
<1>1. want \in Nat /\ level \in 0 .. Size
  BY QueueAssumption DEF TypeOK, Most, Lesser
<1> QED
  BY <1>1, QueueAssumption DEF Lesser

LEMMA TransferInKeeps ==
  ASSUME QueueInv, TransferIn, wpc # "idle", level < Size
  PROVE  QueueInv'
<1> DEFINE n == Lesser(Size - level, Len(todo))
<1>1. todo # <<>> /\ TypeOK /\ InStep /\ NoVainWait /\ Busy
  BY DEF QueueInv, Busy
<1>2. n \in 1 .. Size /\ n \in 0 .. Size - level /\ n \in 0 .. Len(todo)
  BY <1>1, TransferInAmount
<1>3. /\ rpos \in Index /\ wpos \in Index /\ level \in 0 .. Size
      /\ Size \in Nat /\ MaxNum \in Nat
      /\ todo \in Seq(Bytes) /\ Len(todo) <= MaxNum /\ Len(todo) \in Nat
  BY <1>1, LenProperties, QueueAssumption DEF TypeOK
<1>4. /\ ring' = Overwritten(wpos, todo, n)
      /\ wpos' = Advance(wpos, n)
      /\ level' = level + n
      /\ todo' = SubSeq(todo, n + 1, Len(todo))
      /\ wpc' = IF n = Len(todo) THEN "idle" ELSE "call"
      /\ rpc' = IF level' > 0 /\ rpc = "wait" THEN "woken" ELSE rpc
      /\ UNCHANGED <<rpos, want, loops, buffer>>
  BY DEF TransferIn
<1> HIDE DEF n
<1>5. n \in Nat /\ n >= 1 /\ n <= Size /\ level + n <= Size /\ n <= Len(todo)
      /\ n \in 0 .. Size
  BY <1>2, <1>3
<1>6. todo' \in Seq(Bytes) /\ Len(todo') = Len(todo) - n
  BY <1>1, <1>2, <1>4, Remaining
<1>7. level' \in 0 .. Size /\ level' > 0
  BY <1>3, <1>4, <1>5
<1>8. TypeOK'
  <2>1. ring' \in [Index -> Bytes]
    BY <1>1, <1>4, <1>5, OverwrittenType
  <2>2. rpos' \in Index /\ wpos' \in Index
    BY <1>3, <1>4, <1>5, AdvanceType
  <2>3. Len(todo') <= MaxNum
    BY <1>3, <1>5, <1>6
  <2>4. /\ wpc' \in {"idle", "call", "wait", "woken"}
        /\ rpc' \in {"idle", "call", "wait", "woken", "clear"}
        /\ want' \in 0 .. Most /\ loops' \in BOOLEAN /\ buffer' \in Seq(Bytes)
    BY <1>1, <1>4 DEF TypeOK
  <2> QED
    BY <1>6, <1>7, <2>1, <2>2, <2>3, <2>4 DEF TypeOK, Index, Most, Lesser
<1>9. InStep'
  <2>1. wpos' = Advance(Advance(rpos, level), n)
    BY <1>1, <1>4 DEF InStep
  <2>2. Advance(Advance(rpos, level), n) = Advance(rpos, level + n)
    BY <1>3, <1>5, AdvanceTwice
  <2> QED
    BY <1>4, <2>1, <2>2 DEF InStep, Advance
<1>10. NoVainWait'
  BY <1>1, <1>4, <1>7 DEF NoVainWait
<1>11. Busy'
  <2>1. wpc' = "idle" <=> Len(todo') = 0
    BY <1>3, <1>4, <1>5, <1>6
  <2>2. Len(todo') = 0 <=> todo' = <<>>
    BY <1>6, EmptySeq
  <2>3. rpc' \in {"call", "wait", "woken"} => want' > 0
    BY <1>1, <1>4 DEF Busy
  <2> QED
    BY <2>1, <2>2, <2>3 DEF Busy
<1> QED
  BY <1>8, <1>9, <1>10, <1>11 DEF QueueInv

LEMMA TransferOutKeeps ==
  ASSUME QueueInv, TransferOut, rpc \in {"call", "woken"}, level > 0
  PROVE  QueueInv'
<1> DEFINE n == Lesser(level, want)
<1>1. want > 0 /\ TypeOK /\ InStep /\ NoVainWait /\ Busy
  BY DEF QueueInv, Busy
<1>2. n \in 1 .. Size /\ n \in 0 .. level /\ n \in 0 .. want
  BY <1>1, TransferOutAmount
<1>3. /\ rpos \in Index /\ level \in 0 .. Size /\ want \in 0 .. Most
      /\ Size \in Nat /\ Most \in Nat
  BY <1>1, QueueAssumption DEF TypeOK, Most
<1>4. /\ buffer' = buffer \o Copied(rpos, n)
      /\ rpos' = Advance(rpos, n)
      /\ level' = level - n
      /\ want' = want - n
      /\ rpc' = IF loops /\ n < want THEN "call" ELSE "idle"
      /\ wpc' = IF level' < Size /\ wpc = "wait" THEN "woken" ELSE wpc
      /\ UNCHANGED <<ring, wpos, todo, loops>>
  BY DEF TransferOut
<1> HIDE DEF n
<1>5. n \in Nat /\ n >= 1 /\ n <= level /\ n <= want /\ n \in 0 .. Size
  BY <1>2, <1>3
<1>6. level' \in 0 .. Size /\ level' < Size /\ want' \in 0 .. Most
  BY <1>3, <1>4, <1>5
<1>7. TypeOK'
  <2>1. rpos' \in Index
    BY <1>3, <1>4, <1>5, AdvanceType
  <2>2. buffer' \in Seq(Bytes)
    <3>1. Copied(rpos, n) \in Seq(Bytes)
      BY <1>1, <1>3, <1>5, CopiedType
    <3> QED
      BY <1>1, <1>4, <3>1, ConcatProperties DEF TypeOK
  <2>3. /\ wpc' \in {"idle", "call", "wait", "woken"}
        /\ rpc' \in {"idle", "call", "wait", "woken", "clear"}
        /\ loops' \in BOOLEAN /\ wpos' \in Index /\ ring' \in [Index -> Bytes]
        /\ todo' \in Seq(Bytes) /\ Len(todo') <= MaxNum
    BY <1>1, <1>4 DEF TypeOK
  <2> QED
    BY <1>6, <2>1, <2>2, <2>3 DEF TypeOK, Index, Most, Lesser
<1>8. InStep'
  <2>1. Advance(Advance(rpos, n), level - n) = Advance(rpos, n + (level - n))
    BY <1>3, <1>5, AdvanceTwice
  <2>2. n + (level - n) = level
    BY <1>3, <1>5
  <2>3. wpos' = Advance(rpos', level')
    BY <1>1, <1>4, <2>1, <2>2 DEF InStep
  <2> QED
    BY <2>3 DEF InStep, Advance
<1>9. NoVainWait'
  BY <1>1, <1>4, <1>6 DEF NoVainWait
<1>10. Busy'
  <2>1. rpc' \in {"call", "wait", "woken"} => want' > 0
    BY <1>3, <1>4, <1>5
  <2>2. wpc' = "idle" <=> todo' = <<>>
    BY <1>1, <1>4 DEF Busy
  <2> QED
    BY <2>1, <2>2 DEF Busy
<1> QED
  BY <1>7, <1>8, <1>9, <1>10 DEF QueueInv

-----------------------------------------------------------------------------
(* The invariant *)

LEMMA QueueInvInit == Init => QueueInv
<1> SUFFICES ASSUME Init PROVE QueueInv
  OBVIOUS
<1>1. TypeOK
  <2>1. <<>> \in Seq(Bytes) /\ Len(<<>>) = 0
    BY EmptySeq
  <2>2. ring \in [Index -> Bytes]
    BY DEF Init
  <2>3. 0 \in Index /\ 0 \in 0 .. Size /\ 0 \in 0 .. Most /\ 0 <= MaxNum
    BY QueueAssumption DEF Index, Most
  <2> QED
    BY <2>1, <2>2, <2>3 DEF Init, TypeOK
<1>2. InStep
  BY QueueAssumption DEF Init, InStep, Advance
<1>3. NoVainWait /\ Busy
  BY DEF Init, NoVainWait, Busy
<1> QED
  BY <1>1, <1>2, <1>3 DEF QueueInv

LEMMA QueueInvNext == QueueInv /\ [Next]_vars => QueueInv'
<1> SUFFICES ASSUME QueueInv, [Next]_vars PROVE QueueInv'
  OBVIOUS
<1> USE DEF QueueInv
<1> TypeOK /\ InStep /\ NoVainWait /\ Busy
  OBVIOUS
<1>1. CASE CallWrite
  <2>1. PICK num \in 1 .. MaxNum : todo' \in [1 .. num -> Bytes]
    BY <1>1 DEF CallWrite
  <2>2. num \in Nat /\ num >= 1 /\ num <= MaxNum
    BY QueueAssumption
  <2>3. todo' \in Seq(Bytes) /\ Len(todo') = num
    BY <2>1, <2>2
  <2>4. todo' # <<>>
    BY <2>2, <2>3
  <2>5. wpc' = "call" /\ UNCHANGED <<ringvars, readervars>>
    BY <1>1 DEF CallWrite
  <2>6. TypeOK'
    BY <2>2, <2>3, <2>5 DEF TypeOK, ringvars, readervars, Index, Most, Lesser
  <2>7. InStep' /\ NoVainWait' /\ Busy'
    BY <2>4, <2>5 DEF InStep, Advance, NoVainWait, Busy, ringvars, readervars
  <2> QED
    BY <2>6, <2>7
<1>2. CASE WriteSome
  <2>1. CASE level = Size
    <3>1. wpc = "call" /\ wpc' = "wait" /\ UNCHANGED <<ringvars, todo, readervars>>
      BY <1>2, <2>1 DEF WriteSome
    <3>2. TypeOK'
      BY <3>1 DEF TypeOK, ringvars, readervars, Index, Most, Lesser
    <3>3. InStep' /\ NoVainWait' /\ Busy'
      BY <2>1, <3>1 DEF InStep, Advance, NoVainWait, Busy, ringvars, readervars
    <3> QED
      BY <3>2, <3>3
  <2>2. CASE level # Size
    <3>1. level < Size
      BY <2>2, QueueAssumption DEF TypeOK
    <3>2. TransferIn /\ wpc # "idle"
      BY <1>2, <2>2 DEF WriteSome
    <3> QED
      BY <3>1, <3>2, TransferInKeeps
  <2> QED
    BY <2>1, <2>2
<1>3. CASE WriteOn
  <2>1. TransferIn /\ wpc # "idle" /\ level < Size
    BY <1>3 DEF WriteOn, NoVainWait
  <2> QED
    BY <2>1, TransferInKeeps
<1>4. CASE CallRead
  <2>1. /\ want' \in 1 .. MaxNum /\ loops' \in BOOLEAN /\ buffer' = <<>>
        /\ rpc' = "call" /\ UNCHANGED <<ringvars, writervars>>
    BY <1>4 DEF CallRead
  <2>2. <<>> \in Seq(Bytes)
    BY EmptySeq
  <2>3. want' \in 0 .. Most /\ want' > 0
    BY <2>1, QueueAssumption DEF Most, Lesser
  <2>4. TypeOK'
    BY <2>1, <2>2, <2>3 DEF TypeOK, ringvars, writervars, Index, Most, Lesser
  <2>5. InStep' /\ NoVainWait' /\ Busy'
    BY <2>1, <2>3 DEF InStep, Advance, NoVainWait, Busy, ringvars, writervars
  <2> QED
    BY <2>4, <2>5
<1>5. CASE CallClear
  <2>1. /\ want' = level /\ rpc' = "clear" /\ UNCHANGED <<ringvars, writervars, loops, buffer>>
    BY <1>5 DEF CallClear
  <2>2. want' \in 0 .. Most
    BY <2>1, QueueAssumption DEF TypeOK, Most, Lesser
  <2>3. TypeOK'
    BY <2>1, <2>2 DEF TypeOK, ringvars, writervars, Index, Most, Lesser
  <2>4. InStep' /\ NoVainWait' /\ Busy'
    BY <2>1 DEF InStep, Advance, NoVainWait, Busy, ringvars, writervars
  <2> QED
    BY <2>3, <2>4
<1>6. CASE ClearRead
  <2>1. /\ want' = level /\ loops' = TRUE /\ buffer' = <<>>
        /\ rpc' = IF level = 0 THEN "idle" ELSE "call"
        /\ UNCHANGED <<ringvars, writervars>>
    BY <1>6 DEF ClearRead
  <2>2. <<>> \in Seq(Bytes)
    BY EmptySeq
  <2>3. want' \in 0 .. Most /\ (level # 0 => want' > 0)
    BY <2>1, QueueAssumption DEF TypeOK, Most, Lesser
  <2>4. TypeOK'
    BY <2>1, <2>2, <2>3 DEF TypeOK, ringvars, writervars, Index, Most, Lesser
  <2>5. InStep' /\ NoVainWait' /\ Busy'
    BY <2>1, <2>3 DEF InStep, Advance, NoVainWait, Busy, ringvars, writervars
  <2> QED
    BY <2>4, <2>5
<1>7. CASE ReadSome
  <2>1. CASE level = 0
    <3>1. rpc = "call" /\ rpc' = "wait" /\ UNCHANGED <<ringvars, writervars, want, loops, buffer>>
      BY <1>7, <2>1 DEF ReadSome
    <3>2. TypeOK'
      BY <3>1 DEF TypeOK, ringvars, writervars, Index, Most, Lesser
    <3>3. InStep' /\ NoVainWait' /\ Busy'
      BY <2>1, <3>1 DEF InStep, Advance, NoVainWait, Busy, ringvars, writervars
    <3> QED
      BY <3>2, <3>3
  <2>2. CASE level # 0
    <3>1. level > 0
      BY <2>2, QueueAssumption DEF TypeOK
    <3>2. TransferOut /\ rpc \in {"call", "woken"}
      BY <1>7, <2>2 DEF ReadSome
    <3> QED
      BY <3>1, <3>2, TransferOutKeeps
  <2> QED
    BY <2>1, <2>2
<1>8. CASE ReadOn
  <2>1. TransferOut /\ rpc \in {"call", "woken"} /\ level > 0
    BY <1>8 DEF ReadOn, NoVainWait
  <2> QED
    BY <2>1, TransferOutKeeps
<1>9. CASE UNCHANGED vars
  BY <1>9 DEF vars, ringvars, writervars, readervars, TypeOK, InStep, NoVainWait,
              Busy, Advance, Index, Most, Lesser
<1> QED
  BY <1>1, <1>2, <1>3, <1>4, <1>5, <1>6, <1>7, <1>8, <1>9 DEF Next, Writer, Reader

\* Every reachable state satisfies the invariant.
THEOREM QueueIsSound == Spec => []QueueInv
<1>1. Init => QueueInv
  BY QueueInvInit
<1>2. QueueInv /\ [Next]_vars => QueueInv'
  BY QueueInvNext
<1> QED
  BY <1>1, <1>2, PTL DEF Spec

\* The variables keep their types: in particular the level never leaves 0 .. Size,
\* so that neither TransferIn nor TransferOut runs past the buffer.
THEOREM QueueTypeCorrect == Spec => []TypeOK
<1>1. QueueInv => TypeOK
  BY DEF QueueInv
<1> QED
  BY <1>1, QueueIsSound, PTL

\* The positions of RingBuffer stay exactly level bytes apart, however the
\* transfers wrap, for every size of the buffer and of the requests.
THEOREM PositionsInStep == Spec => []InStep
<1>1. QueueInv => InStep
  BY DEF QueueInv
<1> QED
  BY <1>1, QueueIsSound, PTL

\* No thread waits for what is there already, and a thread that was woken may
\* go on without testing the level again, as readSome() and writeSome() do.
THEOREM NobodyWaitsInVain == Spec => []NoVainWait
<1>1. QueueInv => NoVainWait
  BY DEF QueueInv
<1> QED
  BY <1>1, QueueIsSound, PTL

-----------------------------------------------------------------------------
(* The byte stream *)

\* A transfer into the queue appends what it moves to the content.
LEMMA TransferInPuts ==
  ASSUME QueueInv, QueueInv', TransferIn, wpc # "idle", level < Size
  PROVE  \E n \in 1 .. Size : Fifo!Put(n)
<1> DEFINE n    == Lesser(Size - level, Len(todo))
           part == SubSeq(todo, 1, n)
           old  == Copied(rpos, level)
           new  == Copied(rpos, level)'
<1>1. todo # <<>> /\ TypeOK /\ TypeOK' /\ InStep /\ Busy
  BY DEF QueueInv, Busy
<1>2. n \in 1 .. Size /\ n \in 0 .. Size - level /\ n \in 0 .. Len(todo)
  BY <1>1, TransferInAmount
<1>3. /\ rpos \in Index /\ level \in 0 .. Size /\ Size \in Nat
      /\ todo \in Seq(Bytes) /\ Len(todo) \in Nat
  BY <1>1, LenProperties, QueueAssumption DEF TypeOK
<1>4. /\ ring' = Overwritten(wpos, todo, n)
      /\ level' = level + n
      /\ todo' = SubSeq(todo, n + 1, Len(todo))
      /\ rpc' = IF level' > 0 /\ rpc = "wait" THEN "woken" ELSE rpc
      /\ UNCHANGED <<rpos, buffer>>
  BY DEF TransferIn
<1> HIDE DEF n
<1>5. /\ n \in Nat /\ n >= 1 /\ n <= Len(todo) /\ level + n <= Size
      /\ level + n \in 0 .. Size
  BY <1>2, <1>3
<1>6. part \in Seq(Bytes) /\ Len(part) = n /\ \A k \in 1 .. n : part[k] = todo[k]
  <2>1. \A k \in 1 .. n : todo[k] \in Bytes
    BY <1>3, <1>5, ElementOfSeq
  <2>2. 1 \in Int /\ n \in Int
    BY <1>5
  <2>3. /\ part \in Seq(Bytes)
        /\ Len(part) = IF 1 <= n THEN n - 1 + 1 ELSE 0
        /\ \A k \in 1 .. n - 1 + 1 : part[k] = todo[1 + k - 1]
    BY <2>1, <2>2, SubSeqProperties
  <2> HIDE DEF part
  <2> QED
    BY <1>5, <2>3
<1>7. /\ old \in Seq(Bytes) /\ Len(old) = level
      /\ \A k \in 1 .. level : old[k] = ring[Advance(rpos, k - 1)]
  BY <1>1, <1>3, CopiedType
<1>8. new = [k \in 1 .. level + n |-> Overwritten(wpos, todo, n)[Advance(rpos, k - 1)]]
  BY <1>4 DEF Copied, Advance
<1>9. \A k \in 1 .. level + n :
        new[k] = IF k <= level THEN ring[Advance(rpos, k - 1)] ELSE todo[k - level]
  <2> TAKE k \in 1 .. level + n
  <2>1. Overwritten(wpos, todo, n)[Advance(rpos, k - 1)]
          = IF k <= level THEN ring[Advance(rpos, k - 1)] ELSE todo[k - level]
    BY <1>1, <1>2, <1>5, OverwrittenAppends
  <2> QED
    BY <1>8, <2>1
<1>10. new \in Seq(Bytes) /\ Len(new) = level + n
  <2>1. ring' \in [Index -> Bytes] /\ rpos' \in Index /\ rpos' = rpos
    BY <1>1, <1>4 DEF TypeOK, Index
  <2>2. ASSUME NEW k \in 1 .. level + n
        PROVE  ring'[Advance(rpos, k - 1)] \in Bytes
    <3>1. k - 1 \in 0 .. Size
      BY <1>3, <1>5
    <3> QED
      BY <1>3, <2>1, <3>1, AdvanceType
  <2>3. new \in [1 .. level + n -> Bytes]
    BY <1>4, <1>8, <2>2
  <2>4. level + n \in Nat
    BY <1>3, <1>5
  <2> HIDE DEF new
  <2> QED
    BY <2>3, <2>4
<1> HIDE DEF part, old, new
<1>11. new = old \o part
  <2>1. /\ old \o part \in Seq(Bytes) /\ Len(old \o part) = level + n
        /\ \A k \in 1 .. level + n :
             (old \o part)[k] = IF k <= level THEN old[k] ELSE part[k - level]
    BY <1>6, <1>7, ConcatProperties
  <2>2. ASSUME NEW k \in 1 .. level + n
        PROVE  new[k] = (old \o part)[k]
    <3>1. CASE k <= level
      <4>1. k \in 1 .. level
        BY <1>3, <3>1
      <4> QED
        BY <1>7, <1>9, <2>1, <3>1, <4>1
    <3>2. CASE ~(k <= level)
      <4>1. k - level \in 1 .. n
        BY <1>3, <1>5, <3>2
      <4> QED
        BY <1>6, <1>9, <2>1, <3>2, <4>1
    <3> QED
      BY <3>1, <3>2
  <2> QED
    BY <1>10, <2>1, <2>2, SeqEqual
<1>12. Fifo!Put(n)
  <2>1. n <= Len(todo) /\ Len(old) + n <= Size
    BY <1>5, <1>7
  <2>2. (rpc \in {"call", "wait", "woken"})' = (rpc \in {"call", "wait", "woken"})
    BY <1>4
  <2> QED
    BY <1>4, <1>11, <2>1, <2>2 DEF Fifo!Put, part, old, new
<1> QED
  BY <1>2, <1>12

\* A transfer out of the queue takes the head of the content.
LEMMA TransferOutGets ==
  ASSUME QueueInv, TransferOut, rpc \in {"call", "woken"}, level > 0
  PROVE  \E n \in 1 .. Size : Fifo!Get(n)
<1> DEFINE n == Lesser(level, want)
<1>1. want > 0 /\ TypeOK
  BY DEF QueueInv, Busy
<1>2. n \in 1 .. Size /\ n \in 0 .. level
  BY <1>1, TransferOutAmount
<1>3. rpos \in Index /\ level \in 0 .. Size /\ Size \in Nat
  BY <1>1, QueueAssumption DEF TypeOK
<1>4. /\ buffer' = buffer \o Copied(rpos, n)
      /\ rpos' = Advance(rpos, n)
      /\ level' = level - n
      /\ UNCHANGED <<ring, todo>>
  BY DEF TransferOut
<1> HIDE DEF n
<1>5. /\ SubSeq(Copied(rpos, level), 1, n) = Copied(rpos, n)
      /\ SubSeq(Copied(rpos, level), n + 1, level) = Copied(Advance(rpos, n), level - n)
  BY <1>1, <1>2, <1>3, CopiedSplits
<1>6. Copied(rpos, level)' = Copied(Advance(rpos, n), level - n)
  BY <1>4 DEF Copied, Advance
<1>7. Len(Copied(rpos, level)) = level
  BY <1>1, <1>3, CopiedType
<1>8. Fifo!Get(n)
  <2>1. n <= Len(Copied(rpos, level))
    BY <1>2, <1>3, <1>7
  <2>2. (rpc \in {"call", "wait", "woken"})' \in BOOLEAN
    OBVIOUS
  <2> QED
    BY <1>4, <1>5, <1>6, <1>7, <2>1, <2>2 DEF Fifo!Get
<1> QED
  BY <1>2, <1>8

LEMMA InitIsInit == Init => Fifo!Init
<1> SUFFICES ASSUME Init PROVE Fifo!Init
  OBVIOUS
<1>1. TypeOK /\ rpos \in Index /\ level = 0 /\ level \in 0 .. Size
  BY QueueInvInit DEF QueueInv, TypeOK, Init
<1>2. Copied(rpos, level) \in Seq(Bytes) /\ Len(Copied(rpos, level)) = 0
  BY <1>1, CopiedType
<1>3. Copied(rpos, level) = <<>>
  BY <1>2, EmptySeq
<1> QED
  BY <1>3 DEF Init, Fifo!Init

\* Each step of the queue is a step of the byte stream, or none.
LEMMA StepIsStep == QueueInv /\ QueueInv' /\ [Next]_vars => [Fifo!Next]_(Fifo!fifovars)
<1> SUFFICES ASSUME QueueInv, QueueInv', [Next]_vars
             PROVE  Fifo!Next \/ UNCHANGED Fifo!fifovars
  OBVIOUS
<1>1. TypeOK /\ NoVainWait /\ Busy /\ TypeOK'
  BY DEF QueueInv
<1>2. ASSUME UNCHANGED ringvars
      PROVE  Copied(rpos, level)' = Copied(rpos, level)
  BY <1>2 DEF ringvars, Copied, Advance
<1>3. CASE CallWrite
  <2>1. PICK num \in 1 .. MaxNum : todo' \in [1 .. num -> Bytes]
    BY <1>3 DEF CallWrite
  <2>2. num \in Nat /\ num >= 1
    BY QueueAssumption
  <2>3. todo' \in Seq(Bytes) /\ Len(todo') = num
    BY <2>1, <2>2
  <2>4. todo' # <<>>
    BY <2>2, <2>3
  <2>5. todo = <<>> /\ UNCHANGED <<ringvars, readervars>>
    BY <1>1, <1>3 DEF CallWrite, Busy
  <2>6. Fifo!CallWrite
    BY <1>2, <2>3, <2>4, <2>5 DEF Fifo!CallWrite, readervars
  <2> QED
    BY <2>6 DEF Fifo!Next
<1>4. CASE WriteSome
  <2>1. CASE level = Size
    <3>1. UNCHANGED <<ringvars, todo, readervars>>
      BY <1>4, <2>1 DEF WriteSome
    <3> QED
      BY <1>2, <3>1 DEF Fifo!fifovars, readervars
  <2>2. CASE level # Size
    <3>1. level < Size
      BY <1>1, <2>2, QueueAssumption DEF TypeOK
    <3>2. TransferIn /\ wpc # "idle"
      BY <1>4, <2>2 DEF WriteSome
    <3> QED
      BY <3>1, <3>2, TransferInPuts DEF Fifo!Next
  <2> QED
    BY <2>1, <2>2
<1>5. CASE WriteOn
  <2>1. TransferIn /\ wpc # "idle" /\ level < Size
    BY <1>1, <1>5 DEF WriteOn, NoVainWait
  <2> QED
    BY <2>1, TransferInPuts DEF Fifo!Next
<1>6. CASE CallRead
  <2>1. rpc = "idle" /\ rpc' = "call" /\ buffer' = <<>> /\ UNCHANGED <<ringvars, writervars>>
    BY <1>6 DEF CallRead
  <2>2. Fifo!CallRead
    BY <1>2, <2>1 DEF Fifo!CallRead, writervars
  <2> QED
    BY <2>2 DEF Fifo!Next
<1>7. CASE CallClear
  <2>1. rpc = "idle" /\ rpc' = "clear" /\ UNCHANGED <<ringvars, writervars, buffer>>
    BY <1>7 DEF CallClear
  <2> QED
    BY <1>2, <2>1 DEF Fifo!fifovars, writervars
<1>8. CASE ClearRead
  <2>1. /\ rpc = "clear" /\ rpc' \in {"idle", "call"} /\ buffer' = <<>>
        /\ UNCHANGED <<ringvars, writervars>>
    BY <1>8 DEF ClearRead
  <2>2. Fifo!CallRead
    BY <1>2, <2>1 DEF Fifo!CallRead, writervars
  <2> QED
    BY <2>2 DEF Fifo!Next
<1>9. CASE ReadSome
  <2>1. CASE level = 0
    <3>1. rpc = "call" /\ rpc' = "wait" /\ UNCHANGED <<ringvars, writervars, buffer>>
      BY <1>9, <2>1 DEF ReadSome
    <3> QED
      BY <1>2, <3>1 DEF Fifo!fifovars, writervars
  <2>2. CASE level # 0
    <3>1. level > 0
      BY <1>1, <2>2, QueueAssumption DEF TypeOK
    <3>2. TransferOut /\ rpc \in {"call", "woken"}
      BY <1>9, <2>2 DEF ReadSome
    <3> QED
      BY <3>1, <3>2, TransferOutGets DEF Fifo!Next
  <2> QED
    BY <2>1, <2>2
<1>10. CASE ReadOn
  <2>1. TransferOut /\ rpc \in {"call", "woken"} /\ level > 0
    BY <1>1, <1>10 DEF ReadOn, NoVainWait
  <2> QED
    BY <2>1, TransferOutGets DEF Fifo!Next
<1>11. CASE UNCHANGED vars
  BY <1>2, <1>11 DEF Fifo!fifovars, vars, writervars, readervars
<1> QED
  BY <1>3, <1>4, <1>5, <1>6, <1>7, <1>8, <1>9, <1>10, <1>11 DEF Next, Writer, Reader

\* ByteQueue implements the blocking byte stream of AvStream.h: every byte that
\* was written is read once and in order, and no reader is told that nothing
\* could be read, for every size of the queue and however the two sides split
\* their transfers.
THEOREM QueueImplementsFifo == Spec => ImplementsFifo
<1>1. Init => Fifo!Init
  BY InitIsInit
<1>2. QueueInv /\ QueueInv' /\ [Next]_vars => [Fifo!Next]_(Fifo!fifovars)
  BY StepIsStep
<1> QED
  BY <1>1, <1>2, QueueIsSound, PTL DEF Spec, ImplementsFifo, Fifo!Spec

=============================================================================
