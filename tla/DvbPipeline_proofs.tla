------------------------- MODULE DvbPipeline_proofs -------------------------
(***************************************************************************)
(* Proofs about DvbPipeline, for any number of services, clones, streams   *)
(* and packets, and any size of the queues.                                *)
(***************************************************************************)
EXTENDS DvbPipeline, FiniteSetTheorems, TLAPS

\* The stop of instance i has queued the sentinel and not yet flushed it.
Stopping(i) == srv.pc \in {"told", "joined"} /\ srv.at = i

\* Who works on something has got it.
Occupied ==
  /\ srv.pc # "idle" => srv.at \in Instances
  /\ srv.pc = "joined" => thread[srv.at] = "none"
  /\ walk.pc = "put" => walk.target \in Instances
  /\ walk.pc \in {"next", "give", "put"} => walk.packet \in Packets
  /\ \A i \in Instances : thread[i] = "write" => held[i] \in Packets

\* Queues: only a stop puts more into one than it has room for, only then it
\* holds a sentinel, and only a thread that has something to take is woken.
Queued ==
  /\ \A i \in Instances : Len(queue[i]) <= QueueSize \/ Stopping(i)
  /\ \A i \in Instances : \A k \in DOMAIN queue[i] : queue[i][k] = Sentinel => Stopping(i)
  /\ \A i \in Instances : thread[i] = "woken" => queue[i] # <<>>

\* The list names an instance once, and those only which are in use.
Listed ==
  /\ \A j, k \in DOMAIN services : services[j] = services[k] => j = k
  /\ \A k \in DOMAIN services : services[k][2] <= clones[services[k][1]]
  /\ srv.pc \in {"erased", "told", "joined"} => Places(srv.at) = {}
  /\ \A i \in Instances :
       Places(i) = {} => thread[i] = "none" \/ (srv.pc \in {"erased", "told"} /\ srv.at = i)

\* No two streams share the instance of a service that was never cloned.
Apart ==
  \A g, h \in Handles :
    handles[g] = handles[h] /\ handles[g] # Closed /\ clones[handles[g][1]] = 0 => g = h

PipelineInv == TypeOK /\ Occupied /\ Queued /\ NoEmptyFront /\ Listed /\ Apart /\ Served

-----------------------------------------------------------------------------
(* Instances, and packets in a queue *)

LEMMA InstanceFacts ==
  ASSUME NEW i \in Instances
  PROVE  /\ i # Closed
         /\ i[1] \in Names /\ i[2] \in 0 .. MaxClones /\ i = <<i[1], i[2]>>
         /\ Original(i) \in Instances
BY PipelineAssumption DEF Instances, Closed, Original

LEMMA MadeInstance ==
  ASSUME NEW n \in Names, NEW k \in 0 .. MaxClones
  PROVE  <<n, k>> \in Instances /\ <<n, k>>[1] = n /\ <<n, k>>[2] = k
BY DEF Instances

LEMMA OccurrencesCount ==
  ASSUME NEW q \in Seq(Packets \cup {Sentinel}), NEW p \in Packets
  PROVE  Cardinality(Occurrences(q, p)) \in Nat
<1>1. DOMAIN q = 1 .. Len(q) /\ Len(q) \in Nat
  OBVIOUS
<1>2. IsFiniteSet(1 .. Len(q))
  BY <1>1, FS_Interval
<1>3. Occurrences(q, p) \subseteq 1 .. Len(q)
  BY <1>1 DEF Occurrences
<1>4. IsFiniteSet(Occurrences(q, p))
  BY <1>2, <1>3, FS_Subset
<1> QED
  BY <1>4, FS_CardinalityType

-----------------------------------------------------------------------------
(* The invariant holds at first *)

LEMMA PipelineInit == Init => PipelineInv
<1> SUFFICES ASSUME Init PROVE PipelineInv
  OBVIOUS
<1> USE PipelineAssumption
<1>1. TypeOK
  BY DEF Init, TypeOK, Walks, Jobs, Closed, Sentinel, Packets
<1>2. Occupied /\ Queued
  BY DEF Init, Occupied, Queued
<1>3. Listed /\ Apart
  BY DEF Init, Listed, Apart, Places
<1>4. NoEmptyFront /\ Served
  BY DEF Init, NoEmptyFront, Served
<1> QED
  BY <1>1, <1>2, <1>3, <1>4 DEF PipelineInv

-----------------------------------------------------------------------------
(* Types *)

\* One queue changes, and one byte queue.
LEMMA QueueChange ==
  ASSUME TypeOK, NEW i \in Instances, NEW s \in Seq(Packets \cup {Sentinel}),
         Len(s) <= QueueSize + 1, queue' = [queue EXCEPT ![i] = s]
  PROVE  /\ queue' \in [Instances -> Seq(Packets \cup {Sentinel})]
         /\ \A j \in Instances : Len(queue'[j]) <= QueueSize + 1
BY DEF TypeOK

LEMMA BytesChange ==
  ASSUME TypeOK, NEW i \in Instances, NEW s \in Seq(Packets),
         Len(s) <= BqSize, bytes' = [bytes EXCEPT ![i] = s]
  PROVE  /\ bytes' \in [Instances -> Seq(Packets)]
         /\ \A j \in Instances : Len(bytes'[j]) <= BqSize
BY DEF TypeOK

\* The read thread's record is of its type, whatever field changes.
LEMMA WalkFacts ==
  ASSUME TypeOK
  PROVE  /\ walk.pc \in {"head", "read", "next", "give", "put"}
         /\ walk.packet \in 0 .. MaxPackets /\ walk.takers \in SUBSET Names
         /\ walk.pos \in Nat \ {0} /\ walk.moved \in BOOLEAN
         /\ walk.target \in Instances \cup {Closed}
         /\ walk = [pc |-> walk.pc, packet |-> walk.packet, takers |-> walk.takers,
                    pos |-> walk.pos, moved |-> walk.moved, target |-> walk.target]
BY DEF TypeOK, Walks

LEMMA WalkMade ==
  ASSUME NEW pc \in {"head", "read", "next", "give", "put"}, NEW k \in 0 .. MaxPackets,
         NEW takers \in SUBSET Names, NEW pos \in Nat \ {0}, NEW moved \in BOOLEAN,
         NEW i \in Instances \cup {Closed}
  PROVE  [pc |-> pc, packet |-> k, takers |-> takers, pos |-> pos, moved |-> moved,
          target |-> i] \in Walks
BY DEF Walks

\* The sentences of TypeOK about each variable, with the bounds of the queues.
LEMMA TypeStep == PipelineInv /\ [Next]_vars => TypeOK'
<1> SUFFICES ASSUME PipelineInv, [Next]_vars PROVE TypeOK'
  OBVIOUS
<1> USE PipelineAssumption DEF PipelineInv
<1>0. ASSUME NEW f \in {"packet", "iterator", "front"}, Fault(f) PROVE TypeOK'
  BY <1>0 DEF Fault, TypeOK
<1>1. CASE ReadHead
  BY <1>1 DEF ReadHead, streamvars, TypeOK, Walks
<1>2. CASE GetPacket
  <2>1. walk.packet + 1 \in 0 .. MaxPackets
    <3>1. walk.packet \in 0 .. MaxPackets /\ walk.packet < MaxPackets
      BY <1>2, WalkFacts DEF GetPacket
    <3> QED
      BY <3>1
  <2>2. PICK takers \in SUBSET Names :
          walk' = [walk EXCEPT !.pc = "next", !.packet = @ + 1, !.takers = takers,
                               !.pos = 1, !.moved = FALSE]
    BY <1>2 DEF GetPacket
  <2> QED
    <3>1. walk' = [pc |-> "next", packet |-> walk.packet + 1, takers |-> takers, pos |-> 1,
                   moved |-> FALSE, target |-> walk.target]
      BY <2>2, WalkFacts
    <3>2. walk' \in Walks
      <4>1. 1 \in Nat \ {0} /\ FALSE \in BOOLEAN /\ "next" \in {"head", "read", "next", "give", "put"}
        OBVIOUS
      <4> QED
        BY <2>1, <3>1, <4>1, WalkFacts, WalkMade
    <3> QED
      BY <1>2, <3>2 DEF GetPacket, streamvars, TypeOK
<1>3. CASE WalkNext
  <2>1. CASE Fault("iterator") \/ Fault("packet")
    BY <1>0, <2>1
  <2>2. CASE ~Freed(walk.packet) /\ walk.pc = "next" /\ DecRef(walk.packet)
             /\ walk' = [walk EXCEPT !.pc = "head", !.takers = {}, !.pos = 1]
             /\ UNCHANGED <<streamvars, queue, bytes, running, thread, held, srv, fault, mishaps>>
    <3>1. walk' \in Walks
      <4>1. 1 \in Nat \ {0} /\ {} \in SUBSET Names
        OBVIOUS
      <4> QED
        BY <2>2, <4>1 DEF TypeOK, Walks
    <3>2. walk.packet \in Packets /\ ref[walk.packet] > 0
      BY <2>2 DEF Occupied, Freed, TypeOK
    <3> QED
      BY <2>2, <3>1, <3>2 DEF DecRef, streamvars, TypeOK
  <2>3. CASE walk' = (IF services[walk.pos][1] \in walk.takers
                        THEN [walk EXCEPT !.pc = "give"] ELSE [walk EXCEPT !.pos = @ + 1])
             /\ UNCHANGED <<streamvars, queue, bytes, running, thread, held, ref, srv, fault, mishaps>>
    <3>1. walk.pos + 1 \in Nat \ {0}
      BY WalkFacts
    <3>2. walk' \in Walks
      <4>1. CASE walk' = [walk EXCEPT !.pc = "give"]
        BY <4>1 DEF TypeOK, Walks
      <4>2. CASE walk' = [walk EXCEPT !.pos = @ + 1]
        BY <3>1, <4>2 DEF TypeOK, Walks
      <4> QED
        BY <2>3, <4>1, <4>2
    <3> QED
      BY <2>3, <3>2 DEF streamvars, TypeOK
  <2> QED
    BY <1>3, <2>1, <2>2, <2>3 DEF WalkNext
<1>4. CASE WalkGive
  <2>1. CASE Fault("iterator")
    BY <1>0, <2>1
  <2>2. CASE ~Fault("iterator")
    <3>1. services[walk.pos] \in Instances
      BY <1>4, <2>2, WalkFacts DEF WalkGive, Astray, TypeOK
    <3> QED
      <4>1. walk' = [walk EXCEPT !.pc = "put", !.target = services[walk.pos]]
            /\ UNCHANGED <<streamvars, queue, bytes, running, thread, held, ref, srv,
                           fault, mishaps>>
        BY <1>4, <2>2 DEF WalkGive
      <4>2. walk' \in Walks
        BY <3>1, <4>1 DEF TypeOK, Walks
      <4> QED
        BY <4>1, <4>2 DEF streamvars, TypeOK
  <2> QED
    BY <2>1, <2>2
<1>5. CASE QueueTsPacket
  <2>1. CASE Fault("packet")
    BY <1>0, <2>1
  <2>2. CASE ~Fault("packet")
    <3> DEFINE p == walk.packet
               i == walk.target
    <3>1. p \in Packets /\ i \in Instances /\ ref[p] > 0
      BY <1>5, <2>2 DEF QueueTsPacket, Occupied, Freed, TypeOK
    <3>2. walk' = [walk EXCEPT !.pc = "next", !.pos = @ + 1, !.target = Closed]
          /\ UNCHANGED <<streamvars, bytes, running, held, srv, fault>>
      BY <1>5, <2>2 DEF QueueTsPacket
    <3>5. walk' \in Walks
      <4>1. walk.pos + 1 \in Nat \ {0}
        BY WalkFacts
      <4> QED
        BY <3>2, <4>1 DEF TypeOK, Walks
    <3> HIDE DEF p, i
    <3>3. CASE Len(queue[i]) < QueueSize
      <4>1. ref' = [ref EXCEPT ![p] = @ + 1] /\ queue' = [queue EXCEPT ![i] = Append(@, p)]
            /\ thread' = Wakened(i) /\ UNCHANGED mishaps
        BY <1>5, <2>2, <3>3 DEF QueueTsPacket, IncRef, p, i
      <4>2. Append(queue[i], p) \in Seq(Packets \cup {Sentinel})
            /\ Len(Append(queue[i], p)) = Len(queue[i]) + 1
        BY <3>1 DEF TypeOK
      <4>3. thread' \in [Instances -> {"none", "test", "get", "wait", "woken", "write", "ended"}]
        BY <4>1 DEF Wakened, TypeOK
      <4>4. queue' \in [Instances -> Seq(Packets \cup {Sentinel})]
            /\ \A j \in Instances : Len(queue'[j]) <= QueueSize + 1
        <5>1. Len(queue[i]) \in Nat
          BY <3>1 DEF TypeOK
        <5>2. Len(Append(queue[i], p)) <= QueueSize + 1
          BY <3>3, <4>2, <5>1
        <5> QED
          BY <3>1, <4>1, <4>2, <5>2, QueueChange
      <4>5. ref' \in [Packets -> Nat]
        BY <3>1, <4>1 DEF TypeOK
      <4> QED
        BY <3>2, <3>5, <4>1, <4>3, <4>4, <4>5 DEF streamvars, TypeOK
    <3>4. CASE ~(Len(queue[i]) < QueueSize)
      <4>1. ref' = [ref EXCEPT ![p] = @ - 1] /\ mishaps' = mishaps \cup {"full"}
            /\ UNCHANGED <<queue, thread>>
        BY <1>5, <2>2, <3>4 DEF QueueTsPacket, DecRef, p, i
      <4> QED
        <5>1. ref' \in [Packets -> Nat]
          BY <3>1, <4>1 DEF TypeOK
        <5> QED
          BY <3>2, <3>5, <4>1, <5>1 DEF streamvars, TypeOK
    <3> QED
      BY <3>3, <3>4
  <2> QED
    BY <2>1, <2>2
<1>6. ASSUME NEW i \in Instances, QueueThread(i) PROVE TypeOK'
  <2>1. CASE QueueTest(i)
    BY <2>1 DEF QueueTest, streamvars, TypeOK
  <2>2. ASSUME queue[i] # <<>>, Pop(i) PROVE TypeOK'
    <3>1. Head(queue[i]) \in Packets \cup {Sentinel}
          /\ Tail(queue[i]) \in Seq(Packets \cup {Sentinel})
          /\ Len(Tail(queue[i])) = Len(queue[i]) - 1
      BY <2>2 DEF TypeOK
    <3>2. queue' \in [Instances -> Seq(Packets \cup {Sentinel})]
          /\ \A j \in Instances : Len(queue'[j]) <= QueueSize + 1
      BY <2>2, <3>1 DEF Pop, TypeOK
    <3>3. thread' \in [Instances -> {"none", "test", "get", "wait", "woken", "write", "ended"}]
      BY <2>2 DEF Pop, TypeOK
    <3> QED
      BY <2>2, <3>1, <3>2, <3>3 DEF Pop, streamvars, TypeOK
  <2>3. CASE QueueGet(i)
    <3>1. CASE queue[i] = <<>>
      BY <2>3, <3>1 DEF QueueGet, streamvars, TypeOK
    <3> QED
      BY <2>2, <2>3, <3>1 DEF QueueGet
  <2>4. CASE QueueGoOn(i)
    BY <1>0, <2>2, <2>4 DEF QueueGoOn
  <2>5. CASE QueueWrite(i)
    <3>1. CASE Fault("packet")
      BY <1>0, <3>1
    <3>2. CASE ~Fault("packet")
      <4>1. held[i] \in Packets /\ ref[held[i]] > 0
        BY <2>5, <3>2 DEF QueueWrite, Freed, Occupied, TypeOK
      <4>2. Append(bytes[i], held[i]) \in Seq(Packets)
            /\ Len(Append(bytes[i], held[i])) = Len(bytes[i]) + 1
        BY <4>1 DEF TypeOK
      <4>3. bytes' \in [Instances -> Seq(Packets)] /\ \A j \in Instances : Len(bytes'[j]) <= BqSize
        <5>1. Len(bytes[i]) \in Nat /\ Len(bytes[i]) < BqSize
          BY <2>5 DEF QueueWrite, TypeOK
        <5>2. Len(Append(bytes[i], held[i])) <= BqSize
          BY <4>2, <5>1
        <5> QED
          BY <2>5, <3>2, <4>2, <5>2, BytesChange DEF QueueWrite
      <4> QED
        <5>1. ref' \in [Packets -> Nat]
          <6>1. ref' = [ref EXCEPT ![held[i]] = @ - 1]
            BY <2>5, <3>2 DEF QueueWrite, DecRef
          <6>2. ref \in [Packets -> Nat] /\ ref[held[i]] - 1 \in Nat
            BY <4>1 DEF TypeOK
          <6> QED
            BY <4>1, <6>1, <6>2
        <5> QED
          BY <2>5, <3>2, <4>3, <5>1 DEF QueueWrite, streamvars, TypeOK
    <3> QED
      BY <3>1, <3>2
  <2> QED
    BY <1>6, <2>1, <2>3, <2>4, <2>5 DEF QueueThread
<1>7. ASSUME NEW h \in Handles, Open(h) PROVE TypeOK'
  <2>1. PICK n \in Names :
          LET cloned == Places(<<n, 0>>) # {}
              i == IF cloned THEN <<n, clones[n] + 1>> ELSE <<n, 0>>
          IN /\ cloned => clones[n] < MaxClones
             /\ clones' = IF cloned THEN [clones EXCEPT ![n] = @ + 1] ELSE clones
             /\ services' = Append(services, i)
             /\ handles' = [handles EXCEPT ![h] = i]
             /\ IF thread[i] = "none"
                  THEN /\ running' = [running EXCEPT ![i] = TRUE]
                       /\ thread' = [thread EXCEPT ![i] = "test"]
                  ELSE UNCHANGED <<running, thread>>
    BY <1>7 DEF Open
  <2> DEFINE cloned == Places(<<n, 0>>) # {}
             i == IF cloned THEN <<n, clones[n] + 1>> ELSE <<n, 0>>
  <2>2. i \in Instances /\ clones' \in [Names -> 0 .. MaxClones]
    <3>1. CASE cloned
      <4>1. clones[n] \in 0 .. MaxClones /\ clones[n] < MaxClones
        BY <2>1, <3>1 DEF TypeOK
      <4>2. clones[n] + 1 \in 0 .. MaxClones
        BY <4>1
      <4>3. clones' = [clones EXCEPT ![n] = @ + 1] /\ i = <<n, clones[n] + 1>>
        BY <2>1, <3>1
      <4> QED
        BY <4>2, <4>3, MadeInstance DEF TypeOK
    <3>2. CASE ~cloned
      <4>1. 0 \in 0 .. MaxClones
        OBVIOUS
      <4> QED
        BY <2>1, <3>2, <4>1, MadeInstance DEF TypeOK
    <3> QED
      BY <3>1, <3>2
  <2>3. /\ clones' = IF cloned THEN [clones EXCEPT ![n] = @ + 1] ELSE clones
        /\ services' = Append(services, i)
        /\ handles' = [handles EXCEPT ![h] = i]
        /\ IF thread[i] = "none"
             THEN /\ running' = [running EXCEPT ![i] = TRUE]
                  /\ thread' = [thread EXCEPT ![i] = "test"]
             ELSE UNCHANGED <<running, thread>>
    BY <2>1
  <2> HIDE DEF i
  <2>5. services' \in Seq(Instances) /\ handles' \in [Handles -> Instances \cup {Closed}]
    BY <2>2, <2>3 DEF TypeOK
  <2>6. /\ running' \in [Instances -> BOOLEAN]
        /\ thread' \in [Instances -> {"none", "test", "get", "wait", "woken", "write", "ended"}]
    BY <2>2, <2>3 DEF TypeOK
  <2>4. walk' \in {[walk EXCEPT !.moved = @ \/ moved] : moved \in BOOLEAN}
        /\ UNCHANGED <<queue, bytes, held, ref, srv, fault, mishaps>>
    BY <1>7 DEF Open
  <2>7. walk' \in Walks
    <3>1. PICK moved \in BOOLEAN : walk' = [walk EXCEPT !.moved = @ \/ moved]
      BY <2>4
    <3>2. (walk.moved \/ moved) \in BOOLEAN
      OBVIOUS
    <3>3. walk' = [pc |-> walk.pc, packet |-> walk.packet, takers |-> walk.takers,
                   pos |-> walk.pos, moved |-> (walk.moved \/ moved), target |-> walk.target]
      BY <3>1, WalkFacts, Zenon
    <3> QED
      BY <3>2, <3>3, WalkFacts, WalkMade, Zenon
  <2> QED
    BY <2>2, <2>4, <2>5, <2>6, <2>7 DEF TypeOK
<1>8. ASSUME NEW h \in Handles, Read(h) PROVE TypeOK'
  BY <1>8 DEF Read, streamvars, Jobs, TypeOK
<1>9. ASSUME NEW h \in Handles, Close(h) PROVE TypeOK'
  <2>1. handles[h] \in Instances /\ Original(handles[h]) \in Instances
    BY <1>9, InstanceFacts DEF Close, TypeOK
  <2>2. ASSUME NEW k \in DOMAIN services PROVE Erased(k) \in Seq(Instances)
    <3>1. Len(services) - 1 \in Nat /\ DOMAIN services = 1 .. Len(services)
      BY <2>2 DEF TypeOK
    <3>2. ASSUME NEW j \in 1 .. Len(services) - 1
          PROVE  (IF j < k THEN services[j] ELSE services[j + 1]) \in Instances
      BY <2>2, <3>1 DEF TypeOK
    <3>3. Erased(k) \in [1 .. Len(services) - 1 -> Instances]
      BY <3>2 DEF Erased
    <3> QED
      BY <3>1, <3>3
  <2>3. services' \in Seq(Instances)
    BY <1>9, <2>2 DEF Close, Places, TypeOK
  <2> QED
    BY <1>9, <2>1, <2>3 DEF Close, Jobs, TypeOK
<1>10. CASE ReadSome
  <2>1. PICK k \in DOMAIN bytes[srv.at] :
          bytes' = [bytes EXCEPT ![srv.at] = SubSeq(@, k + 1, Len(@))]
    BY <1>10 DEF ReadSome
  <2>2. srv.at \in Instances /\ bytes[srv.at] \in Seq(Packets)
    BY <1>10 DEF ReadSome, Occupied, TypeOK
  <2>3. SubSeq(bytes[srv.at], k + 1, Len(bytes[srv.at])) \in Seq(Packets)
        /\ Len(SubSeq(bytes[srv.at], k + 1, Len(bytes[srv.at]))) \in Nat
        /\ Len(SubSeq(bytes[srv.at], k + 1, Len(bytes[srv.at]))) <= Len(bytes[srv.at])
    BY <2>2
  <2>4. bytes' \in [Instances -> Seq(Packets)] /\ \A j \in Instances : Len(bytes'[j]) <= BqSize
    <3>1. Len(bytes[srv.at]) <= BqSize /\ Len(bytes[srv.at]) \in Nat
      BY <2>2 DEF TypeOK
    <3>2. Len(SubSeq(bytes[srv.at], k + 1, Len(bytes[srv.at]))) <= BqSize
      BY <2>3, <3>1
    <3> QED
      BY <2>1, <2>2, <2>3, <3>2, BytesChange
  <2> QED
    BY <1>10, <2>4 DEF ReadSome, streamvars, Jobs, TypeOK
<1>11. CASE StopQueueThread
  <2>1. srv.at \in Instances /\ Len(queue[srv.at]) <= QueueSize
    BY <1>11 DEF StopQueueThread, Occupied, Queued, Stopping
  <2>2. Append(queue[srv.at], Sentinel) \in Seq(Packets \cup {Sentinel})
        /\ Len(Append(queue[srv.at], Sentinel)) = Len(queue[srv.at]) + 1
    BY <2>1 DEF TypeOK
  <2>3. queue' \in [Instances -> Seq(Packets \cup {Sentinel})]
        /\ \A j \in Instances : Len(queue'[j]) <= QueueSize + 1
    <3>1. Len(queue[srv.at]) \in Nat
      BY <2>1 DEF TypeOK
    <3>2. Len(Append(queue[srv.at], Sentinel)) <= QueueSize + 1
      BY <2>1, <2>2, <3>1
    <3> QED
      BY <1>11, <2>1, <2>2, <3>2, QueueChange DEF StopQueueThread
  <2>4. bytes' \in [Instances -> Seq(Packets)] /\ \A j \in Instances : Len(bytes'[j]) <= BqSize
    <3>1. <<>> \in Seq(Packets) /\ Len(<<>>) <= BqSize
      OBVIOUS
    <3> QED
      BY <1>11, <2>1, <3>1, BytesChange DEF StopQueueThread
  <2>5. thread' \in [Instances -> {"none", "test", "get", "wait", "woken", "write", "ended"}]
    BY <1>11 DEF StopQueueThread, Wakened, TypeOK
  <2> QED
    BY <1>11, <2>3, <2>4, <2>5 DEF StopQueueThread, streamvars, Jobs, TypeOK
<1>12. CASE WaitForStopQueueThread
  BY <1>12 DEF WaitForStopQueueThread, streamvars, Jobs, TypeOK
<1>13. CASE Flush
  <2> DEFINE q == queue[srv.at]
             left == [p \in Packets |-> Cardinality(Occurrences(q, p))]
  <2>1. CASE Fault("packet")
    BY <1>0, <2>1
  <2>2. CASE ~Fault("packet")
    <3>1. srv.at \in Instances /\ q \in Seq(Packets \cup {Sentinel})
      BY <1>13 DEF Flush, Occupied, TypeOK
    <3>2. \A p \in Packets : left[p] \in Nat
      BY <3>1, OccurrencesCount
    <3>3. ref' = [p \in Packets |-> ref[p] - left[p]]
          /\ \A p \in Packets : ~(left[p] > 0 /\ ref[p] < left[p])
      BY <1>13, <2>2 DEF Flush
    <3> HIDE DEF left
    <3>4. ref' \in [Packets -> Nat]
      <4>1. ASSUME NEW p \in Packets PROVE ref[p] - left[p] \in Nat
        <5>1. ref[p] \in Nat /\ left[p] \in Nat /\ ~(left[p] > 0 /\ ref[p] < left[p])
          BY <3>2, <3>3 DEF TypeOK
        <5> QED
          BY <5>1
      <4> QED
        BY <3>3, <4>1
    <3>5. queue' = [queue EXCEPT ![srv.at] = <<>>] /\ bytes' = [bytes EXCEPT ![srv.at] = <<>>]
          /\ srv' = [pc |-> "idle", at |-> Closed]
          /\ UNCHANGED <<streamvars, running, thread, held, walk, fault, mishaps>>
      BY <1>13, <2>2 DEF Flush
    <3>6. <<>> \in Seq(Packets) /\ <<>> \in Seq(Packets \cup {Sentinel}) /\ Len(<<>>) = 0
      OBVIOUS
    <3>7. queue' \in [Instances -> Seq(Packets \cup {Sentinel})]
          /\ \A j \in Instances : Len(queue'[j]) <= QueueSize + 1
      <4>1. Len(<<>>) <= QueueSize + 1
        BY <3>6
      <4> QED
        BY <3>1, <3>5, <3>6, <4>1, QueueChange
    <3>8. bytes' \in [Instances -> Seq(Packets)] /\ \A j \in Instances : Len(bytes'[j]) <= BqSize
      <4>1. Len(<<>>) <= BqSize
        BY <3>6
      <4> QED
        BY <3>1, <3>5, <3>6, <4>1, BytesChange
    <3> QED
      BY <3>4, <3>5, <3>7, <3>8 DEF streamvars, Jobs, TypeOK
  <2> QED
    BY <2>1, <2>2
<1>14. CASE UNCHANGED vars
  BY <1>14 DEF vars, TypeOK
<1> QED
  BY <1>1, <1>2, <1>3, <1>4, <1>5, <1>6, <1>7, <1>8, <1>9, <1>10, <1>11, <1>12, <1>13, <1>14
  DEF Next, Walker, Server, Stop

-----------------------------------------------------------------------------
(* Who works on something *)

LEMMA OccupiedStep == PipelineInv /\ [Next]_vars => Occupied'
<1> SUFFICES ASSUME PipelineInv, [Next]_vars PROVE Occupied'
  OBVIOUS
<1> USE PipelineAssumption DEF PipelineInv
<1>0. ASSUME NEW f \in {"packet", "iterator", "front"}, Fault(f) PROVE Occupied'
  BY <1>0 DEF Fault, Occupied
<1>1. CASE ReadHead
  BY <1>1, WalkFacts DEF ReadHead, Occupied
<1>2. CASE GetPacket
  <2>1. walk'.pc = "next" /\ walk'.packet = walk.packet + 1
    BY <1>2, WalkFacts DEF GetPacket
  <2>2. walk.packet + 1 \in Packets
    BY <1>2, WalkFacts DEF GetPacket, Packets
  <2> QED
    BY <1>2, <2>1, <2>2 DEF GetPacket, Occupied
<1>3. CASE WalkNext
  <2>1. CASE Fault("iterator") \/ Fault("packet")
    BY <1>0, <2>1
  <2>2. CASE walk' \in {[walk EXCEPT !.pc = "head", !.takers = {}, !.pos = 1],
                        [walk EXCEPT !.pc = "give"], [walk EXCEPT !.pos = @ + 1]}
             /\ walk.pc = "next" /\ UNCHANGED <<thread, held, srv>>
    <3>1. walk'.packet = walk.packet /\ walk'.pc \in {"head", "give", "next"}
      BY <2>2, WalkFacts
    <3> QED
      BY <2>2, <3>1 DEF Occupied
  <2> QED
    BY <1>3, <2>1, <2>2 DEF WalkNext
<1>4. CASE WalkGive
  <2>1. CASE ~Fault("iterator")
    <3>1. services[walk.pos] \in Instances
      BY <1>4, <2>1, WalkFacts DEF WalkGive, Astray, TypeOK
    <3>2. walk'.pc = "put" /\ walk'.packet = walk.packet /\ walk'.target = services[walk.pos]
      BY <1>4, <2>1, WalkFacts DEF WalkGive
    <3> QED
      BY <1>4, <2>1, <3>1, <3>2 DEF WalkGive, Occupied
  <2> QED
    BY <1>0, <2>1
<1>5. CASE QueueTsPacket
  <2>1. CASE ~Fault("packet")
    <3>1. walk'.pc = "next" /\ walk'.packet = walk.packet /\ UNCHANGED <<held, srv>>
      BY <1>5, <2>1, WalkFacts DEF QueueTsPacket
    <3>2. thread' = Wakened(walk.target) \/ UNCHANGED thread
      BY <1>5, <2>1 DEF QueueTsPacket
    <3>3. \A i \in Instances : thread'[i] = thread[i] \/ (thread[i] = "wait" /\ thread'[i] = "woken")
      BY <3>2 DEF Wakened, TypeOK
    <3> QED
      BY <1>5, <3>1, <3>3 DEF QueueTsPacket, Occupied
  <2> QED
    BY <1>0, <2>1
<1>6. ASSUME NEW i \in Instances, QueueThread(i) PROVE Occupied'
  <2>1. CASE QueueTest(i)
    BY <2>1 DEF QueueTest, Occupied, TypeOK
  <2>2. ASSUME queue[i] # <<>>, Pop(i), thread[i] # "none" PROVE Occupied'
    <3>1. Head(queue[i]) \in Packets \cup {Sentinel}
      BY <2>2 DEF TypeOK
    <3> QED
      BY <2>2, <3>1 DEF Pop, Occupied, TypeOK
  <2>3. CASE QueueGet(i)
    BY <2>2, <2>3 DEF QueueGet, Occupied, TypeOK
  <2>4. CASE QueueGoOn(i)
    BY <1>0, <2>2, <2>4 DEF QueueGoOn
  <2>5. CASE QueueWrite(i)
    <3>1. CASE ~Fault("packet")
      <4>1. /\ thread[i] = "write" /\ thread' = [thread EXCEPT ![i] = "test"]
            /\ held' = [held EXCEPT ![i] = Sentinel] /\ UNCHANGED <<walk, srv>>
        BY <2>5, <3>1 DEF QueueWrite
      <4>2. \A j \in Instances : thread'[j] = "write" => j # i
        BY <4>1 DEF TypeOK
      <4> QED
        BY <4>1, <4>2 DEF Occupied, TypeOK
    <3> QED
      BY <1>0, <3>1
  <2> QED
    BY <1>6, <2>1, <2>3, <2>4, <2>5 DEF QueueThread
<1>7. ASSUME NEW h \in Handles, Open(h) PROVE Occupied'
  <2>1. walk'.pc = walk.pc /\ walk'.packet = walk.packet /\ walk'.target = walk.target
        /\ UNCHANGED <<held, srv>> /\ srv.pc = "idle"
    BY <1>7, WalkFacts DEF Open
  <2>2. \A i \in Instances : thread'[i] = "write" => thread[i] = "write"
    BY <1>7 DEF Open, TypeOK
  <2> QED
    BY <2>1, <2>2 DEF Occupied
<1>8. ASSUME NEW h \in Handles, Read(h) PROVE Occupied'
  BY <1>8 DEF Read, Occupied, TypeOK
<1>9. ASSUME NEW h \in Handles, Close(h) PROVE Occupied'
  <2>1. Original(handles[h]) \in Instances
    BY <1>9, InstanceFacts DEF Close, TypeOK
  <2> QED
    BY <1>9, <2>1 DEF Close, Occupied
<1>10. CASE ReadSome
  BY <1>10 DEF ReadSome, streamvars, Occupied
<1>11. CASE StopQueueThread
  <2>1. srv'.pc = "told" /\ srv'.at = srv.at /\ UNCHANGED <<walk, held>>
    BY <1>11 DEF StopQueueThread, TypeOK, Jobs
  <2>2. \A i \in Instances : thread'[i] = "write" => thread[i] = "write"
    BY <1>11 DEF StopQueueThread, Wakened, TypeOK
  <2> QED
    BY <1>11, <2>1, <2>2 DEF StopQueueThread, Occupied
<1>12. CASE WaitForStopQueueThread
  <2>1. srv'.pc = "joined" /\ srv'.at = srv.at /\ UNCHANGED <<walk, held>>
    BY <1>12 DEF WaitForStopQueueThread, TypeOK, Jobs
  <2>2. srv.at \in Instances /\ thread' = [thread EXCEPT ![srv.at] = "none"]
    BY <1>12 DEF WaitForStopQueueThread, Occupied
  <2> QED
    BY <2>1, <2>2 DEF Occupied, TypeOK
<1>13. CASE Flush
  <2>1. CASE ~Fault("packet")
    <3>1. srv'.pc = "idle" /\ UNCHANGED <<walk, held, thread>>
      BY <1>13, <2>1 DEF Flush
    <3> QED
      BY <3>1 DEF Occupied
  <2> QED
    BY <1>0, <2>1
<1>14. CASE UNCHANGED vars
  BY <1>14 DEF vars, Occupied
<1> QED
  BY <1>1, <1>2, <1>3, <1>4, <1>5, <1>6, <1>7, <1>8, <1>9, <1>10, <1>11, <1>12, <1>13, <1>14
  DEF Next, Walker, Server, Stop

-----------------------------------------------------------------------------
(* Queues and sentinels *)

\* A queue gets a packet.
LEMMA AppendPacket ==
  ASSUME NEW q \in Seq(Packets \cup {Sentinel}), NEW p \in Packets, Len(q) < QueueSize
  PROVE  /\ Append(q, p) # <<>> /\ Len(Append(q, p)) <= QueueSize
         /\ \A k \in DOMAIN Append(q, p) :
              Append(q, p)[k] = Sentinel => k \in DOMAIN q /\ q[k] = Sentinel
<1>1. Len(q) \in Nat /\ DOMAIN q = 1 .. Len(q) /\ p # Sentinel
  BY PipelineAssumption DEF Packets, Sentinel
<1>2. Len(Append(q, p)) = Len(q) + 1 /\ DOMAIN Append(q, p) = 1 .. Len(q) + 1
  BY <1>1
<1>3. \A k \in 1 .. Len(q) + 1 : Append(q, p)[k] = IF k = Len(q) + 1 THEN p ELSE q[k]
  BY <1>1
<1> QED
  BY <1>1, <1>2, <1>3, PipelineAssumption

\* A queue gives its first element.
LEMMA TailQueue ==
  ASSUME NEW q \in Seq(Packets \cup {Sentinel}), q # <<>>
  PROVE  /\ Len(Tail(q)) <= Len(q) /\ Len(Tail(q)) \in Nat
         /\ 1 \in DOMAIN q /\ Head(q) = q[1]
         /\ \A k \in DOMAIN Tail(q) : k + 1 \in DOMAIN q /\ Tail(q)[k] = q[k + 1]
<1>1. Len(q) \in Nat \ {0} /\ DOMAIN q = 1 .. Len(q)
  OBVIOUS
<1>2. Len(Tail(q)) = Len(q) - 1 /\ DOMAIN Tail(q) = 1 .. Len(q) - 1
  BY <1>1
<1>3. \A k \in 1 .. Len(q) - 1 : Tail(q)[k] = q[k + 1]
  BY <1>1
<1> QED
  BY <1>1, <1>2, <1>3

\* Steps which leave queues and stops alone, and wake nobody.
LEMMA QueuedKept ==
  ASSUME PipelineInv, UNCHANGED queue,
         \A i \in Instances : Stopping(i) => Stopping(i)',
         \A i \in Instances : thread'[i] = "woken" => thread[i] = "woken"
  PROVE  Queued'
BY DEF PipelineInv, Queued

LEMMA QueuedStep == PipelineInv /\ [Next]_vars => Queued' /\ NoEmptyFront'
<1> SUFFICES ASSUME PipelineInv, [Next]_vars PROVE Queued' /\ NoEmptyFront'
  OBVIOUS
<1> USE PipelineAssumption
<1>0. ASSUME NEW f \in {"packet", "iterator"}, Fault(f) PROVE Queued' /\ NoEmptyFront'
  <2>1. UNCHANGED <<queue, srv, thread>> /\ fault' # "front"
    BY <1>0 DEF Fault
  <2> QED
    BY <2>1, QueuedKept DEF Stopping, NoEmptyFront
<1>1. ASSUME UNCHANGED <<queue, srv, fault>>,
             \A i \in Instances : thread'[i] = "woken" => thread[i] = "woken"
      PROVE  Queued' /\ NoEmptyFront'
  BY <1>1, QueuedKept DEF Stopping, NoEmptyFront, PipelineInv
<1>2. CASE ReadHead \/ GetPacket \/ WalkGive \/ WalkNext
  <2>1. CASE Fault("iterator") \/ Fault("packet")
    BY <1>0, <2>1
  <2>2. CASE UNCHANGED <<queue, srv, fault, thread>>
    BY <1>1, <2>2
  <2> QED
    BY <1>2, <2>1, <2>2 DEF ReadHead, GetPacket, WalkGive, WalkNext
<1>3. CASE QueueTsPacket
  <2> DEFINE p == walk.packet
             i == walk.target
  <2>1. CASE Fault("packet")
    BY <1>0, <2>1
  <2>2. CASE ~Fault("packet") /\ Len(queue[i]) < QueueSize
    <3>1. queue' = [queue EXCEPT ![i] = Append(@, p)] /\ thread' = Wakened(i)
          /\ UNCHANGED <<srv, fault>>
      BY <1>3, <2>2 DEF QueueTsPacket
    <3>2. p \in Packets /\ i \in Instances
      BY <1>3 DEF QueueTsPacket, PipelineInv, Occupied
    <3> HIDE DEF p, i
    <3>3. /\ Append(queue[i], p) # <<>> /\ Len(Append(queue[i], p)) <= QueueSize
          /\ \A k \in DOMAIN Append(queue[i], p) :
               Append(queue[i], p)[k] = Sentinel => k \in DOMAIN queue[i] /\ queue[i][k] = Sentinel
      BY <2>2, <3>2, AppendPacket DEF PipelineInv, TypeOK
    <3>4. \A j \in Instances : queue'[j] = IF j = i THEN Append(queue[i], p) ELSE queue[j]
      BY <3>1 DEF PipelineInv, TypeOK
    <3>5. \A j \in Instances : thread'[j] = "woken" => j = i \/ thread[j] = "woken"
      BY <3>1 DEF Wakened, PipelineInv, TypeOK
    <3>6. \A j \in Instances : Stopping(j)' <=> Stopping(j)
      BY <3>1 DEF Stopping
    <3>7. \A j \in Instances : Len(queue'[j]) <= QueueSize \/ Stopping(j)'
      BY <3>3, <3>4, <3>6 DEF PipelineInv, Queued
    <3>8. ASSUME NEW j \in Instances, NEW k \in DOMAIN queue'[j], queue'[j][k] = Sentinel
          PROVE  Stopping(j)'
      BY <3>2, <3>3, <3>4, <3>6, <3>8 DEF PipelineInv, Queued
    <3>9. \A j \in Instances : thread'[j] = "woken" => queue'[j] # <<>>
      BY <3>3, <3>4, <3>5 DEF PipelineInv, Queued
    <3> QED
      BY <3>1, <3>7, <3>8, <3>9 DEF Queued, NoEmptyFront, PipelineInv
  <2>3. CASE ~Fault("packet") /\ ~(Len(queue[i]) < QueueSize)
    BY <1>1, <1>3, <2>3 DEF QueueTsPacket
  <2> QED
    BY <2>1, <2>2, <2>3
<1>4. ASSUME NEW i \in Instances, QueueThread(i) PROVE Queued' /\ NoEmptyFront'
  <2>1. CASE QueueTest(i)
    BY <1>1, <2>1 DEF QueueTest, PipelineInv, TypeOK
  <2>2. ASSUME queue[i] # <<>>, Pop(i) PROVE Queued' /\ NoEmptyFront'
    <3>1. /\ Len(Tail(queue[i])) <= Len(queue[i]) /\ Len(Tail(queue[i])) \in Nat
          /\ \A k \in DOMAIN Tail(queue[i]) :
               k + 1 \in DOMAIN queue[i] /\ Tail(queue[i])[k] = queue[i][k + 1]
      BY <2>2, TailQueue DEF PipelineInv, TypeOK
    <3>2. \A j \in Instances : queue'[j] = IF j = i THEN Tail(queue[i]) ELSE queue[j]
      BY <2>2 DEF Pop, PipelineInv, TypeOK
    <3>3. \A j \in Instances : thread'[j] = "woken" => j # i /\ thread[j] = "woken"
      BY <2>2 DEF Pop, PipelineInv, TypeOK
    <3>4. UNCHANGED <<srv, fault>> /\ \A j \in Instances : Stopping(j)' <=> Stopping(j)
      BY <2>2 DEF Pop, Stopping
    <3>5. ASSUME NEW j \in Instances PROVE Len(queue'[j]) <= QueueSize \/ Stopping(j)'
      <4>1. Len(queue[j]) <= QueueSize \/ Stopping(j)
        BY DEF PipelineInv, Queued
      <4>2. Len(queue[j]) \in Nat
        BY DEF PipelineInv, TypeOK
      <4>3. Len(queue'[j]) <= Len(queue[j]) /\ Len(queue'[j]) \in Nat
        <5>1. CASE j = i
          <6>1. queue'[j] = Tail(queue[i])
            BY <3>2, <5>1
          <6> QED
            BY <3>1, <5>1, <6>1, Zenon
        <5>2. CASE j # i
          BY <3>2, <4>2, <5>2
        <5> QED
          BY <5>1, <5>2
      <4>4. CASE Stopping(j)
        BY <3>4, <4>4
      <4>5. CASE Len(queue[j]) <= QueueSize
        BY <4>2, <4>3, <4>5
      <4> QED
        BY <4>1, <4>4, <4>5
    <3>6. ASSUME NEW j \in Instances, NEW k \in DOMAIN queue'[j], queue'[j][k] = Sentinel
          PROVE  Stopping(j)'
      BY <3>1, <3>2, <3>4, <3>6 DEF PipelineInv, Queued
    <3>7. \A j \in Instances : thread'[j] = "woken" => queue'[j] # <<>>
      BY <3>2, <3>3 DEF PipelineInv, Queued
    <3> QED
      BY <3>4, <3>5, <3>6, <3>7 DEF Queued, NoEmptyFront, PipelineInv
  <2>3. CASE QueueGet(i)
    <3>1. CASE queue[i] = <<>>
      BY <1>1, <2>3, <3>1 DEF QueueGet, PipelineInv, TypeOK
    <3> QED
      BY <2>2, <2>3, <3>1 DEF QueueGet
  <2>4. CASE QueueGoOn(i)
    BY <2>2, <2>4 DEF QueueGoOn, PipelineInv, Queued
  <2>5. CASE QueueWrite(i)
    <3>1. CASE ~Fault("packet")
      BY <1>1, <2>5, <3>1 DEF QueueWrite, PipelineInv, TypeOK
    <3> QED
      BY <1>0, <3>1
  <2> QED
    BY <1>4, <2>1, <2>3, <2>4, <2>5 DEF QueueThread
<1>5. ASSUME NEW h \in Handles, Open(h) PROVE Queued' /\ NoEmptyFront'
  BY <1>1, <1>5 DEF Open, PipelineInv, TypeOK
<1>6. ASSUME NEW h \in Handles, Read(h) \/ Close(h) PROVE Queued' /\ NoEmptyFront'
  <2>1. UNCHANGED <<queue, thread, fault>> /\ srv.pc = "idle"
    BY <1>6 DEF Read, Close
  <2> QED
    BY <2>1, QueuedKept DEF Stopping, NoEmptyFront, PipelineInv
<1>7. CASE ReadSome
  <2>1. UNCHANGED <<queue, thread, fault>> /\ srv.pc = "read"
    BY <1>7 DEF ReadSome
  <2> QED
    BY <2>1, QueuedKept DEF Stopping, NoEmptyFront, PipelineInv
<1>8. CASE StopQueueThread
  <2>0. PICK i \in Instances : i = srv.at
    BY <1>8 DEF StopQueueThread, PipelineInv, Occupied
  <2> DEFINE q == Append(queue[i], Sentinel)
  <2>1. /\ queue' = [queue EXCEPT ![i] = q] /\ thread' = Wakened(i) /\ UNCHANGED fault
        /\ srv.pc = "erased" /\ srv' = [srv EXCEPT !.pc = "told"]
    BY <1>8, <2>0 DEF StopQueueThread
  <2>3. Stopping(i)' /\ \A j \in Instances : ~Stopping(j)
    BY <2>0, <2>1 DEF Stopping, PipelineInv, TypeOK, Jobs
  <2>4. \A j \in Instances : queue'[j] = IF j = i THEN q ELSE queue[j]
    BY <2>1 DEF PipelineInv, TypeOK
  <2>5. q # <<>>
    <3>1. queue[i] \in Seq(Packets \cup {Sentinel}) /\ Sentinel \in Packets \cup {Sentinel}
      BY DEF PipelineInv, TypeOK
    <3>2. Len(q) = Len(queue[i]) + 1 /\ Len(queue[i]) \in Nat /\ Len(<<>>) = 0
      BY <3>1
    <3> QED
      BY <3>2
  <2>6. \A j \in Instances : thread'[j] = "woken" => j = i \/ thread[j] = "woken"
    BY <2>1 DEF Wakened, PipelineInv, TypeOK
  <2> HIDE DEF q
  <2>7. ASSUME NEW j \in Instances, j # i
        PROVE  /\ Len(queue'[j]) <= QueueSize
               /\ \A k \in DOMAIN queue'[j] : queue'[j][k] # Sentinel
    BY <2>3, <2>4, <2>7 DEF PipelineInv, Queued
  <2>8. \A j \in Instances : thread'[j] = "woken" => queue'[j] # <<>>
    BY <2>4, <2>5, <2>6 DEF PipelineInv, Queued
  <2>9. Queued'
    BY <2>3, <2>7, <2>8 DEF Queued
  <2> QED
    BY <2>1, <2>9 DEF NoEmptyFront, PipelineInv
<1>9. CASE WaitForStopQueueThread
  <2>1. /\ UNCHANGED <<queue, fault>> /\ thread' = [thread EXCEPT ![srv.at] = "none"]
        /\ srv' = [srv EXCEPT !.pc = "joined"]
    BY <1>9 DEF WaitForStopQueueThread
  <2>2. \A i \in Instances : Stopping(i) => Stopping(i)'
    BY <2>1 DEF Stopping, PipelineInv, TypeOK, Jobs
  <2>3. \A i \in Instances : thread'[i] = "woken" => thread[i] = "woken"
    BY <2>1 DEF PipelineInv, TypeOK
  <2> QED
    BY <2>1, <2>2, <2>3, QueuedKept DEF NoEmptyFront, PipelineInv
<1>10. CASE Flush
  <2>1. CASE ~Fault("packet")
    <3>1. /\ queue' = [queue EXCEPT ![srv.at] = <<>>] /\ UNCHANGED <<thread, fault>>
          /\ srv.pc = "joined"
      BY <1>10, <2>1 DEF Flush
    <3>2. srv.at \in Instances /\ thread[srv.at] = "none"
      BY <3>1 DEF PipelineInv, Occupied
    <3>3. \A j \in Instances : queue'[j] = IF j = srv.at THEN <<>> ELSE queue[j]
      BY <3>1 DEF PipelineInv, TypeOK
    <3>4. Len(<<>>) = 0 /\ DOMAIN <<>> = {}
      OBVIOUS
    <3>5. \A j \in Instances : Stopping(j) => j = srv.at
      BY DEF Stopping
    <3>6. \A j \in Instances : Len(queue'[j]) <= QueueSize
      BY <3>3, <3>4, <3>5 DEF PipelineInv, Queued
    <3>7. ASSUME NEW j \in Instances, NEW k \in DOMAIN queue'[j] PROVE queue'[j][k] # Sentinel
      BY <3>3, <3>4, <3>5 DEF PipelineInv, Queued
    <3>8. \A j \in Instances : thread'[j] = "woken" => queue'[j] # <<>>
      BY <3>1, <3>2, <3>3 DEF PipelineInv, Queued
    <3> QED
      BY <3>1, <3>6, <3>7, <3>8 DEF Queued, NoEmptyFront, PipelineInv
  <2> QED
    BY <1>0, <2>1
<1>11. CASE UNCHANGED vars
  BY <1>1, <1>11 DEF vars
<1> QED
  BY <1>2, <1>3, <1>4, <1>5, <1>6, <1>7, <1>8, <1>9, <1>10, <1>11
  DEF Next, Walker, Server, Stop

-----------------------------------------------------------------------------
(* The list of services and the streams *)

\* Steps which leave the list, the streams and the server alone, and end at
\* most the thread of an instance that is not in the list.
LEMMA ListKept ==
  ASSUME PipelineInv, UNCHANGED <<streamvars, srv, running>>,
         \A i \in Instances : thread[i] = "none" <=> thread'[i] = "none",
         \A i \in Instances : thread'[i] = "ended" => thread[i] = "ended" \/ Places(i) = {}
  PROVE  Listed' /\ Apart' /\ Served'
<1>1. UNCHANGED <<services, handles, clones>>
  BY DEF streamvars
<1>2. \A i : Places(i)' = Places(i)
  BY <1>1 DEF Places
<1>3. Listed'
  BY <1>1, <1>2 DEF PipelineInv, Listed
<1>4. Apart'
  BY <1>1 DEF PipelineInv, Apart
<1>5. ASSUME NEW k \in DOMAIN services
      PROVE  running'[services'[k]] /\ thread'[services'[k]] \notin {"none", "ended"}
  <2>1. services[k] \in Instances /\ Places(services[k]) # {}
    BY <1>5 DEF PipelineInv, TypeOK, Places
  <2>2. running[services[k]] /\ thread[services[k]] \notin {"none", "ended"}
    BY <1>5 DEF PipelineInv, Served
  <2> QED
    BY <1>1, <2>1, <2>2
<1>6. Served'
  BY <1>1, <1>2, <1>5 DEF PipelineInv, Served
<1> QED
  BY <1>3, <1>4, <1>6

\* The list, the streams and the threads stay, while the server goes on.
LEMMA ListAndThreadsKept ==
  ASSUME PipelineInv, UNCHANGED <<streamvars, running, thread>>,
         srv'.pc \in {"erased", "told"} =>
           srv.pc \in {"erased", "told", "joined"} /\ srv'.at = srv.at,
         srv'.pc = "joined" => srv.pc \in {"erased", "told", "joined"} /\ srv'.at = srv.at,
         \A i \in Instances : srv.pc \in {"erased", "told"} /\ srv.at = i
                                => srv'.pc \in {"erased", "told"} /\ srv'.at = i
  PROVE  Listed' /\ Apart' /\ Served'
<1>1. UNCHANGED <<services, handles, clones>>
  BY DEF streamvars
<1>2. \A i : Places(i)' = {k \in DOMAIN services : services[k] = i}
  BY <1>1 DEF Places
<1>3. Apart' /\ Served'
  BY <1>1, <1>2 DEF PipelineInv, Apart, Served, Places
<1>4. srv'.pc \in {"erased", "told", "joined"} => Places(srv'.at) = {}
  BY DEF PipelineInv, Listed
<1>5. (srv.pc \in {"erased", "told", "joined"} => Places(srv.at) = {})'
  BY <1>1, <1>4 DEF Places
<1>6. \A i \in Instances :
        Places(i)' = {} => thread'[i] = "none" \/ (srv'.pc \in {"erased", "told"} /\ srv'.at = i)
  BY <1>2 DEF PipelineInv, Listed, Places
<1> QED
  BY <1>1, <1>3, <1>5, <1>6 DEF PipelineInv, Listed

\* A stream is opened: its instance comes to the end of the list, and is alive.
LEMMA OpenLists ==
  ASSUME PipelineInv, NEW h \in Handles, Open(h)
  PROVE  Listed' /\ Apart' /\ Served'
<1> USE PipelineAssumption
<1>1. PICK n \in Names :
        LET cloned == Places(<<n, 0>>) # {}
            i == IF cloned THEN <<n, clones[n] + 1>> ELSE <<n, 0>>
        IN /\ cloned => clones[n] < MaxClones
           /\ clones' = IF cloned THEN [clones EXCEPT ![n] = @ + 1] ELSE clones
           /\ services' = Append(services, i)
           /\ handles' = [handles EXCEPT ![h] = i]
           /\ IF thread[i] = "none"
                THEN /\ running' = [running EXCEPT ![i] = TRUE]
                     /\ thread' = [thread EXCEPT ![i] = "test"]
                ELSE UNCHANGED <<running, thread>>
  BY DEF Open
<1>2. PICK i : i = IF Places(<<n, 0>>) # {} THEN <<n, clones[n] + 1>> ELSE <<n, 0>>
  OBVIOUS
<1>3. /\ Places(<<n, 0>>) # {} => clones[n] < MaxClones
      /\ clones' = IF Places(<<n, 0>>) # {} THEN [clones EXCEPT ![n] = @ + 1] ELSE clones
      /\ services' = Append(services, i)
      /\ handles' = [handles EXCEPT ![h] = i]
      /\ IF thread[i] = "none"
           THEN /\ running' = [running EXCEPT ![i] = TRUE]
                /\ thread' = [thread EXCEPT ![i] = "test"]
           ELSE UNCHANGED <<running, thread>>
  BY <1>1, <1>2
<1>4. clones[n] \in 0 .. MaxClones /\ \A m \in Names : clones[m] \in 0 .. MaxClones
  BY DEF PipelineInv, TypeOK
<1>5. i \in Instances /\ i[1] = n /\ (i[2] = clones'[n] \/ i[2] = 0)
  <2>1. CASE Places(<<n, 0>>) # {}
    <3>1. clones[n] + 1 \in 0 .. MaxClones /\ i = <<n, clones[n] + 1>>
      <4>1. clones[n] < MaxClones /\ clones[n] \in 0 .. MaxClones
        BY <1>3, <1>4, <2>1
      <4>2. clones[n] + 1 \in 0 .. MaxClones
        BY <4>1
      <4> QED
        BY <1>2, <2>1, <4>2
    <3>2. clones'[n] = clones[n] + 1
      BY <1>3, <2>1 DEF PipelineInv, TypeOK
    <3> QED
      BY <3>1, <3>2, MadeInstance
  <2>2. CASE ~(Places(<<n, 0>>) # {})
    <3>1. 0 \in 0 .. MaxClones
      OBVIOUS
    <3> QED
      BY <1>2, <2>2, <3>1, MadeInstance
  <2> QED
    BY <2>1, <2>2
<1>6. i \in Instances /\ i[1] = n /\ i[2] <= clones'[n]
  <2>1. clones'[n] \in Nat
    BY <1>3, <1>4 DEF PipelineInv, TypeOK
  <2> QED
    BY <1>5, <2>1
<1>7. \A m \in Names : clones[m] <= clones'[m] /\ clones'[m] \in Nat
  BY <1>3, <1>4 DEF PipelineInv, TypeOK
<1>8. Places(i) = {}
  <2>1. CASE Places(<<n, 0>>) # {}
    <3>1. i[1] = n /\ i[2] = clones[n] + 1
      BY <1>2, <2>1
    <3>2. \A k \in DOMAIN services : services[k] = i => i[2] <= clones[i[1]]
      BY DEF PipelineInv, Listed
    <3> QED
      BY <1>4, <3>1, <3>2 DEF Places
  <2> QED
    BY <1>2, <2>1
<1>9. srv.pc = "idle" /\ UNCHANGED srv /\ handles[h] = Closed
  BY DEF Open
<1>10. thread[i] = "none"
  BY <1>6, <1>8, <1>9 DEF PipelineInv, Listed
<1>11. /\ running' = [running EXCEPT ![i] = TRUE]
       /\ thread' = [thread EXCEPT ![i] = "test"]
  BY <1>3, <1>10
<1>12. Len(services) \in Nat /\ DOMAIN services = 1 .. Len(services)
  BY DEF PipelineInv, TypeOK
<1>13. /\ DOMAIN services' = 1 .. Len(services) + 1
       /\ \A k \in 1 .. Len(services) + 1 :
            services'[k] = IF k = Len(services) + 1 THEN i ELSE services[k]
  <2>1. services \in Seq(Instances) /\ i \in Instances
    BY <1>6 DEF PipelineInv, TypeOK
  <2>2. services' = Append(services, i)
    BY <1>3
  <2> QED
    BY <2>1, <2>2
<1>14. \A k \in 1 .. Len(services) : services[k] # i /\ services[k] \in Instances
  <2>1. \A k \in 1 .. Len(services) : services[k] \in Instances
    BY DEF PipelineInv, TypeOK
  <2> QED
    BY <1>8, <1>12, <2>1 DEF Places
<1>15. \A j \in Instances : Places(j)' = {} => j # i /\ Places(j) = {}
  BY <1>12, <1>13 DEF Places
<1>16. Listed'
  <2>1. \A j, k \in DOMAIN services' : services'[j] = services'[k] => j = k
    BY <1>12, <1>13, <1>14 DEF PipelineInv, Listed
  <2>2. ASSUME NEW k \in DOMAIN services'
        PROVE  services'[k][2] <= clones'[services'[k][1]]
    <3>1. CASE k = Len(services) + 1
      BY <1>6, <1>13, <3>1
    <3>2. CASE k # Len(services) + 1
      <4>1. k \in DOMAIN services /\ services'[k] = services[k] /\ services[k] \in Instances
        BY <1>12, <1>13, <1>14, <3>2
      <4>2. services[k][1] \in Names /\ services[k][2] \in 0 .. MaxClones
        BY <4>1, InstanceFacts
      <4>3. services[k][2] <= clones[services[k][1]]
        BY <4>1 DEF PipelineInv, Listed
      <4>4. clones'[services[k][1]] \in Nat /\ clones[services[k][1]] \in Nat
            /\ clones[services[k][1]] <= clones'[services[k][1]]
        BY <1>4, <1>7, <4>2
      <4> QED
        BY <4>1, <4>2, <4>3, <4>4
    <3> QED
      BY <3>1, <3>2
  <2>3. \A j \in Instances : Places(j)' = {} => thread'[j] = "none"
    BY <1>9, <1>11, <1>15 DEF PipelineInv, TypeOK, Listed
  <2> QED
    BY <1>9, <2>1, <2>2, <2>3 DEF Listed
<1>17. \A g \in Handles : handles'[g] = IF g = h THEN i ELSE handles[g]
  BY <1>3 DEF PipelineInv, TypeOK
<1>18. ASSUME NEW g \in Handles, handles[g] # Closed, clones'[handles[g][1]] = 0
       PROVE  clones[handles[g][1]] = 0 /\ handles[g] # i /\ Places(handles[g]) # {}
  <2>1. handles[g] \in Instances /\ handles[g][1] \in Names
    BY <1>18, InstanceFacts DEF PipelineInv, TypeOK
  <2>2. clones[handles[g][1]] = 0
    BY <1>4, <1>7, <1>18, <2>1
  <2>3. Places(handles[g]) # {}
    BY <1>18, <2>2 DEF PipelineInv, Served
  <2> QED
    BY <1>8, <2>2, <2>3
<1>19. Apart'
  BY <1>17, <1>18 DEF PipelineInv, Apart
<1>20. Served'
  <2>1. ASSUME NEW k \in DOMAIN services'
        PROVE  running'[services'[k]] /\ thread'[services'[k]] \notin {"none", "ended"}
    <3>1. CASE k = Len(services) + 1
      <4>1. services'[k] = i
        BY <1>12, <1>13, <3>1
      <4> QED
        BY <1>6, <1>11, <4>1 DEF PipelineInv, TypeOK
    <3>2. CASE k # Len(services) + 1
      <4>1. k \in DOMAIN services /\ services'[k] = services[k] /\ services[k] # i
            /\ services[k] \in Instances
        BY <1>12, <1>13, <1>14, <2>1, <3>2
      <4> QED
        BY <1>11, <4>1 DEF PipelineInv, Served, TypeOK
    <3> QED
      BY <3>1, <3>2
  <2>2. ASSUME NEW g \in Handles, handles'[g] # Closed, clones'[handles'[g][1]] = 0
        PROVE  \E k \in DOMAIN services' : services'[k] = handles'[g]
    <3>1. CASE g = h
      BY <1>12, <1>13, <1>17, <3>1
    <3>2. CASE g # h
      <4>1. handles'[g] = handles[g] /\ Places(handles[g]) # {}
        BY <1>17, <1>18, <2>2, <3>2
      <4>2. PICK k \in DOMAIN services : services[k] = handles[g]
        BY <4>1 DEF Places
      <4> QED
        BY <1>12, <1>13, <4>1, <4>2
    <3> QED
      BY <3>1, <3>2
  <2> QED
    BY <2>1, <2>2 DEF Served, Places
<1> QED
  BY <1>16, <1>19, <1>20

\* A stream is closed: the original leaves the list, and no other stream of a
\* service without clones was reading from it.
LEMMA CloseDelists ==
  ASSUME PipelineInv, NEW h \in Handles, Close(h)
  PROVE  Listed' /\ Apart' /\ Served'
<1> USE PipelineAssumption
<1>1. PICK o : o = Original(handles[h])
  OBVIOUS
<1>2. /\ handles[h] # Closed /\ handles[h] \in Instances /\ o \in Instances
      /\ srv'.pc = "erased" /\ srv'.at = o /\ srv.pc = "idle"
      /\ UNCHANGED <<clones, running, thread>>
      /\ \A g \in Handles : handles'[g] = IF g = h THEN Closed ELSE handles[g]
  BY <1>1, InstanceFacts DEF Close, PipelineInv, TypeOK
<1>3. Len(services) \in Nat /\ DOMAIN services = 1 .. Len(services)
      /\ \A k \in DOMAIN services : services[k] \in Instances
  BY DEF PipelineInv, TypeOK
\* Every place of the new list stems from one of the old, in order.
<1>4. PICK l \in Int :
        /\ \A k \in DOMAIN services' :
             LET old == IF k < l THEN k ELSE k + 1
             IN old \in DOMAIN services /\ old # l /\ services'[k] = services[old]
        /\ \A k \in DOMAIN services : k # l =>
             LET new == IF k < l THEN k ELSE k - 1
             IN new \in DOMAIN services' /\ services'[new] = services[k]
        /\ DOMAIN services' \subseteq Nat
        /\ \A k \in DOMAIN services : services[k] = o <=> k = l
  <2>1. CASE Places(o) = {} /\ UNCHANGED services
    <3>1. Len(services) + 1 \in Int
      BY <1>3
    <3> QED
      BY <1>3, <2>1, <3>1 DEF Places
  <2>2. ASSUME NEW k \in Places(o), services' = Erased(k)
        PROVE  \E l \in Int :
          /\ \A j \in DOMAIN services' :
               LET old == IF j < l THEN j ELSE j + 1
               IN old \in DOMAIN services /\ old # l /\ services'[j] = services[old]
          /\ \A j \in DOMAIN services : j # l =>
               LET new == IF j < l THEN j ELSE j - 1
               IN new \in DOMAIN services' /\ services'[new] = services[j]
          /\ DOMAIN services' \subseteq Nat
          /\ \A j \in DOMAIN services : services[j] = o <=> j = l
    <3>1. k \in 1 .. Len(services) /\ services[k] = o
      BY <1>3, <2>2 DEF Places
    <3>2. /\ DOMAIN services' = 1 .. Len(services) - 1
          /\ \A j \in 1 .. Len(services) - 1 :
               services'[j] = IF j < k THEN services[j] ELSE services[j + 1]
      BY <2>2 DEF Erased
    <3>3. \A j \in DOMAIN services : services[j] = o <=> j = k
      BY <1>3, <3>1 DEF PipelineInv, Listed
    <3>4. \A j \in DOMAIN services' :
            LET old == IF j < k THEN j ELSE j + 1
            IN old \in DOMAIN services /\ old # k /\ services'[j] = services[old]
      BY <1>3, <3>1, <3>2
    <3>5. \A j \in DOMAIN services : j # k =>
            LET new == IF j < k THEN j ELSE j - 1
            IN new \in DOMAIN services' /\ services'[new] = services[j]
      BY <1>3, <3>1, <3>2
    <3>6. k \in Int /\ DOMAIN services' \subseteq Nat
      BY <1>3, <3>1, <3>2
    <3> QED
      BY <3>3, <3>4, <3>5, <3>6
  <2> QED
    BY <1>1, <2>1, <2>2 DEF Close
<1>5. \A i : Places(i)' = {} => Places(i) = {} \/ i = o
  BY <1>4 DEF Places
<1>6. Places(o)' = {}
  BY <1>3, <1>4 DEF Places
<1>7. Listed'
  <2>1. ASSUME NEW j \in DOMAIN services', NEW k \in DOMAIN services', services'[j] = services'[k]
        PROVE  j = k
    <3> DEFINE oldj == IF j < l THEN j ELSE j + 1
               oldk == IF k < l THEN k ELSE k + 1
    <3>1. oldj \in DOMAIN services /\ oldk \in DOMAIN services /\ oldj # l /\ oldk # l
          /\ services[oldj] = services[oldk] /\ j \in Nat /\ k \in Nat
      BY <1>4, <2>1
    <3>2. oldj = oldk
      <4> HIDE DEF oldj, oldk
      <4> QED
        BY <3>1 DEF PipelineInv, Listed
    <3> QED
      BY <3>1, <3>2
  <2>2. \A k \in DOMAIN services' : services'[k][2] <= clones'[services'[k][1]]
    BY <1>2, <1>4 DEF PipelineInv, Listed
  <2>3. ASSUME NEW i \in Instances, Places(i)' = {} PROVE thread'[i] = "none" \/ srv'.at = i
    BY <1>2, <1>5, <2>3 DEF PipelineInv, Listed
  <2>4. (srv.pc \in {"erased", "told", "joined"} => Places(srv.at) = {})'
    BY <1>2, <1>6 DEF Places
  <2> QED
    BY <1>2, <2>1, <2>2, <2>3, <2>4 DEF Listed
<1>8. Apart'
  BY <1>2 DEF PipelineInv, Apart
<1>9. Served'
  <2>1. \A k \in DOMAIN services' :
          running'[services'[k]] /\ thread'[services'[k]] \notin {"none", "ended"}
    BY <1>2, <1>4 DEF PipelineInv, Served
  <2>2. ASSUME NEW g \in Handles, handles'[g] # Closed, clones'[handles'[g][1]] = 0
        PROVE  \E k \in DOMAIN services' : services'[k] = handles'[g]
    <3>1. g # h /\ handles'[g] = handles[g] /\ handles[g] # Closed /\ clones[handles[g][1]] = 0
      BY <1>2, <2>2
    <3>2. handles[g] \in Instances /\ Places(handles[g]) # {}
      BY <3>1 DEF PipelineInv, TypeOK, Served
    <3>3. handles[g] # o
      <4>1. SUFFICES ASSUME handles[g] = o PROVE FALSE
        OBVIOUS
      <4>2. handles[h] = <<handles[h][1], handles[h][2]>> /\ o = <<handles[h][1], 0>>
            /\ handles[h][2] \in 0 .. MaxClones
        BY <1>1, <1>2, InstanceFacts DEF Original
      <4>3. handles[g][1] = handles[h][1] /\ clones[handles[h][1]] = 0
        BY <3>1, <4>1, <4>2
      <4>4. PICK k \in DOMAIN services : services[k] = handles[h]
        BY <1>2, <4>3 DEF PipelineInv, Served, Places
      <4>5. handles[h][2] <= 0
        BY <4>3, <4>4 DEF PipelineInv, Listed
      <4>6. handles[h] = handles[g]
        BY <4>1, <4>2, <4>5
      <4> QED
        BY <3>1, <4>6 DEF PipelineInv, Apart
    <3>4. PICK k \in DOMAIN services : services[k] = handles[g]
      BY <3>2 DEF Places
    <3>5. k # l
      BY <1>4, <3>3, <3>4
    <3> QED
      BY <1>4, <3>1, <3>4, <3>5
  <2> QED
    BY <2>1, <2>2 DEF Served, Places
<1> QED
  BY <1>7, <1>8, <1>9

LEMMA ListStep == PipelineInv /\ [Next]_vars => Listed' /\ Apart' /\ Served'
<1> SUFFICES ASSUME PipelineInv, [Next]_vars PROVE Listed' /\ Apart' /\ Served'
  OBVIOUS
<1> USE PipelineAssumption
<1>0. ASSUME NEW f, Fault(f) PROVE Listed' /\ Apart' /\ Served'
  BY <1>0, ListKept DEF Fault, streamvars
<1>1. ASSUME UNCHANGED <<streamvars, srv, running, thread>> PROVE Listed' /\ Apart' /\ Served'
  BY <1>1, ListKept
\* A broadcast wakes a thread, which is alive.
<1>2. ASSUME NEW i, thread' = Wakened(i)
      PROVE  \A j \in Instances : /\ thread[j] = "none" <=> thread'[j] = "none"
                                  /\ thread'[j] = "ended" <=> thread[j] = "ended"
  BY <1>2 DEF Wakened, PipelineInv, TypeOK
<1>3. CASE ReadHead \/ GetPacket \/ WalkGive \/ WalkNext
  BY <1>0, <1>1, <1>3 DEF ReadHead, GetPacket, WalkGive, WalkNext
<1>4. CASE QueueTsPacket
  <2>1. CASE ~Fault("packet")
    <3>1. UNCHANGED <<streamvars, srv, running>>
      BY <1>4, <2>1 DEF QueueTsPacket
    <3>2. thread' = Wakened(walk.target) \/ UNCHANGED thread
      BY <1>4, <2>1 DEF QueueTsPacket
    <3> QED
      BY <1>1, <1>2, <3>1, <3>2, ListKept
  <2> QED
    BY <1>0, <2>1
<1>5. ASSUME NEW i \in Instances, QueueThread(i) PROVE Listed' /\ Apart' /\ Served'
  <2>1. CASE QueueTest(i)
    <3>1. UNCHANGED <<streamvars, srv, running>> /\ thread[i] = "test"
          /\ thread' = [thread EXCEPT ![i] = IF running[i] THEN "get" ELSE "ended"]
      BY <2>1 DEF QueueTest
    <3>2. ~running[i] => Places(i) = {}
      BY DEF Places, PipelineInv, Served
    <3>3. \A j \in Instances : thread[j] = "none" <=> thread'[j] = "none"
      BY <3>1 DEF PipelineInv, TypeOK
    <3>4. \A j \in Instances : thread'[j] = "ended" => thread[j] = "ended" \/ Places(j) = {}
      BY <3>1, <3>2 DEF PipelineInv, TypeOK
    <3> QED
      BY <3>1, <3>3, <3>4, ListKept
  <2>2. ASSUME queue[i] # <<>>, Pop(i), thread[i] # "none" PROVE Listed' /\ Apart' /\ Served'
    <3>1. UNCHANGED <<streamvars, srv, running>>
          /\ thread' = [thread EXCEPT ![i] = IF Head(queue[i]) = Sentinel THEN "ended" ELSE "write"]
      BY <2>2 DEF Pop
    <3>2. Head(queue[i]) = Sentinel => Places(i) = {}
      <4>1. 1 \in DOMAIN queue[i] /\ Head(queue[i]) = queue[i][1]
        BY <2>2, TailQueue DEF PipelineInv, TypeOK
      <4>2. Head(queue[i]) = Sentinel => Stopping(i)
        BY <4>1 DEF PipelineInv, Queued
      <4> QED
        BY <4>2 DEF Stopping, PipelineInv, Listed
    <3>3. \A j \in Instances : thread[j] = "none" <=> thread'[j] = "none"
      BY <2>2, <3>1 DEF PipelineInv, TypeOK
    <3>4. \A j \in Instances : thread'[j] = "ended" => thread[j] = "ended" \/ Places(j) = {}
      BY <3>1, <3>2 DEF PipelineInv, TypeOK
    <3> QED
      BY <3>1, <3>3, <3>4, ListKept
  <2>3. CASE QueueGet(i)
    <3>1. CASE queue[i] = <<>>
      <4>1. UNCHANGED <<streamvars, srv, running>> /\ thread[i] = "get"
            /\ thread' = [thread EXCEPT ![i] = "wait"]
        BY <2>3, <3>1 DEF QueueGet
      <4>2. \A j \in Instances : /\ thread[j] = "none" <=> thread'[j] = "none"
                                 /\ thread'[j] = "ended" => thread[j] = "ended"
        BY <4>1 DEF PipelineInv, TypeOK
      <4> QED
        BY <4>1, <4>2, ListKept
    <3> QED
      BY <2>2, <2>3, <3>1 DEF QueueGet
  <2>4. CASE QueueGoOn(i)
    BY <1>0, <2>2, <2>4 DEF QueueGoOn
  <2>5. CASE QueueWrite(i)
    <3>1. CASE ~Fault("packet")
      <4>1. UNCHANGED <<streamvars, srv, running>> /\ thread[i] = "write"
            /\ thread' = [thread EXCEPT ![i] = "test"]
        BY <2>5, <3>1 DEF QueueWrite
      <4>2. \A j \in Instances : /\ thread[j] = "none" <=> thread'[j] = "none"
                                 /\ thread'[j] = "ended" => thread[j] = "ended"
        BY <4>1 DEF PipelineInv, TypeOK
      <4> QED
        BY <4>1, <4>2, ListKept
    <3> QED
      BY <1>0, <3>1
  <2> QED
    BY <1>5, <2>1, <2>3, <2>4, <2>5 DEF QueueThread
<1>6. ASSUME NEW h \in Handles, Read(h) PROVE Listed' /\ Apart' /\ Served'
  BY <1>6, ListAndThreadsKept DEF Read
<1>7. CASE ReadSome
  BY <1>7, ListAndThreadsKept DEF ReadSome
<1>8. CASE StopQueueThread
  <2>1. PICK o \in Instances : o = srv.at
    BY <1>8 DEF StopQueueThread, PipelineInv, Occupied
  <2>2. /\ running' = [running EXCEPT ![o] = FALSE] /\ thread' = Wakened(o)
        /\ UNCHANGED streamvars /\ srv.pc = "erased" /\ srv'.pc = "told" /\ srv'.at = o
    BY <1>8, <2>1 DEF StopQueueThread, PipelineInv, TypeOK, Jobs
  <2>3. Places(o) = {} /\ UNCHANGED <<services, handles, clones>>
    BY <2>1, <2>2 DEF PipelineInv, Listed, streamvars
  <2>4. \A j \in Instances : /\ thread[j] = "none" <=> thread'[j] = "none"
                             /\ thread'[j] = "ended" <=> thread[j] = "ended"
    BY <1>2, <2>2
  <2>5. ASSUME NEW k \in DOMAIN services
        PROVE  running'[services[k]] /\ thread'[services[k]] \notin {"none", "ended"}
    <3>1. services[k] \in Instances /\ services[k] # o
      BY <2>3 DEF Places, PipelineInv, TypeOK
    <3>2. running[services[k]] /\ thread[services[k]] \notin {"none", "ended"}
      BY DEF PipelineInv, Served
    <3> QED
      BY <2>2, <2>4, <3>1, <3>2 DEF PipelineInv, TypeOK
  <2>6. \A j \in Instances : {k \in DOMAIN services : services[k] = j} = {}
          => thread'[j] = "none" \/ j = o
    BY <2>1, <2>4 DEF PipelineInv, Listed, Places
  <2>7. Listed'
    BY <2>2, <2>3, <2>6 DEF Listed, PipelineInv, Places
  <2>8. Apart' /\ Served'
    BY <2>3, <2>5 DEF Apart, Served, PipelineInv, Places
  <2> QED
    BY <2>7, <2>8
<1>9. CASE WaitForStopQueueThread
  <2>1. PICK o \in Instances : o = srv.at
    BY <1>9 DEF WaitForStopQueueThread, PipelineInv, Occupied
  <2>2. /\ thread' = [thread EXCEPT ![o] = "none"] /\ UNCHANGED <<streamvars, running>>
        /\ srv.pc = "told" /\ srv'.pc = "joined" /\ srv'.at = o
    BY <1>9, <2>1 DEF WaitForStopQueueThread, PipelineInv, TypeOK, Jobs
  <2>3. Places(o) = {} /\ UNCHANGED <<services, handles, clones>>
    BY <2>1, <2>2 DEF PipelineInv, Listed, streamvars
  <2>4. \A j \in Instances : thread'[j] = IF j = o THEN "none" ELSE thread[j]
    BY <2>2 DEF PipelineInv, TypeOK
  <2>5. ASSUME NEW k \in DOMAIN services
        PROVE  running'[services[k]] /\ thread'[services[k]] \notin {"none", "ended"}
    <3>1. services[k] \in Instances /\ services[k] # o
      BY <2>3 DEF Places, PipelineInv, TypeOK
    <3>2. running[services[k]] /\ thread[services[k]] \notin {"none", "ended"}
      BY DEF PipelineInv, Served
    <3> QED
      BY <2>2, <2>4, <3>1, <3>2
  <2>6. \A j \in Instances : {k \in DOMAIN services : services[k] = j} = {} => thread'[j] = "none"
    BY <2>1, <2>4 DEF PipelineInv, Listed, Places
  <2>7. Listed'
    BY <2>2, <2>3, <2>6 DEF Listed, PipelineInv, Places
  <2>8. Apart' /\ Served'
    BY <2>3, <2>5 DEF Apart, Served, PipelineInv, Places
  <2> QED
    BY <2>7, <2>8
<1>10. CASE Flush
  <2>1. CASE ~Fault("packet")
    <3>1. UNCHANGED <<streamvars, running, thread>> /\ srv'.pc = "idle" /\ srv.pc = "joined"
      BY <1>10, <2>1 DEF Flush
    <3> QED
      BY <3>1, ListAndThreadsKept
  <2> QED
    BY <1>0, <2>1
<1>11. CASE UNCHANGED vars
  BY <1>1, <1>11 DEF vars, streamvars
<1> QED
  BY <1>3, <1>4, <1>5, <1>6, <1>7, <1>8, <1>9, <1>10, <1>11, OpenLists, CloseDelists
  DEF Next, Walker, Server, Stop

-----------------------------------------------------------------------------
(* Theorems *)

LEMMA PipelineInvariant == Spec => []PipelineInv
<1>1. PipelineInv /\ [Next]_vars => PipelineInv'
  BY TypeStep, OccupiedStep, QueuedStep, ListStep DEF PipelineInv
<1> QED
  BY <1>1, PipelineInit, PTL DEF Spec

\* The pipeline keeps its types: a queue never exceeds its size by more than
\* the sentinel of a stop, and no packet's count falls below zero.
THEOREM PipelineTypeCorrect == Spec => []TypeOK
BY PipelineInvariant, PTL DEF PipelineInv

\* A queue thread that is woken never takes from an empty queue, however many
\* services are opened and closed while packets arrive.
THEOREM WokenThreadsFindSomething == Spec => []NoEmptyFront
BY PipelineInvariant, PTL DEF PipelineInv

\* Every service in the list has a live queue thread, also after it has been
\* stopped and started again, and a stream whose service was never cloned is
\* in the list as long as it is open.
THEOREM OpenStreamsAreServed == Spec => []Served
BY PipelineInvariant, PTL DEF PipelineInv

-----------------------------------------------------------------------------
(* Packets and their counts: who holds a packet *)

Kept == Packets \cup {Sentinel}

\* Holders, for queue threads that hold h and queues q.
HoldersIn(h, q, p) ==
  {x \in Instances \X Nat :
     \/ x[2] = 0 /\ h[x[1]] = p
     \/ x[2] \in DOMAIN q[x[1]] /\ q[x[1]][x[2]] = p}

LEMMA HoldersAre ==
  ASSUME NEW h, NEW q \in [Instances -> Seq(Kept)], NEW p
  PROVE  {<<i, 0>> : i \in {j \in Instances : h[j] = p}}
           \cup UNION {{<<i, k>> : k \in Occurrences(q[i], p)} : i \in Instances}
         = HoldersIn(h, q, p)
<1> DEFINE A == {<<i, 0>> : i \in {j \in Instances : h[j] = p}}
           B == UNION {{<<i, k>> : k \in Occurrences(q[i], p)} : i \in Instances}
<1>1. \A i \in Instances : DOMAIN q[i] \subseteq Nat
  OBVIOUS
<1>2. ASSUME NEW x \in A \cup B PROVE x \in HoldersIn(h, q, p)
  <2>1. CASE x \in A
    BY <2>1 DEF HoldersIn
  <2>2. CASE x \in B
    <3>1. PICK i \in Instances : x \in {<<i, k>> : k \in Occurrences(q[i], p)}
      BY <2>2
    <3>2. PICK k \in Occurrences(q[i], p) : x = <<i, k>>
      BY <3>1
    <3>3. k \in DOMAIN q[i] /\ q[i][k] = p /\ k \in Nat
      BY <1>1, <3>2 DEF Occurrences
    <3> QED
      BY <3>2, <3>3 DEF HoldersIn
  <2> QED
    BY <2>1, <2>2
<1>3. ASSUME NEW x \in HoldersIn(h, q, p) PROVE x \in A \cup B
  <2>1. PICK i \in Instances, k \in Nat : x = <<i, k>>
    BY DEF HoldersIn
  <2>2. (k = 0 /\ h[i] = p) \/ (k \in DOMAIN q[i] /\ q[i][k] = p)
    BY <2>1 DEF HoldersIn
  <2>3. CASE k = 0 /\ h[i] = p
    BY <2>1, <2>3
  <2>4. CASE k \in DOMAIN q[i] /\ q[i][k] = p
    <3>1. k \in Occurrences(q[i], p)
      BY <2>4 DEF Occurrences
    <3>2. x \in {<<i, l>> : l \in Occurrences(q[i], p)}
      BY <2>1, <3>1
    <3> QED
      BY <3>2
  <2> QED
    BY <2>2, <2>3, <2>4
<1> HIDE DEF A, B
<1>4. A \cup B = HoldersIn(h, q, p)
  BY <1>2, <1>3
<1> QED
  BY <1>4 DEF A, B

\* Something is put into the queue of i.
LEMMA HoldersPut ==
  ASSUME NEW h, NEW q \in [Instances -> Seq(Kept)], NEW i \in Instances, NEW x \in Kept, NEW p
  PROVE  /\ HoldersIn(h, [q EXCEPT ![i] = Append(@, x)], p)
              = IF x = p THEN HoldersIn(h, q, p) \cup {<<i, Len(q[i]) + 1>>} ELSE HoldersIn(h, q, p)
         /\ <<i, Len(q[i]) + 1>> \notin HoldersIn(h, q, p)
<1> DEFINE n == Len(q[i])
           new == [q EXCEPT ![i] = Append(@, x)]
<1>1. q[i] \in Seq(Kept) /\ n \in Nat /\ DOMAIN q[i] = 1 .. n
  OBVIOUS
<1>2. new[i] = Append(q[i], x) /\ \A j \in Instances : j # i => new[j] = q[j]
  OBVIOUS
<1>3. DOMAIN new[i] = 1 .. n + 1 /\ \A k \in 1 .. n + 1 : new[i][k] = IF k = n + 1 THEN x ELSE q[i][k]
  BY <1>1, <1>2
<1> HIDE DEF new, n
<1>4. <<i, n + 1>> \notin HoldersIn(h, q, p) /\ <<i, n + 1>> \in Instances \X Nat
  BY <1>1 DEF HoldersIn
<1>5. ASSUME NEW j \in Instances, NEW k \in Nat
      PROVE  <<j, k>> \in HoldersIn(h, new, p)
               <=> <<j, k>> \in HoldersIn(h, q, p) \/ (x = p /\ j = i /\ k = n + 1)
  <2>1. CASE j # i
    BY <1>2, <2>1 DEF HoldersIn
  <2>2. CASE j = i
    BY <1>1, <1>3, <2>2 DEF HoldersIn
  <2> QED
    BY <2>1, <2>2
<1>6. HoldersIn(h, new, p) \subseteq Instances \X Nat /\ HoldersIn(h, q, p) \subseteq Instances \X Nat
  BY DEF HoldersIn
<1>7. CASE x = p
  <2>1. HoldersIn(h, new, p) = HoldersIn(h, q, p) \cup {<<i, n + 1>>}
    BY <1>1, <1>4, <1>5, <1>6, <1>7
  <2> QED
    BY <1>4, <1>7, <2>1 DEF new, n
<1>8. CASE x # p
  <2>1. \A y \in Instances \X Nat : y \in HoldersIn(h, new, p) <=> y \in HoldersIn(h, q, p)
    BY <1>5, <1>8
  <2>2. HoldersIn(h, new, p) = HoldersIn(h, q, p)
    BY <1>6, <2>1
  <2> QED
    BY <1>4, <1>8, <2>2 DEF new, n
<1> QED
  BY <1>7, <1>8

\* The queue thread of i, which holds nothing, takes the first of its queue.
LEMMA HoldersTake ==
  ASSUME NEW h \in [Instances -> Kept], NEW q \in [Instances -> Seq(Kept)],
         NEW i \in Instances, h[i] = Sentinel, q[i] # <<>>, NEW p \in Packets,
         IsFiniteSet(HoldersIn(h, q, p))
  PROVE  LET now == HoldersIn([h EXCEPT ![i] = Head(q[i])], [q EXCEPT ![i] = Tail(@)], p)
         IN IsFiniteSet(now) /\ Cardinality(now) = Cardinality(HoldersIn(h, q, p))
<1> DEFINE h1 == [h EXCEPT ![i] = Head(q[i])]
           q1 == [q EXCEPT ![i] = Tail(@)]
           S == HoldersIn(h, q, p)
           T == HoldersIn(h1, q1, p)
           f == [x \in S |-> IF x[1] = i THEN <<i, x[2] - 1>> ELSE x]
<1>1. p # Sentinel
  BY DEF Packets, Sentinel
<1>2. q[i] \in Seq(Kept) /\ Len(q[i]) \in Nat \ {0} /\ DOMAIN q[i] = 1 .. Len(q[i])
  OBVIOUS
<1>3. Head(q[i]) = q[i][1] /\ DOMAIN Tail(q[i]) = 1 .. Len(q[i]) - 1
      /\ \A k \in 1 .. Len(q[i]) - 1 : Tail(q[i])[k] = q[i][k + 1]
  BY <1>2
<1>4. h1[i] = q[i][1] /\ \A j \in Instances : j # i => h1[j] = h[j] /\ q1[j] = q[j]
  BY <1>3
<1>5. DOMAIN q1[i] = 1 .. Len(q[i]) - 1 /\ \A k \in 1 .. Len(q[i]) - 1 : q1[i][k] = q[i][k + 1]
  BY <1>3
<1> HIDE DEF h1, q1
<1>6. S \subseteq Instances \X Nat /\ T \subseteq Instances \X Nat
  BY DEF HoldersIn
<1>7. ASSUME NEW j \in Instances, NEW k \in Nat, j # i
      PROVE  <<j, k>> \in T <=> <<j, k>> \in S
  BY <1>4, <1>7 DEF HoldersIn
<1>8. ASSUME NEW k \in Nat PROVE <<i, k>> \in S <=> k \in 1 .. Len(q[i]) /\ q[i][k] = p
  BY <1>1, <1>2 DEF HoldersIn
<1>9. ASSUME NEW k \in Nat PROVE <<i, k>> \in T <=> k + 1 \in 1 .. Len(q[i]) /\ q[i][k + 1] = p
  <2>1. <<i, k>> \in T <=> (k = 0 /\ q[i][1] = p) \/ (k \in 1 .. Len(q[i]) - 1 /\ q[i][k + 1] = p)
    <3>1. <<i, k>> \in T <=> (k = 0 /\ h1[i] = p) \/ (k \in DOMAIN q1[i] /\ q1[i][k] = p)
      BY DEF HoldersIn
    <3> QED
      BY <1>4, <1>5, <3>1
  <2> QED
    BY <1>2, <2>1
<1> HIDE DEF S, T
<1>10. \A x \in S : f[x] \in T
  <2> SUFFICES ASSUME NEW x \in S PROVE f[x] \in T
    OBVIOUS
  <2>1. PICK j \in Instances, k \in Nat : x = <<j, k>>
    BY <1>6
  <2>2. CASE j = i
    <3>1. k \in 1 .. Len(q[i]) /\ q[i][k] = p /\ k - 1 \in Nat /\ (k - 1) + 1 = k
      BY <1>8, <2>1, <2>2
    <3>2. <<i, k - 1>> \in T
      BY <1>9, <3>1
    <3> QED
      BY <2>1, <2>2, <3>2
  <2>3. CASE j # i
    BY <1>7, <2>1, <2>3
  <2> QED
    BY <2>2, <2>3
<1>11. \A x, y \in S : f[x] = f[y] => x = y
  <2> SUFFICES ASSUME NEW x \in S, NEW y \in S, f[x] = f[y] PROVE x = y
    OBVIOUS
  <2>1. PICK j \in Instances, k \in Nat : x = <<j, k>>
    BY <1>6
  <2>2. PICK l \in Instances, m \in Nat : y = <<l, m>>
    BY <1>6
  <2>3. f[x] = <<j, IF j = i THEN k - 1 ELSE k>> /\ f[y] = <<l, IF l = i THEN m - 1 ELSE m>>
    BY <2>1, <2>2
  <2> QED
    BY <2>1, <2>2, <2>3
<1>12. \A y \in T : \E x \in S : f[x] = y
  <2> SUFFICES ASSUME NEW y \in T PROVE \E x \in S : f[x] = y
    OBVIOUS
  <2>1. PICK j \in Instances, k \in Nat : y = <<j, k>>
    BY <1>6
  <2>2. CASE j = i
    <3>1. k + 1 \in Nat /\ (k + 1) - 1 = k /\ k + 1 \in 1 .. Len(q[i]) /\ q[i][k + 1] = p
      BY <1>9, <2>1, <2>2
    <3>2. <<i, k + 1>> \in S
      BY <1>8, <3>1
    <3>3. f[<<i, k + 1>>] = y
      BY <2>1, <2>2, <3>1, <3>2
    <3> QED
      BY <3>2, <3>3
  <2>3. CASE j # i
    BY <1>7, <2>1, <2>3
  <2> QED
    BY <2>2, <2>3
<1> HIDE DEF f
<1>13. f \in [S -> T]
  BY <1>10 DEF f
<1>14. f \in Bijection(S, T)
  BY <1>11, <1>12, <1>13 DEF Bijection, Injection, Surjection, IsInjective
<1>15. IsFiniteSet(T) /\ Cardinality(T) = Cardinality(S)
  <2>1. ExistsBijection(S, T)
    BY <1>14 DEF ExistsBijection
  <2>2. IsFiniteSet(S)
    BY DEF S
  <2> QED
    BY <2>1, <2>2, FS_Bijection
<1> QED
  BY <1>15 DEF S, T, h1, q1

\* The queue thread of i lets go of its packet.
LEMMA HoldersWrite ==
  ASSUME NEW h \in [Instances -> Kept], NEW q \in [Instances -> Seq(Kept)],
         NEW i \in Instances, NEW p \in Packets
  PROVE  /\ HoldersIn([h EXCEPT ![i] = Sentinel], q, p)
              = IF h[i] = p THEN HoldersIn(h, q, p) \ {<<i, 0>>} ELSE HoldersIn(h, q, p)
         /\ h[i] = p => <<i, 0>> \in HoldersIn(h, q, p)
<1> DEFINE new == [h EXCEPT ![i] = Sentinel]
<1>1. p # Sentinel
  BY DEF Packets, Sentinel
<1>2. 0 \notin DOMAIN q[i]
  OBVIOUS
<1>3. new[i] = Sentinel /\ \A j \in Instances : j # i => new[j] = h[j]
  OBVIOUS
<1> HIDE DEF new
<1>4. HoldersIn(new, q, p) \subseteq Instances \X Nat /\ HoldersIn(h, q, p) \subseteq Instances \X Nat
  BY DEF HoldersIn
<1>5. h[i] = p => <<i, 0>> \in HoldersIn(h, q, p)
  BY DEF HoldersIn
<1>6. ASSUME NEW j \in Instances, NEW k \in Nat
      PROVE  <<j, k>> \in HoldersIn(new, q, p)
               <=> <<j, k>> \in HoldersIn(h, q, p) /\ ~(h[i] = p /\ j = i /\ k = 0)
  <2>1. CASE j # i
    BY <1>3, <2>1 DEF HoldersIn
  <2>2. CASE j = i
    BY <1>1, <1>2, <1>3, <2>2 DEF HoldersIn
  <2> QED
    BY <2>1, <2>2
<1>7. CASE h[i] = p
  <2>1. HoldersIn(new, q, p) = HoldersIn(h, q, p) \ {<<i, 0>>}
    BY <1>4, <1>6, <1>7
  <2> QED
    BY <1>5, <1>7, <2>1 DEF new
<1>8. CASE h[i] # p
  <2>1. \A y \in Instances \X Nat : y \in HoldersIn(new, q, p) <=> y \in HoldersIn(h, q, p)
    BY <1>6, <1>8
  <2>2. HoldersIn(new, q, p) = HoldersIn(h, q, p)
    BY <1>4, <2>1
  <2> QED
    BY <1>5, <1>8, <2>2 DEF new
<1> QED
  BY <1>7, <1>8

\* The queue of i is flushed.
LEMMA HoldersFlush ==
  ASSUME NEW h, NEW q \in [Instances -> Seq(Kept)], NEW i \in Instances, NEW p \in Packets,
         IsFiniteSet(HoldersIn(h, q, p))
  PROVE  LET now == HoldersIn(h, [q EXCEPT ![i] = <<>>], p)
         IN /\ IsFiniteSet(now)
            /\ Cardinality(now) = Cardinality(HoldersIn(h, q, p)) - Cardinality(Occurrences(q[i], p))
<1> DEFINE new == [q EXCEPT ![i] = <<>>]
           S == HoldersIn(h, q, p)
           O == Occurrences(q[i], p)
           Q == {<<i, k>> : k \in O}
           f == [k \in O |-> <<i, k>>]
<1>1. \A j \in Instances : DOMAIN q[j] \subseteq Nat \ {0}
  OBVIOUS
<1>2. DOMAIN new[i] = {} /\ \A j \in Instances : j # i => new[j] = q[j]
  OBVIOUS
<1>3. O \subseteq DOMAIN q[i] /\ \A k : k \in O <=> k \in DOMAIN q[i] /\ q[i][k] = p
  BY DEF Occurrences
<1> HIDE DEF new, O
<1>4. HoldersIn(h, new, p) \subseteq Instances \X Nat /\ S \subseteq Instances \X Nat
  BY DEF HoldersIn
<1>5. ASSUME NEW j \in Instances, NEW k \in Nat
      PROVE  <<j, k>> \in HoldersIn(h, new, p) <=> <<j, k>> \in S /\ ~(j = i /\ k \in O)
  <2>1. CASE j # i
    BY <1>2, <2>1 DEF HoldersIn
  <2>2. CASE j = i
    BY <1>1, <1>2, <1>3, <2>2 DEF HoldersIn
  <2> QED
    BY <2>1, <2>2
<1>6. Q \subseteq S
  BY <1>1, <1>3 DEF HoldersIn
<1>7. \A j \in Instances, k \in Nat : <<j, k>> \in Q <=> j = i /\ k \in O
  BY <1>1, <1>3
<1> HIDE DEF S, Q
<1>8. HoldersIn(h, new, p) = S \ Q
  BY <1>4, <1>5, <1>7
<1>9. IsFiniteSet(O)
  <2>1. Len(q[i]) \in Nat /\ DOMAIN q[i] = 1 .. Len(q[i])
    OBVIOUS
  <2>2. O \in SUBSET (1 .. Len(q[i]))
    BY <1>3, <2>1
  <2>3. 1 \in Int /\ Len(q[i]) \in Int
    BY <2>1
  <2>4. IsFiniteSet(1 .. Len(q[i]))
    BY <2>3, FS_Interval
  <2> QED
    BY <2>2, <2>4, FS_Subset
<1>10. f \in Bijection(O, Q)
  <2>1. f \in [O -> Q]
    BY DEF Q
  <2>2. \A x, y \in O : f[x] = f[y] => x = y
    OBVIOUS
  <2>3. \A y \in Q : \E x \in O : f[x] = y
    BY DEF Q
  <2> HIDE DEF f
  <2> QED
    BY <2>1, <2>2, <2>3 DEF Bijection, Injection, Surjection, IsInjective
<1>11. IsFiniteSet(Q) /\ Cardinality(Q) = Cardinality(O)
  <2>1. ExistsBijection(O, Q)
    BY <1>10 DEF ExistsBijection
  <2> QED
    BY <1>9, <2>1, FS_Bijection
<1>12. IsFiniteSet(S \ Q) /\ Cardinality(S \ Q) = Cardinality(S) - Cardinality(Q)
  <2>1. S \cap Q = Q
    BY <1>6
  <2>2. IsFiniteSet(S)
    BY DEF S
  <2> QED
    BY <2>1, <2>2, FS_Difference
<1> QED
  BY <1>8, <1>11, <1>12 DEF S, O, new

-----------------------------------------------------------------------------
(* Packets and their counts: the invariant *)

\* A queue thread holds a packet only while it writes it, and nobody holds one
\* that the read thread has not read yet.
Idle == \A i \in Instances : thread[i] # "write" => held[i] = Sentinel

Known ==
  \A i \in Instances :
    /\ held[i] <= walk.packet
    /\ \A k \in DOMAIN queue[i] : queue[i][k] <= walk.packet
    /\ \A k \in DOMAIN bytes[i] : bytes[i][k] <= walk.packet

\* There may be any number of instances; only some hold a packet.
Finite == \A p \in Packets : IsFiniteSet(Holders(p))

RefsInv == Idle /\ Known /\ Finite /\ RefsExact

LEMMA HoldersNow ==
  ASSUME TypeOK, NEW p
  PROVE  Holders(p) = HoldersIn(held, queue, p)
<1>1. queue \in [Instances -> Seq(Kept)]
  BY DEF TypeOK, Kept
<1> QED
  BY <1>1, HoldersAre DEF Holders

LEMMA HoldersThen ==
  ASSUME TypeOK', NEW p
  PROVE  Holders(p)' = HoldersIn(held', queue', p)
<1>1. queue' \in [Instances -> Seq(Kept)]
  BY DEF TypeOK, Kept
<1> QED
  BY <1>1, HoldersAre DEF Holders

\* A packet that the read thread gives out, or a queue thread or a queue holds,
\* is not freed.
LEMMA CountedPositive ==
  ASSUME TypeOK, Finite, RefsExact, "full" \notin mishaps, NEW p \in Packets
  PROVE  /\ Walking(p) => ref[p] > 0
         /\ Holders(p) # {} => ref[p] > 0
<1>1. Cardinality(Holders(p)) \in Nat /\ (Cardinality(Holders(p)) = 0 <=> Holders(p) = {})
  BY FS_CardinalityType, FS_EmptySet DEF Finite
<1>2. ref[p] = Cardinality(Holders(p)) + (IF Walking(p) THEN 1 ELSE 0)
  BY DEF RefsExact
<1> QED
  BY <1>1, <1>2

\* Steps which leave the holders of packets alone.
LEMMA RefsKept ==
  ASSUME RefsInv, UNCHANGED <<held, queue, ref>>, walk'.packet = walk.packet,
         \A p \in Packets : Walking(p)' <=> Walking(p),
         mishaps \subseteq mishaps', fault' = "packet" => fault = "packet",
         \A i \in Instances : thread[i] = "write" => thread'[i] = "write",
         \A i \in Instances : \A k \in DOMAIN bytes'[i] :
           \E l \in DOMAIN bytes[i] : bytes'[i][k] = bytes[i][l]
  PROVE  RefsInv'
<1>1. \A p : Holders(p)' = Holders(p)
  BY DEF Holders
<1>2. Idle' /\ Known' /\ Finite'
  BY <1>1 DEF RefsInv, Idle, Known, Finite
<1>3. RefsExact'
  BY <1>1 DEF RefsInv, RefsExact
<1> QED
  BY <1>2, <1>3 DEF RefsInv

\* A freed packet is met only after a queue was full.
LEMMA RefsFault ==
  ASSUME RefsInv, NEW f, Fault(f), f # "packet" \/ "full" \in mishaps
  PROVE  RefsInv'
<1>1. UNCHANGED <<held, queue, bytes, thread, ref, walk, mishaps>> /\ fault' = f
  BY DEF Fault
<1>2. \A p : Holders(p)' = Holders(p) /\ (Walking(p)' <=> Walking(p))
  BY <1>1 DEF Holders, Walking
<1>3. Idle' /\ Known' /\ Finite'
  BY <1>1, <1>2 DEF RefsInv, Idle, Known, Finite
<1>4. RefsExact'
  BY <1>1, <1>2 DEF RefsInv, RefsExact
<1> QED
  BY <1>3, <1>4 DEF RefsInv

LEMMA RefsInit == Init => RefsInv
<1> SUFFICES ASSUME Init PROVE RefsInv
  OBVIOUS
<1>1. TypeOK
  BY PipelineInit DEF PipelineInv
<1>2. \A p \in Packets : Holders(p) = {}
  <2> SUFFICES ASSUME NEW p \in Packets PROVE Holders(p) = {}
    OBVIOUS
  <2>1. p # Sentinel
    BY DEF Packets, Sentinel
  <2>2. HoldersIn(held, queue, p) = {}
    BY <2>1 DEF Init, HoldersIn
  <2> QED
    BY <1>1, <2>2, HoldersNow
<1>3. Idle /\ Known
  BY DEF Init, Idle, Known, Sentinel
<1>4. Finite
  BY <1>2, FS_EmptySet DEF Finite
<1>5. RefsExact
  <2>1. \A p \in Packets : Cardinality(Holders(p)) = 0 /\ ref[p] = 0 /\ ~Walking(p)
    BY <1>2, FS_EmptySet DEF Init, Walking
  <2>2. fault # "packet"
    BY DEF Init
  <2> QED
    BY <2>1, <2>2 DEF RefsExact
<1> QED
  BY <1>3, <1>4, <1>5 DEF RefsInv

-----------------------------------------------------------------------------
(* ... and the steps of the read thread *)

LEMMA RefsGetPacket ==
  ASSUME PipelineInv, TypeOK', RefsInv, GetPacket
  PROVE  RefsInv'
<1> USE DEF PipelineInv
<1> DEFINE new == walk.packet + 1
<1>1. /\ walk.pc = "read" /\ walk.packet \in Nat /\ walk'.pc = "next" /\ walk'.packet = new
      /\ ref' = [ref EXCEPT ![new] = 1]
      /\ UNCHANGED <<queue, bytes, thread, held, fault, mishaps>>
  BY WalkFacts DEF GetPacket
<1>2. new \in Packets /\ ref \in [Packets -> Nat]
  BY WalkFacts, PipelineAssumption DEF GetPacket, TypeOK, Packets
<1> HIDE DEF new
<1>3. \A p : Holders(p)' = Holders(p)
  BY <1>1 DEF Holders
<1>4. Holders(new) = {}
  <2>1. \A i \in Instances : held[i] # new /\ \A k \in DOMAIN queue[i] : queue[i][k] # new
    <3>1. walk.packet < new /\ walk.packet \in Int /\ new \in Int
      BY <1>1 DEF new
    <3>2. \A i \in Instances : held[i] \in Int /\ \A k \in DOMAIN queue[i] : queue[i][k] \in Int
      BY DEF TypeOK, Packets, Sentinel
    <3> QED
      BY <3>1, <3>2 DEF RefsInv, Known
  <2>2. HoldersIn(held, queue, new) = {}
    BY <2>1 DEF HoldersIn
  <2> QED
    BY <2>2, HoldersNow
<1>5. Idle' /\ Finite'
  BY <1>1, <1>3 DEF RefsInv, Idle, Finite
<1>6. Known'
  <2>1. \A i \in Instances : held[i] \in Int /\ (\A k \in DOMAIN queue[i] : queue[i][k] \in Int)
          /\ (\A k \in DOMAIN bytes[i] : bytes[i][k] \in Int)
    <3> SUFFICES ASSUME NEW i \in Instances
                 PROVE  held[i] \in Int /\ (\A k \in DOMAIN queue[i] : queue[i][k] \in Int)
                        /\ (\A k \in DOMAIN bytes[i] : bytes[i][k] \in Int)
      OBVIOUS
    <3>1. Packets \subseteq Int /\ Sentinel \in Int
      BY DEF Packets, Sentinel
    <3>2. held[i] \in Packets \cup {Sentinel} /\ queue[i] \in Seq(Packets \cup {Sentinel})
          /\ bytes[i] \in Seq(Packets)
      BY DEF TypeOK
    <3>3. (\A k \in DOMAIN queue[i] : queue[i][k] \in Packets \cup {Sentinel})
          /\ (\A k \in DOMAIN bytes[i] : bytes[i][k] \in Packets)
      BY <3>2
    <3> QED
      BY <3>1, <3>2, <3>3
  <2>2. \A n \in Int : n <= walk.packet => n <= new
    BY <1>1 DEF new
  <2> QED
    BY <1>1, <2>1, <2>2 DEF RefsInv, Known
<1>7. RefsExact'
  <2> SUFFICES ASSUME "full" \notin mishaps, NEW p \in Packets
               PROVE  ref'[p] = Cardinality(Holders(p)') + (IF Walking(p)' THEN 1 ELSE 0)
    BY <1>1 DEF RefsInv, RefsExact
  <2>1. fault # "packet" /\ ref[p] = Cardinality(Holders(p)) + (IF Walking(p) THEN 1 ELSE 0)
    BY DEF RefsInv, RefsExact
  <2>2. ~Walking(p) /\ (Walking(p)' <=> p = new)
    BY <1>1 DEF Walking
  <2>3. CASE p = new
    BY <1>1, <1>2, <1>3, <1>4, <2>1, <2>2, <2>3, FS_EmptySet
  <2>4. CASE p # new
    BY <1>1, <1>2, <1>3, <2>1, <2>2, <2>4
  <2> QED
    BY <2>3, <2>4
<1> QED
  BY <1>5, <1>6, <1>7 DEF RefsInv

\* The end of the services: the read thread releases its packet.
LEMMA RefsWalkNext ==
  ASSUME PipelineInv, TypeOK', RefsInv, WalkNext
  PROVE  RefsInv'
<1> USE DEF PipelineInv
<1>1. walk.pc = "next" /\ walk.packet \in Packets /\ Walking(walk.packet)
  BY DEF WalkNext, Occupied, Walking
<1>2. CASE Fault("iterator")
  BY <1>2, RefsFault
<1>3. CASE Fault("packet") /\ Freed(walk.packet)
  <2>1. "full" \in mishaps
    BY <1>1, <1>3, CountedPositive DEF RefsInv, Freed, TypeOK
  <2> QED
    BY <1>3, <2>1, RefsFault
<1>4. CASE /\ DecRef(walk.packet)
           /\ walk' = [walk EXCEPT !.pc = "head", !.takers = {}, !.pos = 1]
           /\ UNCHANGED <<streamvars, queue, bytes, running, thread, held, srv, fault, mishaps>>
  <2>1. walk'.pc = "head" /\ walk'.packet = walk.packet
        /\ ref' = [ref EXCEPT ![walk.packet] = @ - 1]
    BY <1>4, WalkFacts DEF DecRef
  <2>2. \A p : Holders(p)' = Holders(p)
    BY <1>4 DEF Holders
  <2>3. Idle' /\ Known' /\ Finite'
    BY <1>4, <2>1, <2>2 DEF RefsInv, Idle, Known, Finite
  <2>4. RefsExact'
    <3> SUFFICES ASSUME "full" \notin mishaps, NEW p \in Packets
                 PROVE  ref'[p] = Cardinality(Holders(p)') + (IF Walking(p)' THEN 1 ELSE 0)
      BY <1>4 DEF RefsInv, RefsExact
    <3>1. fault # "packet" /\ ref[p] = Cardinality(Holders(p)) + (IF Walking(p) THEN 1 ELSE 0)
          /\ ref \in [Packets -> Nat] /\ Cardinality(Holders(p)) \in Nat
      BY FS_CardinalityType DEF RefsInv, RefsExact, Finite, TypeOK
    <3>2. ~Walking(p)' /\ (Walking(p) <=> p = walk.packet)
      BY <1>1, <2>1 DEF Walking
    <3>3. CASE p = walk.packet
      BY <1>1, <1>4, <2>1, <2>2, <3>1, <3>2, <3>3
    <3>4. CASE p # walk.packet
      BY <1>1, <1>4, <2>1, <2>2, <3>1, <3>2, <3>4
    <3> QED
      BY <3>3, <3>4
  <2> QED
    BY <2>3, <2>4 DEF RefsInv
<1>5. CASE /\ walk' \in {[walk EXCEPT !.pc = "give"], [walk EXCEPT !.pos = @ + 1]}
           /\ UNCHANGED <<streamvars, queue, bytes, running, thread, held, ref, srv, fault, mishaps>>
  <2>1. walk'.packet = walk.packet /\ walk'.pc \in {"next", "give"}
    BY <1>1, <1>5, WalkFacts
  <2> QED
    BY <1>1, <1>5, <2>1, RefsKept DEF Walking
<1> QED
  BY <1>2, <1>3, <1>4, <1>5 DEF WalkNext

LEMMA RefsWalkGive ==
  ASSUME PipelineInv, TypeOK', RefsInv, WalkGive
  PROVE  RefsInv'
<1>1. CASE Fault("iterator")
  BY <1>1, RefsFault
<1>2. CASE ~Fault("iterator")
  <2>1. walk.pc = "give" /\ walk'.pc = "put" /\ walk'.packet = walk.packet
        /\ UNCHANGED <<held, queue, bytes, ref, thread, fault, mishaps>>
    BY <1>2, WalkFacts DEF WalkGive, PipelineInv
  <2> QED
    BY <2>1, RefsKept DEF Walking
<1> QED
  BY <1>1, <1>2

\* The packet is queued and counted once more.
LEMMA RefsQueueTsPacket ==
  ASSUME PipelineInv, TypeOK', RefsInv, QueueTsPacket
  PROVE  RefsInv'
<1> USE DEF PipelineInv
<1> DEFINE p == walk.packet
           i == walk.target
<1>1. walk.pc = "put" /\ p \in Packets /\ i \in Instances /\ Walking(p)
  BY DEF QueueTsPacket, Occupied, Walking
<1>2. CASE Fault("packet") /\ Freed(p)
  <2>1. "full" \in mishaps
    BY <1>1, <1>2, CountedPositive DEF RefsInv, Freed, TypeOK
  <2> QED
    BY <1>2, <2>1, RefsFault
<1>3. CASE ~Freed(p)
  <2>1. walk'.pc = "next" /\ walk'.packet = p /\ UNCHANGED <<bytes, held, fault>>
    BY <1>3, WalkFacts DEF QueueTsPacket
  <2>2. \A j \in Instances : thread[j] = "write" => thread'[j] = "write"
    BY <1>3 DEF QueueTsPacket, Wakened, TypeOK
  <2>3. CASE Len(queue[i]) < QueueSize
    <3>1. ref' = [ref EXCEPT ![p] = @ + 1] /\ queue' = [queue EXCEPT ![i] = Append(@, p)]
          /\ UNCHANGED mishaps
      BY <1>3, <2>3 DEF QueueTsPacket, IncRef
    <3> HIDE DEF p, i
    <3>2. queue \in [Instances -> Seq(Kept)] /\ p \in Kept
      BY <1>1 DEF TypeOK, Kept
    <3>3. ASSUME NEW r \in Packets
          PROVE  /\ Holders(r)' = IF p = r THEN Holders(r) \cup {<<i, Len(queue[i]) + 1>>} ELSE Holders(r)
                 /\ <<i, Len(queue[i]) + 1>> \notin Holders(r)
      <4>1. Holders(r) = HoldersIn(held, queue, r)
        BY HoldersNow
      <4>2. Holders(r)' = HoldersIn(held, [queue EXCEPT ![i] = Append(@, p)], r)
        BY <2>1, <3>1, HoldersThen
      <4>3. i \in Instances
        BY <1>1
      <4>4. /\ HoldersIn(held, [queue EXCEPT ![i] = Append(@, p)], r)
                 = IF p = r THEN HoldersIn(held, queue, r) \cup {<<i, Len(queue[i]) + 1>>}
                   ELSE HoldersIn(held, queue, r)
            /\ <<i, Len(queue[i]) + 1>> \notin HoldersIn(held, queue, r)
        BY <3>2, <4>3, HoldersPut, Zenon
      <4> QED
        BY <4>1, <4>2, <4>4
    <3>4. ASSUME NEW r \in Packets
          PROVE  /\ IsFiniteSet(Holders(r)') /\ Cardinality(Holders(r)) \in Nat
                 /\ Cardinality(Holders(r)') = Cardinality(Holders(r)) + (IF p = r THEN 1 ELSE 0)
      <4>1. IsFiniteSet(Holders(r)) /\ Cardinality(Holders(r)) \in Nat
        BY FS_CardinalityType DEF RefsInv, Finite
      <4>2. CASE p = r
        BY <3>3, <4>1, <4>2, FS_AddElement
      <4>3. CASE p # r
        BY <3>3, <4>1, <4>3
      <4> QED
        BY <4>1, <4>2, <4>3
    <3>5. Idle' /\ Finite'
      BY <2>1, <2>2, <3>4 DEF RefsInv, Idle, Finite
    <3>6. Known'
      <4>1. queue'[i] = Append(queue[i], p) /\ \A j \in Instances : j # i => queue'[j] = queue[j]
        BY <1>1, <3>1 DEF TypeOK
      <4>2. \A k \in DOMAIN Append(queue[i], p) :
              Append(queue[i], p)[k] = p \/ (k \in DOMAIN queue[i] /\ Append(queue[i], p)[k] = queue[i][k])
        BY <1>1, <3>2
      <4>3. p <= p /\ walk.packet = p
        BY <1>1 DEF Packets, p
      <4> QED
        BY <2>1, <4>1, <4>2, <4>3 DEF RefsInv, Known
    <3>7. RefsExact'
      <4> SUFFICES ASSUME "full" \notin mishaps, NEW r \in Packets
                   PROVE  ref'[r] = Cardinality(Holders(r)') + (IF Walking(r)' THEN 1 ELSE 0)
        BY <2>1, <3>1 DEF RefsInv, RefsExact
      <4>1. fault # "packet" /\ ref[r] = Cardinality(Holders(r)) + (IF Walking(r) THEN 1 ELSE 0)
            /\ ref \in [Packets -> Nat]
        BY DEF RefsInv, RefsExact, TypeOK
      <4>2. Walking(r)' <=> Walking(r)
        BY <1>1, <2>1 DEF Walking, p
      <4>3. CASE r = p
        BY <1>1, <2>1, <3>1, <3>4, <4>1, <4>2, <4>3
      <4>4. CASE r # p
        BY <1>1, <2>1, <3>1, <3>4, <4>1, <4>2, <4>4
      <4> QED
        BY <4>3, <4>4
    <3> QED
      BY <3>5, <3>6, <3>7 DEF RefsInv
  <2>4. CASE ~(Len(queue[i]) < QueueSize)
    <3>1. "full" \in mishaps' /\ UNCHANGED queue
      BY <1>3, <2>4 DEF QueueTsPacket
    <3>2. Idle' /\ Known' /\ Finite'
      BY <2>1, <2>2, <3>1 DEF RefsInv, Idle, Known, Finite, Holders
    <3> QED
      BY <3>1, <3>2 DEF RefsInv, RefsExact
  <2> QED
    BY <2>3, <2>4
<1> QED
  BY <1>2, <1>3 DEF QueueTsPacket

-----------------------------------------------------------------------------
(* ... of the queue threads *)

\* The packet that was queued first is held by the queue thread now.
LEMMA RefsPop ==
  ASSUME PipelineInv, TypeOK', RefsInv, NEW i \in Instances, queue[i] # <<>>, Pop(i),
         thread[i] # "write"
  PROVE  RefsInv'
<1>1. /\ held' = [held EXCEPT ![i] = Head(queue[i])] /\ queue' = [queue EXCEPT ![i] = Tail(@)]
      /\ UNCHANGED <<bytes, ref, walk, fault, mishaps>>
      /\ thread' = [thread EXCEPT ![i] = IF Head(queue[i]) = Sentinel THEN "ended" ELSE "write"]
  BY DEF Pop
<1>2. /\ held \in [Instances -> Kept] /\ queue \in [Instances -> Seq(Kept)] /\ held[i] = Sentinel
      /\ thread \in [Instances -> {"none", "test", "get", "wait", "woken", "write", "ended"}]
  BY DEF PipelineInv, TypeOK, Kept, RefsInv, Idle
<1>3. ASSUME NEW p \in Packets
      PROVE  IsFiniteSet(Holders(p)') /\ Cardinality(Holders(p)') = Cardinality(Holders(p))
  <2>1. Holders(p) = HoldersIn(held, queue, p) /\ IsFiniteSet(HoldersIn(held, queue, p))
    BY HoldersNow DEF PipelineInv, RefsInv, Finite
  <2>2. Holders(p)' = HoldersIn([held EXCEPT ![i] = Head(queue[i])], [queue EXCEPT ![i] = Tail(@)], p)
    BY <1>1, HoldersThen
  <2>3. LET now == HoldersIn([held EXCEPT ![i] = Head(queue[i])], [queue EXCEPT ![i] = Tail(@)], p)
        IN IsFiniteSet(now) /\ Cardinality(now) = Cardinality(HoldersIn(held, queue, p))
    BY <1>2, <2>1, HoldersTake, Zenon
  <2> QED
    BY <2>1, <2>2, <2>3
<1>4. \A j \in Instances : held'[j] = (IF j = i THEN Head(queue[i]) ELSE held[j])
        /\ queue'[j] = (IF j = i THEN Tail(queue[i]) ELSE queue[j])
  BY <1>1, <1>2
<1>5. queue[i] \in Seq(Packets \cup {Sentinel})
  BY <1>2 DEF Kept
<1>6. Idle'
  <2>1. \A j \in Instances :
          thread'[j] = (IF j # i THEN thread[j] ELSE IF Head(queue[i]) = Sentinel THEN "ended" ELSE "write")
    BY <1>1, <1>2
  <2> QED
    BY <1>4, <2>1 DEF RefsInv, Idle
<1>7. Known'
  <2> SUFFICES ASSUME NEW j \in Instances
               PROVE  /\ held'[j] <= walk.packet
                      /\ \A k \in DOMAIN queue'[j] : queue'[j][k] <= walk.packet
                      /\ \A k \in DOMAIN bytes[j] : bytes[j][k] <= walk.packet
    BY <1>1 DEF Known
  <2>1. CASE j # i
    BY <1>4, <2>1 DEF RefsInv, Known
  <2>2. CASE j = i
    <3>1. held'[i] = Head(queue[i]) /\ queue'[i] = Tail(queue[i])
      BY <1>4
    <3>2. 1 \in DOMAIN queue[i] /\ Head(queue[i]) = queue[i][1]
          /\ \A k \in DOMAIN Tail(queue[i]) : k + 1 \in DOMAIN queue[i] /\ Tail(queue[i])[k] = queue[i][k + 1]
      BY <1>5, TailQueue
    <3>3. \A k \in DOMAIN queue[i] : queue[i][k] <= walk.packet
      BY DEF RefsInv, Known
    <3>4. \A k \in DOMAIN bytes[i] : bytes[i][k] <= walk.packet
      BY DEF RefsInv, Known
    <3> QED
      BY <2>2, <3>1, <3>2, <3>3, <3>4
  <2> QED
    BY <2>1, <2>2
<1>8. Finite'
  BY <1>3 DEF Finite
<1>9. RefsExact'
  <2> SUFFICES ASSUME "full" \notin mishaps, NEW p \in Packets
               PROVE  ref'[p] = Cardinality(Holders(p)') + (IF Walking(p)' THEN 1 ELSE 0)
    BY <1>1 DEF RefsInv, RefsExact
  <2>1. Walking(p)' <=> Walking(p)
    BY <1>1 DEF Walking
  <2> QED
    BY <1>1, <1>3, <2>1 DEF RefsInv, RefsExact
<1> QED
  BY <1>6, <1>7, <1>8, <1>9 DEF RefsInv

\* A packet that is written is copied, and released.
LEMMA RefsQueueWrite ==
  ASSUME PipelineInv, TypeOK', RefsInv, NEW i \in Instances, QueueWrite(i)
  PROVE  RefsInv'
<1> DEFINE x == held[i]
<1>1. /\ x \in Packets /\ held \in [Instances -> Kept] /\ queue \in [Instances -> Seq(Kept)]
      /\ ref \in [Packets -> Nat] /\ bytes \in [Instances -> Seq(Packets)]
  BY DEF PipelineInv, Occupied, QueueWrite, TypeOK, Kept
<1>2. ASSUME NEW p \in Packets
      PROVE  /\ Holders(p) = HoldersIn(held, queue, p)
             /\ IsFiniteSet(Holders(p)) /\ Cardinality(Holders(p)) \in Nat
             /\ x = p => <<i, 0>> \in Holders(p)
  <2>1. Holders(p) = HoldersIn(held, queue, p)
    BY HoldersNow DEF PipelineInv
  <2>2. x = p => <<i, 0>> \in HoldersIn(held, queue, p)
    BY <1>1, HoldersWrite
  <2> QED
    BY <2>1, <2>2, FS_CardinalityType DEF RefsInv, Finite
<1>3. CASE Fault("packet") /\ Freed(x)
  <2>1. Holders(x) # {}
    BY <1>1, <1>2
  <2>2. "full" \in mishaps
    BY <1>1, <1>3, <2>1, CountedPositive DEF RefsInv, Freed, PipelineInv
  <2> QED
    BY <1>3, <2>2, RefsFault
<1>4. CASE ~Freed(x)
  <2>1. /\ bytes' = [bytes EXCEPT ![i] = Append(@, x)] /\ ref' = [ref EXCEPT ![x] = @ - 1]
        /\ held' = [held EXCEPT ![i] = Sentinel] /\ thread' = [thread EXCEPT ![i] = "test"]
        /\ UNCHANGED <<queue, walk, fault, mishaps>>
    BY <1>4 DEF QueueWrite, DecRef
  <2> HIDE DEF x
  <2>2. ASSUME NEW p \in Packets
        PROVE  /\ IsFiniteSet(Holders(p)')
               /\ Cardinality(Holders(p)') = Cardinality(Holders(p)) - (IF p = x THEN 1 ELSE 0)
    <3>1. Holders(p)' = HoldersIn([held EXCEPT ![i] = Sentinel], queue, p)
      BY <2>1, HoldersThen
    <3>2. HoldersIn([held EXCEPT ![i] = Sentinel], queue, p)
            = IF x = p THEN HoldersIn(held, queue, p) \ {<<i, 0>>} ELSE HoldersIn(held, queue, p)
      <4>1. held \in [Instances -> Kept] /\ queue \in [Instances -> Seq(Kept)]
        BY <1>1
      <4>2. /\ HoldersIn([held EXCEPT ![i] = Sentinel], queue, p)
                 = IF held[i] = p THEN HoldersIn(held, queue, p) \ {<<i, 0>>}
                   ELSE HoldersIn(held, queue, p)
            /\ held[i] = p => <<i, 0>> \in HoldersIn(held, queue, p)
        BY <4>1, HoldersWrite, Zenon
      <4> QED
        BY <4>2 DEF x
    <3>3. Holders(p)' = IF x = p THEN Holders(p) \ {<<i, 0>>} ELSE Holders(p)
      BY <1>2, <3>1, <3>2
    <3>4. CASE x = p
      <4>1. Holders(p)' = Holders(p) \ {<<i, 0>>} /\ <<i, 0>> \in Holders(p) /\ IsFiniteSet(Holders(p))
        BY <1>2, <3>3, <3>4
      <4>2. IsFiniteSet(Holders(p)') /\ Cardinality(Holders(p)') = Cardinality(Holders(p)) - 1
        BY <4>1, FS_RemoveElement, Zenon
      <4> QED
        BY <3>4, <4>2
    <3>5. CASE x # p
      BY <1>2, <3>3, <3>5
    <3> QED
      BY <3>4, <3>5
  <2>3. Idle' /\ Finite'
    BY <2>1, <2>2 DEF RefsInv, Idle, Finite, PipelineInv, TypeOK
  <2>4. Known'
    <3>1. held'[i] = Sentinel /\ \A j \in Instances : j # i => held'[j] = held[j] /\ bytes'[j] = bytes[j]
      BY <1>1, <2>1
    <3>2. bytes'[i] = Append(bytes[i], x)
      BY <1>1, <2>1
    <3>3. \A k \in DOMAIN Append(bytes[i], x) :
            Append(bytes[i], x)[k] = x \/ (k \in DOMAIN bytes[i] /\ Append(bytes[i], x)[k] = bytes[i][k])
      BY <1>1
    <3>4. x <= walk.packet /\ Sentinel <= walk.packet
      BY WalkFacts DEF RefsInv, Known, x, Sentinel, PipelineInv
    <3> QED
      BY <2>1, <3>1, <3>2, <3>3, <3>4 DEF RefsInv, Known
  <2>5. RefsExact'
    <3> SUFFICES ASSUME "full" \notin mishaps, NEW p \in Packets
                 PROVE  ref'[p] = Cardinality(Holders(p)') + (IF Walking(p)' THEN 1 ELSE 0)
      BY <2>1 DEF RefsInv, RefsExact
    <3>1. ref[p] = Cardinality(Holders(p)) + (IF Walking(p) THEN 1 ELSE 0)
      BY DEF RefsInv, RefsExact
    <3>2. Walking(p)' <=> Walking(p)
      BY <2>1 DEF Walking
    <3>3. ref'[p] = ref[p] - (IF p = x THEN 1 ELSE 0)
      BY <1>1, <2>1
    <3> QED
      BY <1>1, <1>2, <2>2, <3>1, <3>2, <3>3
  <2> QED
    BY <2>3, <2>4, <2>5 DEF RefsInv
<1> QED
  BY <1>3, <1>4 DEF QueueWrite

LEMMA RefsQueueThread ==
  ASSUME PipelineInv, TypeOK', RefsInv, NEW i \in Instances, QueueThread(i)
  PROVE  RefsInv'
<1> USE DEF PipelineInv
<1>0. thread \in [Instances -> {"none", "test", "get", "wait", "woken", "write", "ended"}]
  BY DEF TypeOK
<1>1. CASE QueueTest(i)
  <2>1. \A j \in Instances : thread[j] = "write" => thread'[j] = "write"
    BY <1>0, <1>1 DEF QueueTest
  <2> QED
    BY <1>1, <2>1, RefsKept DEF QueueTest, Walking
<1>2. CASE QueueGet(i)
  <2>1. CASE queue[i] = <<>>
    <3>1. \A j \in Instances : thread[j] = "write" => thread'[j] = "write"
      BY <1>0, <1>2, <2>1 DEF QueueGet
    <3> QED
      BY <1>2, <2>1, <3>1, RefsKept DEF QueueGet, Walking
  <2>2. CASE queue[i] # <<>>
    BY <1>2, <2>2, RefsPop DEF QueueGet
  <2> QED
    BY <2>1, <2>2
<1>3. CASE QueueGoOn(i)
  BY <1>3, RefsPop, RefsFault DEF QueueGoOn
<1> QED
  BY <1>1, <1>2, <1>3, RefsQueueWrite DEF QueueThread

-----------------------------------------------------------------------------
(* ... and of the server *)

LEMMA RefsStreams ==
  ASSUME PipelineInv, TypeOK', RefsInv, NEW h \in Handles, Open(h) \/ Read(h) \/ Close(h)
  PROVE  RefsInv'
<1> USE DEF PipelineInv
<1>1. CASE Open(h)
  <2>1. walk'.pc = walk.pc /\ walk'.packet = walk.packet
    BY <1>1, WalkFacts DEF Open
  <2>2. \A j \in Instances : thread[j] = "write" => thread'[j] = "write"
    BY <1>1 DEF Open, TypeOK
  <2> QED
    BY <1>1, <2>1, <2>2, RefsKept DEF Open, Walking
<1>2. CASE Read(h)
  BY <1>2, RefsKept DEF Read, Walking
<1>3. CASE Close(h)
  BY <1>3, RefsKept DEF Close, Walking
<1> QED
  BY <1>1, <1>2, <1>3

LEMMA RefsReadSome ==
  ASSUME PipelineInv, TypeOK', RefsInv, ReadSome
  PROVE  RefsInv'
<1>1. srv.at \in Instances /\ bytes \in [Instances -> Seq(Packets)]
  BY DEF PipelineInv, ReadSome, Occupied, TypeOK
<1>2. PICK n \in DOMAIN bytes[srv.at] :
        bytes' = [bytes EXCEPT ![srv.at] = SubSeq(@, n + 1, Len(@))]
  BY DEF ReadSome
<1>3. ASSUME NEW i \in Instances, NEW k \in DOMAIN bytes'[i]
      PROVE  \E l \in DOMAIN bytes[i] : bytes'[i][k] = bytes[i][l]
  <2>1. CASE i # srv.at
    BY <1>1, <1>2, <1>3, <2>1
  <2>2. CASE i = srv.at
    <3>1. bytes'[i] = SubSeq(bytes[i], n + 1, Len(bytes[i])) /\ bytes[i] \in Seq(Packets)
          /\ n \in DOMAIN bytes[i]
      BY <1>1, <1>2, <2>2, Zenon
    <3>3. Len(bytes[i]) \in Nat /\ n \in 1 .. Len(bytes[i])
      BY <3>1
    <3>2. k \in 1 .. Len(bytes[i]) - n /\ bytes'[i][k] = bytes[i][n + k] /\ n + k \in DOMAIN bytes[i]
      BY <1>3, <3>1, <3>3
    <3> QED
      BY <3>2
  <2> QED
    BY <2>1, <2>2
<1> QED
  BY <1>3, RefsKept DEF ReadSome, Walking

\* The sentinel is no packet.
LEMMA RefsStop ==
  ASSUME PipelineInv, TypeOK', RefsInv, StopQueueThread
  PROVE  RefsInv'
<1> DEFINE i == srv.at
<1>1. i \in Instances /\ queue \in [Instances -> Seq(Kept)] /\ Sentinel \in Kept
      /\ bytes \in [Instances -> Seq(Packets)]
      /\ thread \in [Instances -> {"none", "test", "get", "wait", "woken", "write", "ended"}]
  BY DEF PipelineInv, StopQueueThread, Occupied, TypeOK, Kept
<1>2. /\ bytes' = [bytes EXCEPT ![i] = <<>>] /\ queue' = [queue EXCEPT ![i] = Append(@, Sentinel)]
      /\ thread' = Wakened(i) /\ UNCHANGED <<held, ref, walk, fault, mishaps>>
  BY DEF StopQueueThread
<1> HIDE DEF i
<1>3. ASSUME NEW p \in Packets PROVE Holders(p)' = Holders(p)
  <2>1. p # Sentinel
    BY DEF Packets, Sentinel
  <2>2. /\ HoldersIn(held, [queue EXCEPT ![i] = Append(@, Sentinel)], p)
             = IF Sentinel = p THEN HoldersIn(held, queue, p) \cup {<<i, Len(queue[i]) + 1>>}
               ELSE HoldersIn(held, queue, p)
        /\ <<i, Len(queue[i]) + 1>> \notin HoldersIn(held, queue, p)
    <3>1. i \in Instances /\ queue \in [Instances -> Seq(Kept)]
      BY <1>1
    <3>2. Sentinel \in Kept
      BY <1>1
    <3> QED
      BY <3>1, <3>2, HoldersPut, Zenon
  <2>3. Holders(p)' = HoldersIn(held, [queue EXCEPT ![i] = Append(@, Sentinel)], p)
    BY <1>2, HoldersThen
  <2>4. Holders(p) = HoldersIn(held, queue, p)
    BY HoldersNow DEF PipelineInv
  <2> QED
    BY <2>1, <2>2, <2>3, <2>4
<1>4. Idle'
  <2>1. \A j \in Instances : thread[j] = "write" <=> thread'[j] = "write"
    BY <1>1, <1>2 DEF Wakened
  <2> QED
    BY <1>2, <2>1 DEF RefsInv, Idle
<1>5. Known'
  <2>1. \A k \in DOMAIN Append(queue[i], Sentinel) :
          \/ Append(queue[i], Sentinel)[k] = Sentinel
          \/ k \in DOMAIN queue[i] /\ Append(queue[i], Sentinel)[k] = queue[i][k]
    BY <1>1
  <2>2. Sentinel <= walk.packet
    BY WalkFacts DEF PipelineInv, Sentinel
  <2>3. queue'[i] = Append(queue[i], Sentinel) /\ bytes'[i] = <<>>
        /\ \A j \in Instances : j # i => queue'[j] = queue[j] /\ bytes'[j] = bytes[j]
    BY <1>1, <1>2
  <2> QED
    BY <1>2, <2>1, <2>2, <2>3 DEF RefsInv, Known
<1>6. Finite'
  BY <1>3 DEF RefsInv, Finite
<1>7. RefsExact'
  <2> SUFFICES ASSUME "full" \notin mishaps, NEW p \in Packets
               PROVE  ref'[p] = Cardinality(Holders(p)') + (IF Walking(p)' THEN 1 ELSE 0)
    BY <1>2 DEF RefsInv, RefsExact
  <2>1. Walking(p)' <=> Walking(p)
    BY <1>2 DEF Walking
  <2> QED
    BY <1>2, <1>3, <2>1 DEF RefsInv, RefsExact
<1> QED
  BY <1>4, <1>5, <1>6, <1>7 DEF RefsInv

LEMMA RefsWaitForStop ==
  ASSUME PipelineInv, TypeOK', RefsInv, WaitForStopQueueThread
  PROVE  RefsInv'
<1>1. \A j \in Instances : thread[j] = "write" => thread'[j] = "write"
  BY DEF WaitForStopQueueThread, PipelineInv, TypeOK
<1> QED
  BY <1>1, RefsKept DEF WaitForStopQueueThread, Walking

\* What is left in the queue is released, as often as it is there.
LEMMA RefsFlush ==
  ASSUME PipelineInv, TypeOK', RefsInv, Flush
  PROVE  RefsInv'
<1> DEFINE i == srv.at
           left == [p \in Packets |-> Cardinality(Occurrences(queue[i], p))]
<1>1. i \in Instances /\ queue \in [Instances -> Seq(Kept)] /\ ref \in [Packets -> Nat]
      /\ bytes \in [Instances -> Seq(Packets)]
  BY DEF PipelineInv, Flush, Occupied, TypeOK, Kept
<1>2. \A p \in Packets : left[p] \in Nat
  BY <1>1, OccurrencesCount DEF Kept
<1>3. ASSUME NEW p \in Packets
      PROVE  /\ IsFiniteSet(HoldersIn(held, [queue EXCEPT ![i] = <<>>], p))
             /\ Cardinality(HoldersIn(held, [queue EXCEPT ![i] = <<>>], p)) \in Nat
             /\ Cardinality(HoldersIn(held, [queue EXCEPT ![i] = <<>>], p))
                  = Cardinality(Holders(p)) - left[p]
             /\ Cardinality(Holders(p)) \in Nat
  <2>1. Holders(p) = HoldersIn(held, queue, p) /\ IsFiniteSet(Holders(p))
    BY HoldersNow DEF PipelineInv, RefsInv, Finite
  <2>2. LET now == HoldersIn(held, [queue EXCEPT ![i] = <<>>], p)
        IN /\ IsFiniteSet(now)
           /\ Cardinality(now) = Cardinality(HoldersIn(held, queue, p))
                                   - Cardinality(Occurrences(queue[i], p))
    <3>1. IsFiniteSet(HoldersIn(held, queue, p))
      BY <2>1
    <3> HIDE DEF i
    <3> QED
      BY <1>1, <3>1, HoldersFlush, Zenon
  <2> QED
    BY <2>1, <2>2, FS_CardinalityType
<1>4. CASE \E p \in Packets : left[p] > 0 /\ ref[p] < left[p]
  <2>1. Fault("packet")
    BY <1>4 DEF Flush
  <2>2. PICK p \in Packets : left[p] > 0 /\ ref[p] < left[p]
    BY <1>4
  <2> HIDE DEF left, i
  <2>3. "full" \in mishaps
    <3> SUFFICES ASSUME "full" \notin mishaps PROVE FALSE
      OBVIOUS
    <3>1. ref[p] = Cardinality(Holders(p)) + (IF Walking(p) THEN 1 ELSE 0)
      BY DEF RefsInv, RefsExact
    <3>2. Cardinality(Holders(p)) \in Nat /\ Cardinality(Holders(p)) - left[p] \in Nat
      <4>1. Cardinality(Holders(p)) - left[p]
              = Cardinality(HoldersIn(held, [queue EXCEPT ![i] = <<>>], p))
        BY <1>3
      <4> QED
        BY <1>3, <4>1
    <3> QED
      BY <1>2, <2>2, <3>1, <3>2
  <2> QED
    BY <2>1, <2>3, RefsFault
<1>5. CASE ~(\E p \in Packets : left[p] > 0 /\ ref[p] < left[p])
  <2>1. /\ ref' = [p \in Packets |-> ref[p] - left[p]]
        /\ queue' = [queue EXCEPT ![i] = <<>>] /\ bytes' = [bytes EXCEPT ![i] = <<>>]
        /\ UNCHANGED <<held, thread, walk, fault, mishaps>>
    BY <1>5 DEF Flush
  <2> HIDE DEF left, i
  <2>2. ASSUME NEW p \in Packets
        PROVE  /\ IsFiniteSet(Holders(p)')
               /\ Cardinality(Holders(p)') = Cardinality(Holders(p)) - left[p]
    <3>1. Holders(p)' = HoldersIn(held, [queue EXCEPT ![i] = <<>>], p)
      BY <2>1, HoldersThen
    <3> QED
      BY <1>3, <3>1
  <2>3. Idle' /\ Finite'
    BY <2>1, <2>2 DEF RefsInv, Idle, Finite
  <2>4. Known'
    <3>1. queue'[i] = <<>> /\ bytes'[i] = <<>>
          /\ \A j \in Instances : j # i => queue'[j] = queue[j] /\ bytes'[j] = bytes[j]
      BY <1>1, <2>1
    <3> QED
      BY <2>1, <3>1 DEF RefsInv, Known
  <2>5. RefsExact'
    <3> SUFFICES ASSUME "full" \notin mishaps, NEW p \in Packets
                 PROVE  ref'[p] = Cardinality(Holders(p)') + (IF Walking(p)' THEN 1 ELSE 0)
      BY <2>1 DEF RefsInv, RefsExact
    <3>1. Walking(p)' <=> Walking(p)
      BY <2>1 DEF Walking
    <3>2. ref'[p] = ref[p] - left[p]
          /\ ref[p] = Cardinality(Holders(p)) + (IF Walking(p) THEN 1 ELSE 0)
      BY <2>1 DEF RefsInv, RefsExact
    <3> QED
      BY <1>2, <1>3, <2>2, <3>1, <3>2
  <2> QED
    BY <2>3, <2>4, <2>5 DEF RefsInv
<1> QED
  BY <1>4, <1>5

LEMMA RefsStep == PipelineInv /\ RefsInv /\ [Next]_vars => RefsInv'
<1> SUFFICES ASSUME PipelineInv, RefsInv, [Next]_vars PROVE RefsInv'
  OBVIOUS
<1>0. TypeOK'
  BY TypeStep
<1>1. CASE ReadHead
  <2>1. walk.pc = "head" /\ walk'.pc = "read" /\ walk'.packet = walk.packet
    BY <1>1, WalkFacts DEF ReadHead, PipelineInv
  <2> QED
    BY <1>1, <2>1, RefsKept DEF ReadHead, Walking
<1>2. CASE UNCHANGED vars
  BY <1>2, RefsKept DEF vars, Walking
<1> QED
  BY <1>0, <1>1, <1>2, RefsGetPacket, RefsWalkNext, RefsWalkGive, RefsQueueTsPacket,
     RefsQueueThread, RefsStreams, RefsReadSome, RefsStop, RefsWaitForStop, RefsFlush
  DEF Next, Walker, Server, Stop

LEMMA RefsInvariant == Spec => []RefsInv
BY PipelineInvariant, RefsInit, RefsStep, PTL DEF Spec

\* As long as no queue was full, the count of a packet is the number of places
\* that hold it, and no freed packet is used: for any number of services, clones,
\* streams and packets.
THEOREM CountsAreExact == Spec => []RefsExact
BY RefsInvariant, PTL DEF RefsInv

-----------------------------------------------------------------------------
(* The order of packets: what one instance has *)

\* The byte queue b, the packet h of the queue thread and the queue q are in the
\* order of reading; without a packet twice, if "once".
Precedes(a, c, once) == a <= c /\ (once => a # c)

Ordered(b, h, q, once) ==
  /\ \A j, k \in DOMAIN b : j < k => Precedes(b[j], b[k], once)
  /\ \A j \in DOMAIN b : h # Sentinel => Precedes(b[j], h, once)
  /\ \A j \in DOMAIN b, k \in DOMAIN q : q[k] # Sentinel => Precedes(b[j], q[k], once)
  /\ \A k \in DOMAIN q : h # Sentinel /\ q[k] # Sentinel => Precedes(h, q[k], once)
  /\ \A j, k \in DOMAIN q :
       j < k /\ Sentinel \notin {q[j], q[k]} => Precedes(q[j], q[k], once)

\* A packet, or the sentinel, comes last.
LEMMA OrderedPut ==
  ASSUME NEW b \in Seq(Packets), NEW h \in Kept, NEW q \in Seq(Kept), NEW once \in BOOLEAN,
         NEW x \in Kept, Ordered(b, h, q, once),
         x # Sentinel => /\ \A j \in DOMAIN b : Precedes(b[j], x, once)
                         /\ h # Sentinel => Precedes(h, x, once)
                         /\ \A j \in DOMAIN q : q[j] # Sentinel => Precedes(q[j], x, once)
  PROVE  Ordered(b, h, Append(q, x), once)
<1> DEFINE n == Len(q)
           r == Append(q, x)
<1>1. n \in Nat /\ DOMAIN q = 1 .. n
  OBVIOUS
<1>2. DOMAIN r = 1 .. n + 1 /\ \A k \in 1 .. n + 1 : r[k] = IF k = n + 1 THEN x ELSE q[k]
  BY <1>1
<1> HIDE DEF n, r
<1>3. \A k \in DOMAIN r : k \in Nat /\ k <= n + 1
                          /\ (r[k] = x \/ (k \in DOMAIN q /\ r[k] = q[k]))
  BY <1>1, <1>2
<1>4. \A j, k \in DOMAIN r : j < k => j \in DOMAIN q /\ r[j] = q[j]
  BY <1>1, <1>2
<1>5. \A j \in DOMAIN b, k \in DOMAIN r : r[k] # Sentinel => Precedes(b[j], r[k], once)
  BY <1>3 DEF Ordered
<1>6. \A k \in DOMAIN r : h # Sentinel /\ r[k] # Sentinel => Precedes(h, r[k], once)
  BY <1>3 DEF Ordered
<1>7. \A j, k \in DOMAIN r :
        j < k /\ Sentinel \notin {r[j], r[k]} => Precedes(r[j], r[k], once)
  BY <1>3, <1>4 DEF Ordered
<1>8. Ordered(b, h, r, once)
  BY <1>5, <1>6, <1>7 DEF Ordered
<1> QED
  BY <1>8 DEF r

\* The queue thread takes the first of the queue.
LEMMA OrderedTake ==
  ASSUME NEW b \in Seq(Packets), NEW q \in Seq(Kept), NEW once \in BOOLEAN,
         q # <<>>, Ordered(b, Sentinel, q, once)
  PROVE  Ordered(b, Head(q), Tail(q), once)
<1>1. q \in Seq(Packets \cup {Sentinel})
  BY DEF Kept
<1>2. /\ 1 \in DOMAIN q /\ Head(q) = q[1]
      /\ \A k \in DOMAIN Tail(q) : k + 1 \in DOMAIN q /\ Tail(q)[k] = q[k + 1]
  BY <1>1, TailQueue
<1>3. \A k \in DOMAIN Tail(q) : k \in Nat /\ 1 < k + 1
  <2>1. DOMAIN Tail(q) = 1 .. Len(Tail(q))
    BY <1>1
  <2> QED
    BY <2>1
<1>4. \A j, k \in DOMAIN Tail(q) : j < k => j + 1 < k + 1
  BY <1>3
<1> DEFINE h == Head(q)
           r == Tail(q)
<1>5. h = q[1] /\ \A k \in DOMAIN r : k + 1 \in DOMAIN q /\ r[k] = q[k + 1]
  BY <1>2
<1>6. (\A k \in DOMAIN r : 1 < k + 1) /\ \A j, k \in DOMAIN r : j < k => j + 1 < k + 1
  BY <1>3, <1>4
<1> HIDE DEF h, r
<1>7. Ordered(b, h, r, once)
  <2>1. \A j \in DOMAIN b : h # Sentinel => Precedes(b[j], h, once)
    BY <1>2, <1>5 DEF Ordered
  <2>2. \A j \in DOMAIN b, k \in DOMAIN r : r[k] # Sentinel => Precedes(b[j], r[k], once)
    BY <1>5 DEF Ordered
  <2>3. \A k \in DOMAIN r : h # Sentinel /\ r[k] # Sentinel => Precedes(h, r[k], once)
    BY <1>2, <1>5, <1>6 DEF Ordered
  <2>4. \A j, k \in DOMAIN r :
          j < k /\ Sentinel \notin {r[j], r[k]} => Precedes(r[j], r[k], once)
    BY <1>5, <1>6 DEF Ordered
  <2> QED
    BY <2>1, <2>2, <2>3, <2>4 DEF Ordered
<1> QED
  BY <1>7 DEF h, r

\* The queue thread writes its packet behind the others.
LEMMA OrderedWrite ==
  ASSUME NEW b \in Seq(Packets), NEW h \in Packets, NEW q \in Seq(Kept), NEW once \in BOOLEAN,
         Ordered(b, h, q, once)
  PROVE  Ordered(Append(b, h), Sentinel, q, once)
<1> DEFINE n == Len(b)
           c == Append(b, h)
<1>1. n \in Nat /\ DOMAIN b = 1 .. n /\ h # Sentinel
  BY DEF Packets, Sentinel
<1>2. DOMAIN c = 1 .. n + 1 /\ \A k \in 1 .. n + 1 : c[k] = IF k = n + 1 THEN h ELSE b[k]
  BY <1>1
<1> HIDE DEF n, c
<1>3. \A k \in DOMAIN c : c[k] = h \/ (k \in DOMAIN b /\ c[k] = b[k])
  BY <1>1, <1>2
<1>4. \A j, k \in DOMAIN c : j < k => j \in DOMAIN b /\ c[j] = b[j]
  BY <1>1, <1>2
<1>5. \A j, k \in DOMAIN c : j < k => Precedes(c[j], c[k], once)
  BY <1>1, <1>3, <1>4 DEF Ordered
<1>6. \A j \in DOMAIN c, k \in DOMAIN q : q[k] # Sentinel => Precedes(c[j], q[k], once)
  BY <1>1, <1>3 DEF Ordered
<1>7. Ordered(c, Sentinel, q, once)
  BY <1>5, <1>6 DEF Ordered
<1> QED
  BY <1>7 DEF c

\* The server reads the first n.
LEMMA OrderedRead ==
  ASSUME NEW b \in Seq(Packets), NEW h, NEW q, NEW once, NEW n \in DOMAIN b,
         Ordered(b, h, q, once)
  PROVE  Ordered(SubSeq(b, n + 1, Len(b)), h, q, once)
<1> DEFINE c == SubSeq(b, n + 1, Len(b))
<1>1. Len(b) \in Nat /\ n \in 1 .. Len(b) /\ DOMAIN b = 1 .. Len(b)
  OBVIOUS
<1>2. DOMAIN c = 1 .. Len(b) - n /\ \A k \in 1 .. Len(b) - n : c[k] = b[n + k]
  BY <1>1
<1> HIDE DEF c
<1>3. \A k \in DOMAIN c : n + k \in DOMAIN b /\ c[k] = b[n + k] /\ k \in Nat
  BY <1>1, <1>2
<1>4. \A j, k \in DOMAIN c : j < k => n + j < n + k
  BY <1>1, <1>3
<1>5. Ordered(c, h, q, once)
  BY <1>3, <1>4 DEF Ordered
<1> QED
  BY <1>5 DEF c

\* All that an instance has, in one sequence.
LEMMA OrderedAll ==
  ASSUME NEW b \in Seq(Packets), NEW h \in Kept, NEW q \in Seq(Kept), NEW once \in BOOLEAN,
         Ordered(b, h, q, once)
  PROVE  LET all == b \o <<h>> \o q
         IN \A j, k \in DOMAIN all :
              j < k /\ Sentinel \notin {all[j], all[k]} => Precedes(all[j], all[k], once)
<1> DEFINE all == b \o <<h>> \o q
           m == Len(b)
           n == Len(q)
<1>1. m \in Nat /\ n \in Nat /\ DOMAIN b = 1 .. m /\ DOMAIN q = 1 .. n
  OBVIOUS
<1>2. /\ DOMAIN all = 1 .. m + 1 + n
      /\ \A k \in 1 .. m + 1 + n :
           all[k] = IF k <= m THEN b[k] ELSE IF k = m + 1 THEN h ELSE q[k - (m + 1)]
  <2>1. b \o <<h>> \in Seq(Kept) /\ Len(b \o <<h>>) = m + 1
        /\ \A k \in 1 .. m + 1 : (b \o <<h>>)[k] = IF k <= m THEN b[k] ELSE h
    <3>1. <<h>> \in Seq(Kept) /\ Len(<<h>>) = 1 /\ <<h>>[1] = h
      OBVIOUS
    <3>2. b \in Seq(Kept)
      BY DEF Kept
    <3> QED
      BY <1>1, <3>1, <3>2
  <2> QED
    BY <1>1, <2>1
<1> HIDE DEF all, m, n
<1>3. ASSUME NEW j \in DOMAIN all, NEW k \in DOMAIN all, j < k,
             Sentinel \notin {all[j], all[k]}
      PROVE  Precedes(all[j], all[k], once)
  <2>1. j \in 1 .. m + 1 + n /\ k \in 1 .. m + 1 + n
    BY <1>2
  <2>2. CASE k <= m
    <3>1. j \in DOMAIN b /\ k \in DOMAIN b /\ all[j] = b[j] /\ all[k] = b[k]
      BY <1>1, <1>2, <1>3, <2>1, <2>2
    <3> QED
      BY <1>3, <3>1 DEF Ordered
  <2>3. CASE k = m + 1
    <3>1. j \in DOMAIN b /\ all[j] = b[j] /\ all[k] = h
      BY <1>1, <1>2, <1>3, <2>1, <2>3
    <3> QED
      BY <1>3, <3>1 DEF Ordered
  <2>4. CASE k > m + 1
    <3>1. k - (m + 1) \in DOMAIN q /\ all[k] = q[k - (m + 1)]
      BY <1>1, <1>2, <2>1, <2>4
    <3>2. CASE j <= m
      <4>1. j \in DOMAIN b /\ all[j] = b[j]
        BY <1>1, <1>2, <2>1, <3>2
      <4> QED
        BY <1>3, <3>1, <4>1 DEF Ordered
    <3>3. CASE j = m + 1
      <4>1. all[j] = h
        BY <1>1, <1>2, <2>1, <3>3
      <4> QED
        BY <1>3, <3>1, <4>1 DEF Ordered
    <3>4. CASE j > m + 1
      <4>1. j - (m + 1) \in DOMAIN q /\ all[j] = q[j - (m + 1)] /\ j - (m + 1) < k - (m + 1)
        BY <1>1, <1>2, <1>3, <2>1, <3>4
      <4> QED
        BY <1>3, <3>1, <4>1 DEF Ordered
    <3> QED
      BY <1>1, <2>1, <3>2, <3>3, <3>4
  <2> QED
    BY <1>1, <2>1, <2>2, <2>3, <2>4
<1> QED
  BY <1>3 DEF all

-----------------------------------------------------------------------------
(* The order of packets: the invariant *)

Once == "shift" \notin mishaps

InParts == \A i \in Instances : Ordered(bytes[i], held[i], queue[i], Once)

Has(i, p) ==
  /\ p # Sentinel
  /\ \/ held[i] = p
     \/ \E k \in DOMAIN queue[i] : queue[i][k] = p
     \/ \E k \in DOMAIN bytes[i] : bytes[i][k] = p

\* Who has the packet that is given out stands before the iterator, as long as
\* nothing was erased behind it, and who is to get it next is where it points.
Behind ==
  Once /\ Walking(walk.packet) =>
    /\ \A i \in Instances :
         Has(i, walk.packet) => \E k \in DOMAIN services : services[k] = i /\ k < walk.pos
    /\ walk.pc = "put" => walk.pos \in DOMAIN services /\ services[walk.pos] = walk.target

OrderInv == InParts /\ Behind

LEMMA OrderTypes ==
  ASSUME TypeOK
  PROVE  /\ bytes \in [Instances -> Seq(Packets)] /\ held \in [Instances -> Kept]
         /\ queue \in [Instances -> Seq(Kept)] /\ Once \in BOOLEAN
         /\ thread \in [Instances -> {"none", "test", "get", "wait", "woken", "write", "ended"}]
         /\ walk.pos \in Nat /\ walk.packet \in Nat
BY WalkFacts DEF TypeOK, Kept, Once

\* Steps which give nobody a packet.
LEMMA BehindKept ==
  ASSUME Behind, mishaps \subseteq mishaps',
         Once' /\ Walking(walk.packet)' =>
           /\ Walking(walk.packet) /\ walk'.packet = walk.packet /\ walk'.pos >= walk.pos
           /\ walk.pos \in Nat /\ walk'.pos \in Nat
           /\ DOMAIN services \subseteq Nat
           /\ \A k \in DOMAIN services : k \in DOMAIN services' /\ services'[k] = services[k]
           /\ walk'.pc = "put" => walk.pc = "put" /\ walk'.target = walk.target /\ walk'.pos = walk.pos,
         \A i \in Instances : Has(i, walk.packet)' => Has(i, walk.packet)
  PROVE  Behind'
<1> SUFFICES ASSUME Once', Walking(walk.packet)'
             PROVE  /\ \A i \in Instances :
                         Has(i, walk.packet)' => \E k \in DOMAIN services' : services'[k] = i /\ k < walk'.pos
                    /\ walk'.pc = "put" => walk'.pos \in DOMAIN services' /\ services'[walk'.pos] = walk'.target
  BY DEF Behind
<1>1. Once
  BY DEF Once
<1>2. \A k \in DOMAIN services : k < walk.pos => k < walk'.pos
  OBVIOUS
<1> QED
  BY <1>1, <1>2 DEF Behind

\* Steps which leave alone what instances have.
LEMMA OrderKept ==
  ASSUME TypeOK, OrderInv, UNCHANGED <<held, queue, bytes>>, mishaps \subseteq mishaps',
         Once' /\ Walking(walk.packet)' =>
           /\ Walking(walk.packet) /\ walk'.packet = walk.packet /\ walk'.pos >= walk.pos
           /\ walk'.pos \in Nat
           /\ \A k \in DOMAIN services : k \in DOMAIN services' /\ services'[k] = services[k]
           /\ walk'.pc = "put" => walk.pc = "put" /\ walk'.target = walk.target /\ walk'.pos = walk.pos,
         walk'.packet = walk.packet
  PROVE  OrderInv'
<1>1. \A i \in Instances : Has(i, walk.packet)' => Has(i, walk.packet)
  BY DEF Has
<1>2. DOMAIN services \subseteq Nat /\ walk.pos \in Nat
  BY WalkFacts DEF TypeOK
<1>3. Behind'
  BY <1>1, <1>2, BehindKept DEF OrderInv
<1>4. InParts'
  <2>1. Once' => Once
    BY DEF Once
  <2> QED
    BY <2>1 DEF OrderInv, InParts, Ordered, Precedes
<1> QED
  BY <1>3, <1>4 DEF OrderInv

\* Steps that change what one instance has, and give it no packet.
LEMMA OrderChanged ==
  ASSUME TypeOK, OrderInv, NEW i \in Instances, UNCHANGED <<services, walk, mishaps>>,
         \A j \in Instances : j # i =>
           bytes'[j] = bytes[j] /\ held'[j] = held[j] /\ queue'[j] = queue[j],
         Ordered(bytes'[i], held'[i], queue'[i], Once),
         Has(i, walk.packet)' => Has(i, walk.packet)
  PROVE  OrderInv'
<1>1. \A j \in Instances : Has(j, walk.packet)' => Has(j, walk.packet)
  BY DEF Has
<1>2. walk.pos \in Nat /\ DOMAIN services \subseteq Nat
  BY WalkFacts DEF TypeOK
<1>3. Behind'
  BY <1>1, <1>2, BehindKept DEF OrderInv, Walking
<1>4. InParts'
  BY DEF OrderInv, InParts, Once
<1> QED
  BY <1>3, <1>4 DEF OrderInv

LEMMA OrderInit == Init => OrderInv
<1> SUFFICES ASSUME Init PROVE OrderInv
  OBVIOUS
<1>1. InParts
  BY DEF Init, InParts, Ordered
<1>2. Behind
  BY DEF Init, Behind, Walking
<1> QED
  BY <1>1, <1>2 DEF OrderInv

-----------------------------------------------------------------------------
(* ... and the steps of the read thread *)

\* Nobody has the packet that is read.
LEMMA OrderGetPacket ==
  ASSUME TypeOK, RefsInv, OrderInv, GetPacket
  PROVE  OrderInv'
<1> DEFINE new == walk.packet + 1
<1>1. /\ walk'.pc = "next" /\ walk'.packet = new /\ walk.packet \in Nat /\ new \in Nat
      /\ UNCHANGED <<queue, bytes, held, mishaps>>
  BY WalkFacts DEF GetPacket
<1>2. \A k \in Int : k <= walk.packet => k # new
  BY <1>1
<1>3. Packets \cup {Sentinel} \subseteq Int
  BY DEF Packets, Sentinel
<1> HIDE DEF new
<1>4. ASSUME NEW i \in Instances PROVE ~Has(i, new)
  <2>1. /\ held[i] \in Int
        /\ \A k \in DOMAIN queue[i] : queue[i][k] \in Int
        /\ \A k \in DOMAIN bytes[i] : bytes[i][k] \in Int
    <3>1. held[i] \in Packets \cup {Sentinel} /\ queue[i] \in Seq(Packets \cup {Sentinel})
          /\ bytes[i] \in Seq(Packets)
      BY DEF TypeOK
    <3>2. (\A k \in DOMAIN queue[i] : queue[i][k] \in Packets \cup {Sentinel})
          /\ (\A k \in DOMAIN bytes[i] : bytes[i][k] \in Packets)
      BY <3>1
    <3> QED
      BY <1>3, <3>1, <3>2
  <2> QED
    BY <1>2, <2>1 DEF Has, RefsInv, Known
<1>5. \A i \in Instances : ~Has(i, walk.packet)'
  BY <1>1, <1>4 DEF Has
<1>6. Behind'
  BY <1>1, <1>5 DEF Behind
<1>7. InParts'
  BY <1>1 DEF OrderInv, InParts, Once
<1> QED
  BY <1>6, <1>7 DEF OrderInv

LEMMA OrderWalk ==
  ASSUME TypeOK, OrderInv, ReadHead \/ WalkNext \/ WalkGive
  PROVE  OrderInv'
<1>1. /\ UNCHANGED <<held, queue, bytes, services, mishaps>> /\ walk'.packet = walk.packet
  BY WalkFacts DEF ReadHead, WalkNext, WalkGive, Fault, streamvars
<1>2. CASE ReadHead
  BY <1>1, <1>2, OrderKept, WalkFacts DEF ReadHead, Walking
<1>3. CASE WalkNext
  <2>1. CASE walk'.pc = "head" \/ walk' = walk
    BY <1>1, <2>1, OrderKept, WalkFacts DEF Walking
  <2>2. CASE walk' \in {[walk EXCEPT !.pc = "give"], [walk EXCEPT !.pos = @ + 1]} /\ walk.pc = "next"
    <3>1. walk'.pc \in {"give", "next"} /\ walk.pos \in Nat /\ walk'.pos \in Nat /\ walk'.pos >= walk.pos
      BY <2>2, WalkFacts
    <3> QED
      BY <1>1, <2>2, <3>1, OrderKept DEF Walking
  <2> QED
    BY <1>3, <2>1, <2>2, WalkFacts DEF WalkNext, Fault
<1>4. CASE WalkGive
  <2>1. CASE Fault("iterator")
    BY <1>1, <2>1, OrderKept, WalkFacts DEF Fault, Walking
  <2>2. CASE ~Fault("iterator")
    <3>0. /\ walk.pc = "give" /\ ~Astray(Len(services))
          /\ walk' = [walk EXCEPT !.pc = "put", !.target = services[walk.pos]]
      BY <1>4, <2>2 DEF WalkGive
    <3>4. walk.pos \in 1 .. Len(services)
      BY <3>0, WalkFacts DEF Astray, TypeOK
    <3>1. /\ walk.pc = "give" /\ walk.pos \in 1 .. Len(services) /\ walk'.pc = "put"
          /\ walk'.pos = walk.pos /\ walk'.target = services[walk.pos]
      BY <3>0, <3>4, WalkFacts
    <3>2. walk.pos \in DOMAIN services
      BY <3>1 DEF TypeOK
    <3>3. Behind'
      BY <1>1, <3>1, <3>2 DEF OrderInv, Behind, Has, Walking, Once
    <3>5. InParts'
      BY <1>1 DEF OrderInv, InParts, Once
    <3> QED
      BY <3>3, <3>5 DEF OrderInv
  <2> QED
    BY <2>1, <2>2
<1> QED
  BY <1>2, <1>3, <1>4

\* The packet is the last that was read, and the service that gets it has not
\* got it yet.
LEMMA OrderQueueTsPacket ==
  ASSUME PipelineInv, RefsInv, OrderInv, QueueTsPacket
  PROVE  OrderInv'
<1> DEFINE p == walk.packet
           i == walk.target
<1>0. TypeOK
  BY DEF PipelineInv
<1>1. walk.pc = "put" /\ p \in Packets /\ i \in Instances /\ Walking(p)
  BY DEF QueueTsPacket, PipelineInv, Occupied, Walking
<1>2. CASE Fault("packet")
  BY <1>0, <1>2, OrderKept, WalkFacts DEF Fault, Walking
<1>3. CASE ~Fault("packet")
  <2>1. /\ walk'.pc = "next" /\ walk'.packet = p /\ walk'.pos = walk.pos + 1 /\ walk.pos \in Nat
        /\ UNCHANGED <<services, bytes, held>> /\ mishaps \subseteq mishaps'
        /\ Once' = Once
    <3>1. /\ walk' = [walk EXCEPT !.pc = "next", !.pos = @ + 1, !.target = Closed]
          /\ UNCHANGED <<services, bytes, held>> /\ mishaps' \in {mishaps, mishaps \cup {"full"}}
      BY <1>3 DEF QueueTsPacket, streamvars
    <3>2. walk'.pc = "next" /\ walk'.packet = p /\ walk'.pos = walk.pos + 1 /\ walk.pos \in Nat
      BY <1>0, <3>1, WalkFacts
    <3>3. mishaps \subseteq mishaps' /\ ("shift" \in mishaps' <=> "shift" \in mishaps)
      BY <3>1
    <3> QED
      BY <3>1, <3>2, <3>3 DEF Once
  <2>2. CASE Len(queue[i]) < QueueSize
    <3>1. queue' = [queue EXCEPT ![i] = Append(@, p)]
      BY <1>3, <2>2 DEF QueueTsPacket
    <3> HIDE DEF p, i
    <3>2. queue \in [Instances -> Seq(Kept)] /\ p \in Kept /\ bytes[i] \in Seq(Packets)
          /\ held[i] \in Kept /\ queue[i] \in Seq(Kept) /\ Once \in BOOLEAN
      BY <1>0, <1>1, OrderTypes DEF Kept
    <3>3. queue'[i] = Append(queue[i], p) /\ \A j \in Instances : j # i => queue'[j] = queue[j]
      BY <1>1, <3>1, <3>2
    <3>4. Once => ~Has(i, p)
      <4> SUFFICES ASSUME Once, Has(i, p) PROVE FALSE
        OBVIOUS
      <4>1. walk.pos \in DOMAIN services /\ services[walk.pos] = i
        BY <1>1 DEF OrderInv, Behind, p, i
      <4>2. PICK k \in DOMAIN services : services[k] = i /\ k < walk.pos
        BY <1>1 DEF OrderInv, Behind, p, i
      <4>3. k = walk.pos
        BY <4>1, <4>2 DEF PipelineInv, Listed
      <4> QED
        BY <2>1, <4>2, <4>3
    <3>5. /\ \A j \in DOMAIN bytes[i] : Precedes(bytes[i][j], p, Once)
          /\ Precedes(held[i], p, Once)
          /\ \A j \in DOMAIN queue[i] : Precedes(queue[i][j], p, Once)
      <4>1. p # Sentinel
        BY <1>1 DEF Packets, Sentinel
      <4> QED
        BY <1>1, <3>4, <4>1 DEF RefsInv, Known, Has, Precedes, p
    <3>6. Ordered(bytes[i], held[i], Append(queue[i], p), Once)
      <4>1. Ordered(bytes[i], held[i], queue[i], Once)
        BY <1>1 DEF OrderInv, InParts
      <4> QED
        BY <3>2, <3>5, <4>1, OrderedPut
    <3>7. InParts'
      <4> SUFFICES ASSUME NEW j \in Instances PROVE Ordered(bytes[j], held[j], queue'[j], Once')
        BY <2>1 DEF InParts
      <4>1. Ordered(bytes[j], held[j], queue[j], Once)
        BY DEF OrderInv, InParts
      <4>2. CASE j = i
        BY <2>1, <3>3, <3>6, <4>2
      <4>3. CASE j # i
        BY <2>1, <3>3, <4>1, <4>3
      <4> QED
        BY <4>2, <4>3
    <3>8. Behind'
      <4> SUFFICES ASSUME Once, NEW j \in Instances, Has(j, walk.packet)'
                   PROVE  \E k \in DOMAIN services : services[k] = j /\ k < walk'.pos
        BY <2>1 DEF Behind
      <4>1. CASE j = i
        <5>1. walk.pos \in DOMAIN services /\ services[walk.pos] = i
          BY <1>1 DEF OrderInv, Behind, p, i
        <5> QED
          BY <2>1, <4>1, <5>1
      <4>2. CASE j # i
        <5>1. Has(j, p)
          BY <2>1, <3>3, <4>2 DEF Has
        <5>2. PICK k \in DOMAIN services : services[k] = j /\ k < walk.pos
          BY <1>1, <5>1 DEF OrderInv, Behind, p
        <5>3. k \in Nat
          BY <1>0 DEF TypeOK
        <5> QED
          BY <2>1, <5>2, <5>3
      <4> QED
        BY <4>1, <4>2
    <3> QED
      BY <3>7, <3>8 DEF OrderInv
  <2>3. CASE ~(Len(queue[i]) < QueueSize)
    <3>1. UNCHANGED queue
      BY <1>3, <2>3 DEF QueueTsPacket
    <3> QED
      BY <1>0, <1>1, <2>1, <3>1, OrderKept
  <2> QED
    BY <2>2, <2>3
<1> QED
  BY <1>2, <1>3

-----------------------------------------------------------------------------
(* ... of the queue threads *)

LEMMA OrderPop ==
  ASSUME TypeOK, RefsInv, OrderInv, NEW i \in Instances, queue[i] # <<>>, Pop(i),
         thread[i] # "write"
  PROVE  OrderInv'
<1>1. /\ held' = [held EXCEPT ![i] = Head(queue[i])] /\ queue' = [queue EXCEPT ![i] = Tail(@)]
      /\ UNCHANGED <<services, bytes, walk, mishaps>>
  BY DEF Pop, streamvars
<1>2. /\ bytes[i] \in Seq(Packets) /\ queue[i] \in Seq(Kept) /\ Once \in BOOLEAN
      /\ held \in [Instances -> Kept] /\ queue \in [Instances -> Seq(Kept)] /\ held[i] = Sentinel
  BY OrderTypes DEF RefsInv, Idle
<1>3. /\ held'[i] = Head(queue[i]) /\ queue'[i] = Tail(queue[i]) /\ bytes'[i] = bytes[i]
      /\ \A j \in Instances : j # i =>
           bytes'[j] = bytes[j] /\ held'[j] = held[j] /\ queue'[j] = queue[j]
  BY <1>1, <1>2
<1>4. Ordered(bytes[i], Head(queue[i]), Tail(queue[i]), Once)
  <2>1. Ordered(bytes[i], Sentinel, queue[i], Once)
    BY <1>2 DEF OrderInv, InParts
  <2> QED
    BY <1>2, <2>1, OrderedTake
<1>5. Has(i, walk.packet)' => Has(i, walk.packet)
  <2>1. queue[i] \in Seq(Packets \cup {Sentinel})
    BY <1>2 DEF Kept
  <2> QED
    BY <1>1, <1>3, <2>1, TailQueue DEF Has
<1> QED
  BY <1>1, <1>3, <1>4, <1>5, OrderChanged

LEMMA OrderQueueWrite ==
  ASSUME PipelineInv, OrderInv, NEW i \in Instances, QueueWrite(i)
  PROVE  OrderInv'
<1> DEFINE x == held[i]
<1>0. TypeOK
  BY DEF PipelineInv
<1>1. CASE Fault("packet")
  BY <1>0, <1>1, OrderKept, WalkFacts DEF Fault, Walking
<1>2. CASE ~Fault("packet")
  <2>1. /\ bytes' = [bytes EXCEPT ![i] = Append(@, x)] /\ held' = [held EXCEPT ![i] = Sentinel]
        /\ UNCHANGED <<services, queue, walk, mishaps>>
    BY <1>2 DEF QueueWrite, streamvars
  <2>2. /\ x \in Packets /\ bytes[i] \in Seq(Packets) /\ queue[i] \in Seq(Kept) /\ Once \in BOOLEAN
        /\ held \in [Instances -> Kept] /\ bytes \in [Instances -> Seq(Packets)]
    BY <1>0, OrderTypes DEF PipelineInv, Occupied, QueueWrite
  <2>3. /\ held'[i] = Sentinel /\ bytes'[i] = Append(bytes[i], x) /\ queue'[i] = queue[i]
        /\ \A j \in Instances : j # i =>
             bytes'[j] = bytes[j] /\ held'[j] = held[j] /\ queue'[j] = queue[j]
    BY <2>1, <2>2
  <2>4. Ordered(Append(bytes[i], x), Sentinel, queue[i], Once)
    <3>1. Ordered(bytes[i], x, queue[i], Once)
      BY DEF OrderInv, InParts
    <3> HIDE DEF x
    <3> QED
      BY <2>2, <3>1, OrderedWrite
  <2>5. Has(i, walk.packet)' => Has(i, walk.packet)
    <3>1. \A k \in DOMAIN Append(bytes[i], x) :
            Append(bytes[i], x)[k] = x \/ (k \in DOMAIN bytes[i] /\ Append(bytes[i], x)[k] = bytes[i][k])
      BY <2>2
    <3>2. \A k \in DOMAIN bytes'[i] : bytes'[i][k] = held[i] \/ (k \in DOMAIN bytes[i] /\ bytes'[i][k] = bytes[i][k])
      BY <2>3, <3>1
    <3> QED
      BY <2>1, <2>3, <3>2 DEF Has
  <2> QED
    BY <1>0, <2>1, <2>3, <2>4, <2>5, OrderChanged
<1> QED
  BY <1>1, <1>2

LEMMA OrderQueueThread ==
  ASSUME PipelineInv, RefsInv, OrderInv, NEW i \in Instances, QueueThread(i)
  PROVE  OrderInv'
<1>0. TypeOK
  BY DEF PipelineInv
<1>1. CASE QueueTest(i)
  BY <1>0, <1>1, OrderKept, WalkFacts DEF QueueTest, Walking, streamvars
<1>2. CASE QueueGet(i)
  <2>1. CASE queue[i] = <<>>
    BY <1>0, <1>2, <2>1, OrderKept, WalkFacts DEF QueueGet, Walking, streamvars
  <2>2. CASE queue[i] # <<>>
    BY <1>0, <1>2, <2>2, OrderPop DEF QueueGet
  <2> QED
    BY <2>1, <2>2
<1>3. CASE QueueGoOn(i)
  <2>1. CASE Fault("front")
    BY <1>0, <2>1, OrderKept, WalkFacts DEF Fault, Walking
  <2>2. CASE queue[i] # <<>> /\ Pop(i)
    BY <1>0, <1>3, <2>2, OrderPop DEF QueueGoOn
  <2> QED
    BY <1>3, <2>1, <2>2 DEF QueueGoOn
<1> QED
  BY <1>1, <1>2, <1>3, OrderQueueWrite DEF QueueThread

-----------------------------------------------------------------------------
(* ... and of the server *)

\* An opened service comes behind the others, a closed one is erased behind the
\* iterator or while there is none.
LEMMA OrderStreams ==
  ASSUME TypeOK, OrderInv, NEW h \in Handles, Open(h) \/ Read(h) \/ Close(h)
  PROVE  OrderInv'
<1>1. CASE Open(h)
  <2>1. walk'.pc = walk.pc /\ walk'.packet = walk.packet /\ walk'.pos = walk.pos
        /\ walk'.target = walk.target /\ walk.pos \in Nat
    BY <1>1, WalkFacts DEF Open
  <2>2. PICK s : services' = Append(services, s)
    BY <1>1 DEF Open
  <2>3. \A k \in DOMAIN services : k \in DOMAIN services' /\ services'[k] = services[k]
    BY <2>2 DEF TypeOK
  <2>4. UNCHANGED <<held, queue, bytes, mishaps>>
    BY <1>1 DEF Open
  <2> QED
    BY <2>1, <2>3, <2>4, OrderKept DEF Walking
<1>2. CASE Read(h)
  BY <1>2, OrderKept, WalkFacts DEF Read, Walking, streamvars
<1>3. CASE Close(h)
  <2>1. UNCHANGED <<held, queue, bytes, walk>> /\ mishaps \subseteq mishaps'
        /\ (Walking(walk.packet) => "shift" \in mishaps')
    BY <1>3 DEF Close
  <2> QED
    BY <2>1, OrderKept DEF Walking, Once
<1> QED
  BY <1>1, <1>2, <1>3

LEMMA OrderReadSome ==
  ASSUME PipelineInv, OrderInv, ReadSome
  PROVE  OrderInv'
<1>0. PICK i : i = srv.at
  OBVIOUS
<1>1. TypeOK /\ i \in Instances
  BY <1>0 DEF PipelineInv, ReadSome, Occupied
<1>2. PICK n \in DOMAIN bytes[i] : bytes' = [bytes EXCEPT ![i] = SubSeq(@, n + 1, Len(@))]
  BY <1>0 DEF ReadSome
<1>3. bytes \in [Instances -> Seq(Packets)] /\ bytes[i] \in Seq(Packets)
      /\ UNCHANGED <<services, held, queue, walk, mishaps>>
  BY <1>1, OrderTypes DEF ReadSome, streamvars
<1>4. bytes'[i] = SubSeq(bytes[i], n + 1, Len(bytes[i]))
      /\ \A j \in Instances : j # i => bytes'[j] = bytes[j]
  BY <1>1, <1>2, <1>3, Zenon
<1>5. Ordered(bytes'[i], held[i], queue[i], Once)
  <2>1. Ordered(bytes[i], held[i], queue[i], Once)
    BY <1>1 DEF OrderInv, InParts
  <2>2. Ordered(SubSeq(bytes[i], n + 1, Len(bytes[i])), held[i], queue[i], Once)
    BY <1>3, <2>1, OrderedRead
  <2> QED
    BY <1>4, <2>2
<1>6. Has(i, walk.packet)' => Has(i, walk.packet)
  <2>1. Len(bytes[i]) \in Nat /\ n \in 1 .. Len(bytes[i])
    BY <1>3
  <2>2. \A k \in DOMAIN SubSeq(bytes[i], n + 1, Len(bytes[i])) :
          n + k \in DOMAIN bytes[i] /\ SubSeq(bytes[i], n + 1, Len(bytes[i]))[k] = bytes[i][n + k]
    BY <1>3, <2>1
  <2> QED
    BY <1>3, <1>4, <2>2 DEF Has
<1> QED
  BY <1>1, <1>3, <1>4, <1>5, <1>6, OrderChanged

LEMMA OrderStop ==
  ASSUME PipelineInv, OrderInv, StopQueueThread
  PROVE  OrderInv'
<1>0. PICK i : i = srv.at
  OBVIOUS
<1>1. TypeOK /\ i \in Instances
  BY <1>0 DEF PipelineInv, StopQueueThread, Occupied
<1>2. /\ bytes' = [bytes EXCEPT ![i] = <<>>] /\ queue' = [queue EXCEPT ![i] = Append(@, Sentinel)]
      /\ UNCHANGED <<services, held, walk, mishaps>>
  BY <1>0 DEF StopQueueThread, streamvars
<1>3. /\ bytes \in [Instances -> Seq(Packets)] /\ queue \in [Instances -> Seq(Kept)]
      /\ queue[i] \in Seq(Kept) /\ held[i] \in Kept /\ Once \in BOOLEAN /\ Sentinel \in Kept
      /\ <<>> \in Seq(Packets) /\ DOMAIN <<>> = {}
  BY <1>1, OrderTypes DEF Kept
<1>4. /\ bytes'[i] = <<>> /\ queue'[i] = Append(queue[i], Sentinel)
      /\ \A j \in Instances : j # i => bytes'[j] = bytes[j] /\ queue'[j] = queue[j]
  BY <1>1, <1>2, <1>3
<1>5. Ordered(<<>>, held[i], Append(queue[i], Sentinel), Once)
  <2>1. Ordered(<<>>, held[i], queue[i], Once)
    BY <1>1, <1>3 DEF OrderInv, InParts, Ordered
  <2> QED
    BY <1>3, <2>1, OrderedPut
<1>6. Has(i, walk.packet)' => Has(i, walk.packet)
  <2>1. \A k \in DOMAIN Append(queue[i], Sentinel) :
          \/ Append(queue[i], Sentinel)[k] = Sentinel
          \/ k \in DOMAIN queue[i] /\ Append(queue[i], Sentinel)[k] = queue[i][k]
    BY <1>3
  <2> QED
    BY <1>2, <1>3, <1>4, <2>1 DEF Has
<1> QED
  BY <1>1, <1>2, <1>4, <1>5, <1>6, OrderChanged

LEMMA OrderFlush ==
  ASSUME PipelineInv, OrderInv, Flush
  PROVE  OrderInv'
<1>0. PICK i : i = srv.at
  OBVIOUS
<1>1. TypeOK /\ i \in Instances
  BY <1>0 DEF PipelineInv, Flush, Occupied
<1>2. CASE Fault("packet")
  BY <1>1, <1>2, OrderKept, WalkFacts DEF Fault, Walking
<1>3. CASE ~Fault("packet")
  <2>1. /\ bytes' = [bytes EXCEPT ![i] = <<>>] /\ queue' = [queue EXCEPT ![i] = <<>>]
        /\ UNCHANGED <<services, held, walk, mishaps>>
    BY <1>0, <1>3 DEF Flush, streamvars
  <2>2. /\ bytes'[i] = <<>> /\ queue'[i] = <<>> /\ DOMAIN <<>> = {}
        /\ \A j \in Instances : j # i => bytes'[j] = bytes[j] /\ queue'[j] = queue[j]
    BY <1>1, <2>1, OrderTypes
  <2>3. Ordered(bytes'[i], held'[i], queue'[i], Once) /\ (Has(i, walk.packet)' => Has(i, walk.packet))
    BY <2>1, <2>2 DEF Ordered, Has
  <2> QED
    BY <1>1, <2>1, <2>2, <2>3, OrderChanged
<1> QED
  BY <1>2, <1>3

LEMMA OrderStep == PipelineInv /\ RefsInv /\ OrderInv /\ [Next]_vars => OrderInv'
<1> SUFFICES ASSUME PipelineInv, RefsInv, OrderInv, [Next]_vars PROVE OrderInv'
  OBVIOUS
<1>0. TypeOK
  BY DEF PipelineInv
<1>1. CASE WaitForStopQueueThread
  BY <1>0, <1>1, OrderKept, WalkFacts DEF WaitForStopQueueThread, Walking, streamvars
<1>2. CASE UNCHANGED vars
  BY <1>0, <1>2, OrderKept, WalkFacts DEF vars, Walking
<1> QED
  BY <1>0, <1>1, <1>2, OrderGetPacket, OrderWalk, OrderQueueTsPacket, OrderQueueThread,
     OrderStreams, OrderReadSome, OrderStop, OrderFlush
  DEF Next, Walker, Server, Stop

\* No stream gets packets in another order than they were read in, nor, unless a
\* service was erased under the iterator of the read thread, one of them twice:
\* for any number of services, clones, streams and packets, and any queue sizes.
THEOREM PacketsStayInOrder == Spec => []InOrder
<1>1. TypeOK /\ InParts => InOrder
  <2> SUFFICES ASSUME TypeOK, InParts, NEW i \in Instances
               PROVE  \A j, k \in DOMAIN Pending(i) :
                        j < k /\ Sentinel \notin {Pending(i)[j], Pending(i)[k]} =>
                          /\ Pending(i)[j] <= Pending(i)[k]
                          /\ "shift" \notin mishaps => Pending(i)[j] # Pending(i)[k]
    BY DEF InOrder
  <2>1. LET all == bytes[i] \o <<held[i]>> \o queue[i]
        IN \A j, k \in DOMAIN all :
             j < k /\ Sentinel \notin {all[j], all[k]} => Precedes(all[j], all[k], Once)
    <3>1. /\ bytes[i] \in Seq(Packets) /\ held[i] \in Kept /\ queue[i] \in Seq(Kept)
          /\ Once \in BOOLEAN /\ Ordered(bytes[i], held[i], queue[i], Once)
      BY OrderTypes DEF InParts
    <3> QED
      BY <3>1, OrderedAll, Zenon
  <2> QED
    BY <2>1 DEF Pending, Precedes, Once
<1> QED
  BY <1>1, PipelineInvariant, RefsInvariant, OrderInit, OrderStep, PTL
  DEF Spec, PipelineInv, OrderInv

=============================================================================
