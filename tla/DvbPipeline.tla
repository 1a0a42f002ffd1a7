---------------------------- MODULE DvbPipeline -----------------------------
(***************************************************************************)
(* The way of a transport stream packet through dvb/Remux.cpp and          *)
(* dvb/Service.cpp: the read thread of the remultiplexer gives it to every *)
(* service that wants its pid, the queue thread of a service writes it to  *)
(* the byte queue, and the thread of the media server reads it there. The  *)
(* server also opens and closes the streams (dvb/dvb.cpp, dvb/Device.cpp). *)
(*                                                                         *)
(* A service exists as the original <<name, 0>>, which the device keeps,   *)
(* and as the clones <<name, 1>>, ... which addService makes while the     *)
(* original is in use. A packet is its number in the order of reading, and *)
(* the byte queue holds packets (see ByteQueue for the bytes).             *)
(*                                                                         *)
(* What is undefined in C++ ends the behaviour with a fault.               *)
(***************************************************************************)
EXTENDS Integers, Sequences, FiniteSets

CONSTANTS
  Names,       \* the services of the transponder that is received
  MaxClones,   \* bound: clones of a service
  Handles,     \* the streams a client may have open
  MaxPackets,  \* bound: packets read from the device
  QueueSize,   \* _packetQueueSize
  BqSize       \* packets a byte queue has room for

ASSUME PipelineAssumption ==
  /\ MaxClones \in Nat /\ MaxPackets \in Nat
  /\ QueueSize \in Nat \ {0} /\ BqSize \in Nat \ {0}

VARIABLES
  services,   \* _services of the remultiplexer
  queue,      \* _packetQueue of each instance; Sentinel is the null packet
  bytes,      \* its _byteQueue
  running,    \* its _queueThreadRunning
  thread,     \* where its queue thread is; "none" is no _pQueueThread
  held,       \* the packet its queue thread has taken from the queue
  ref,        \* _refCounter of each packet; 0 is freed, or not read yet
  walk,       \* the read thread: where it is, its packet and its iterator
  srv,        \* the thread of the server: where it is, and with which instance
  handles,    \* the instance whose byte queue a stream reads
  clones,     \* clones made of each service
  fault,      \* what undefined behaviour ended the run
  mishaps     \* history: "full", a packet met a full queue; "shift", a service
              \* was erased while a packet was given out

streamvars == <<services, handles, clones>>
vars == <<services, queue, bytes, running, thread, held, ref, walk, srv,
          handles, clones, fault, mishaps>>

Sentinel == 0
Packets == 1 .. MaxPackets
Instances == Names \X (0 .. MaxClones)
Original(i) == <<i[1], 0>>
Closed == <<>>

Walks == [pc : {"head", "read", "next", "give", "put"}, packet : 0 .. MaxPackets,
          takers : SUBSET Names, pos : Nat \ {0}, moved : BOOLEAN,
          target : Instances \cup {Closed}]

Jobs == [pc : {"idle", "read", "erased", "told", "joined"}, at : Instances \cup {Closed}]

\* A stop puts the sentinel on top of a queue that may be full.
TypeOK ==
  /\ services \in Seq(Instances)
  /\ queue \in [Instances -> Seq(Packets \cup {Sentinel})]
  /\ \A i \in Instances : Len(queue[i]) <= QueueSize + 1
  /\ bytes \in [Instances -> Seq(Packets)]
  /\ \A i \in Instances : Len(bytes[i]) <= BqSize
  /\ running \in [Instances -> BOOLEAN]
  /\ thread \in [Instances -> {"none", "test", "get", "wait", "woken", "write", "ended"}]
  /\ held \in [Instances -> Packets \cup {Sentinel}]
  /\ ref \in [Packets -> Nat]
  /\ walk \in Walks /\ srv \in Jobs
  /\ handles \in [Handles -> Instances \cup {Closed}]
  /\ clones \in [Names -> 0 .. MaxClones]
  /\ fault \in {"none", "packet", "iterator", "front"}
  /\ mishaps \subseteq {"full", "shift"}

Init ==
  /\ services = <<>>
  /\ queue = [i \in Instances |-> <<>>]
  /\ bytes = [i \in Instances |-> <<>>]
  /\ running = [i \in Instances |-> FALSE]
  /\ thread = [i \in Instances |-> "none"]
  /\ held = [i \in Instances |-> Sentinel]
  /\ ref = [p \in Packets |-> 0]
  /\ walk = [pc |-> "head", packet |-> 0, takers |-> {}, pos |-> 1,
             moved |-> FALSE, target |-> Closed]
  /\ srv = [pc |-> "idle", at |-> Closed]
  /\ handles = [h \in Handles |-> Closed]
  /\ clones = [n \in Names |-> 0]
  /\ fault = "none"
  /\ mishaps = {}

-----------------------------------------------------------------------------
(* Packets and their counts *)

Occurrences(q, p) == {k \in DOMAIN q : q[k] = p}

\* The read thread is giving out packet p.
Walking(p) == walk.pc \in {"next", "give", "put"} /\ walk.packet = p

\* incRefCounter
IncRef(p) == ref' = [ref EXCEPT ![p] = @ + 1]

\* decRefCounter, which frees a packet that nobody holds any more
DecRef(p) == ref' = [ref EXCEPT ![p] = @ - 1]

\* A call on a packet that was freed.
Freed(p) == ref[p] <= 0

Fault(f) ==
  /\ fault' = f
  /\ UNCHANGED <<services, queue, bytes, running, thread, held, ref, walk, srv,
                 handles, clones, mishaps>>

\* A broadcast on _queueReadCondition.
Wakened(i) == [thread EXCEPT ![i] = IF @ = "wait" THEN "woken" ELSE @]

-----------------------------------------------------------------------------
(* The read thread *)

\* delService keeps _remuxLock until it has done.
RemuxLocked == srv.pc \in {"erased", "told", "joined"}

\* The head of the loop: readThreadRunning() takes the lock.
ReadHead ==
  /\ walk.pc = "head" /\ ~RemuxLocked
  /\ walk' = [walk EXCEPT !.pc = "read"]
  /\ UNCHANGED <<streamvars, queue, bytes, running, thread, held, ref, srv, fault, mishaps>>

\* getTransportStreamPacket: a packet with a pid that some services want. After
\* an error or a timeout the loop goes on as before.
GetPacket ==
  /\ walk.pc = "read" /\ walk.packet < MaxPackets
  /\ \E takers \in SUBSET Names :
       walk' = [walk EXCEPT !.pc = "next", !.packet = @ + 1, !.takers = takers,
                            !.pos = 1, !.moved = FALSE]
  /\ ref' = [ref EXCEPT ![walk.packet + 1] = 1]
  /\ UNCHANGED <<streamvars, queue, bytes, running, thread, held, srv, fault, mishaps>>

\* The iterator is of use as long as push_back has not moved the services and
\* erase has not shortened them by more than one behind it.
Astray(last) == walk.moved \/ walk.pos > last

\* Compare with end(), and ask the service for its pids.
WalkNext ==
  /\ walk.pc = "next"
  /\ IF Astray(Len(services) + 1) THEN Fault("iterator")
     ELSE IF walk.pos = Len(services) + 1
       THEN IF Freed(walk.packet) THEN Fault("packet")
            ELSE /\ DecRef(walk.packet)
                 /\ walk' = [walk EXCEPT !.pc = "head", !.takers = {}, !.pos = 1]
                 /\ UNCHANGED <<streamvars, queue, bytes, running, thread, held, srv,
                                fault, mishaps>>
       ELSE /\ walk' = IF services[walk.pos][1] \in walk.takers
                         THEN [walk EXCEPT !.pc = "give"]
                         ELSE [walk EXCEPT !.pos = @ + 1]
            /\ UNCHANGED <<streamvars, queue, bytes, running, thread, held, ref, srv,
                           fault, mishaps>>

\* The iterator is read a second time for the service to call.
WalkGive ==
  /\ walk.pc = "give"
  /\ IF Astray(Len(services)) THEN Fault("iterator")
     ELSE /\ walk' = [walk EXCEPT !.pc = "put", !.target = services[walk.pos]]
          /\ UNCHANGED <<streamvars, queue, bytes, running, thread, held, ref, srv,
                         fault, mishaps>>

\* Mutant: the queue takes one packet more than it has room for.
QueueTsPacketBound ==
  /\ walk.pc = "put"
  /\ LET p == walk.packet
         i == walk.target
     IN IF Freed(p) THEN Fault("packet")
        ELSE /\ IF Len(queue[i]) <= QueueSize
                  THEN /\ IncRef(p)
                       /\ queue' = [queue EXCEPT ![i] = Append(@, p)]
                       /\ thread' = Wakened(i)
                       /\ UNCHANGED mishaps
                  ELSE /\ DecRef(p)
                       /\ mishaps' = mishaps \cup {"full"}
                       /\ UNCHANGED <<queue, thread>>
             /\ walk' = [walk EXCEPT !.pc = "next", !.pos = @ + 1, !.target = Closed]
             /\ UNCHANGED <<streamvars, bytes, running, held, srv, fault>>

\* Mutant: nobody is told of the packet.
QueueTsPacketSilent ==
  /\ walk.pc = "put"
  /\ LET p == walk.packet
         i == walk.target
     IN IF Freed(p) THEN Fault("packet")
        ELSE /\ IF Len(queue[i]) < QueueSize
                  THEN /\ IncRef(p)
                       /\ queue' = [queue EXCEPT ![i] = Append(@, p)]
                       /\ UNCHANGED thread
                       /\ UNCHANGED mishaps
                  ELSE /\ DecRef(p)
                       /\ mishaps' = mishaps \cup {"full"}
                       /\ UNCHANGED <<queue, thread>>
             /\ walk' = [walk EXCEPT !.pc = "next", !.pos = @ + 1, !.target = Closed]
             /\ UNCHANGED <<streamvars, bytes, running, held, srv, fault>>

\* queueTsPacket of the service, and ++it.
QueueTsPacket ==
  /\ walk.pc = "put"
  /\ LET p == walk.packet
         i == walk.target
     IN IF Freed(p) THEN Fault("packet")
        ELSE /\ IF Len(queue[i]) < QueueSize
                  THEN /\ IncRef(p)
                       /\ queue' = [queue EXCEPT ![i] = Append(@, p)]
                       /\ thread' = Wakened(i)
                       /\ UNCHANGED mishaps
                  ELSE /\ DecRef(p)
                       /\ mishaps' = mishaps \cup {"full"}
                       /\ UNCHANGED <<queue, thread>>
             /\ walk' = [walk EXCEPT !.pc = "next", !.pos = @ + 1, !.target = Closed]
             /\ UNCHANGED <<streamvars, bytes, running, held, srv, fault>>

-----------------------------------------------------------------------------
(* The queue thread of an instance *)

QueueTest(i) ==
  /\ thread[i] = "test"
  /\ thread' = [thread EXCEPT ![i] = IF running[i] THEN "get" ELSE "ended"]
  /\ UNCHANGED <<streamvars, queue, bytes, running, held, ref, walk, srv, fault, mishaps>>

\* front() and pop(): the null packet ends the thread.
Pop(i) ==
  /\ held' = [held EXCEPT ![i] = Head(queue[i])]
  /\ queue' = [queue EXCEPT ![i] = Tail(@)]
  /\ thread' = [thread EXCEPT ![i] = IF Head(queue[i]) = Sentinel THEN "ended" ELSE "write"]
  /\ UNCHANGED <<streamvars, bytes, running, ref, walk, srv, fault, mishaps>>

\* An empty queue makes the thread wait, once.
QueueGet(i) ==
  /\ thread[i] = "get"
  /\ IF queue[i] = <<>>
       THEN /\ thread' = [thread EXCEPT ![i] = "wait"]
            /\ UNCHANGED <<streamvars, queue, bytes, running, held, ref, walk, srv,
                           fault, mishaps>>
       ELSE Pop(i)

QueueGoOn(i) ==
  /\ thread[i] = "woken"
  /\ IF queue[i] = <<>> THEN Fault("front") ELSE Pop(i)

\* The write to the byte queue waits for room.
QueueWrite(i) ==
  /\ thread[i] = "write" /\ Len(bytes[i]) < BqSize
  /\ IF Freed(held[i]) THEN Fault("packet")
     ELSE /\ bytes' = [bytes EXCEPT ![i] = Append(@, held[i])]
          /\ DecRef(held[i])
          /\ held' = [held EXCEPT ![i] = Sentinel]
          /\ thread' = [thread EXCEPT ![i] = "test"]
          /\ UNCHANGED <<streamvars, queue, running, walk, srv, fault, mishaps>>

-----------------------------------------------------------------------------
(* The thread of the server *)

\* Where an instance stands in the list, and the list without place k.
Places(i) == {k \in DOMAIN services : services[k] = i}

Erased(k) ==
  [j \in 1 .. Len(services) - 1 |-> IF j < k THEN services[j] ELSE services[j + 1]]

\* Mutant: a service in use is added once more instead of a clone.
OpenTwice(h) ==
  /\ srv.pc = "idle" /\ handles[h] = Closed
  /\ \E n \in Names :
       /\ services' = Append(services, <<n, 0>>)
       /\ handles' = [handles EXCEPT ![h] = <<n, 0>>]
       /\ IF thread[<<n, 0>>] = "none"
            THEN /\ running' = [running EXCEPT ![<<n, 0>>] = TRUE]
                 /\ thread' = [thread EXCEPT ![<<n, 0>>] = "test"]
            ELSE UNCHANGED <<running, thread>>
  /\ \E moved \in BOOLEAN : walk' = [walk EXCEPT !.moved = @ \/ moved]
  /\ UNCHANGED <<clones, queue, bytes, held, ref, srv, fault, mishaps>>

\* dvb_stream, down to addService: a service in use is cloned. push_back may
\* move the services elsewhere, under the read thread's iterator.
Open(h) ==
  /\ srv.pc = "idle" /\ handles[h] = Closed
  /\ \E n \in Names :
       LET cloned == Places(<<n, 0>>) # {}
           i == IF cloned THEN <<n, clones[n] + 1>> ELSE <<n, 0>>
       IN /\ cloned => clones[n] < MaxClones
          /\ clones' = IF cloned THEN [clones EXCEPT ![n] = @ + 1] ELSE clones
          /\ services' = Append(services, i)
          /\ handles' = [handles EXCEPT ![h] = i]
          /\ IF thread[i] = "none"
               THEN /\ running' = [running EXCEPT ![i] = TRUE]
                    /\ thread' = [thread EXCEPT ![i] = "test"]
               ELSE UNCHANGED <<running, thread>>
  /\ \E moved \in BOOLEAN : walk' = [walk EXCEPT !.moved = @ \/ moved]
  /\ UNCHANGED <<queue, bytes, held, ref, srv, fault, mishaps>>

\* dvb_read_stream: readSome of the byte queue ...
Read(h) ==
  /\ srv.pc = "idle" /\ handles[h] # Closed
  /\ srv' = [pc |-> "read", at |-> handles[h]]
  /\ UNCHANGED <<streamvars, queue, bytes, running, thread, held, ref, walk, fault, mishaps>>

\* ... waits until there is something, and takes some of it.
ReadSome ==
  /\ srv.pc = "read" /\ bytes[srv.at] # <<>>
  /\ \E k \in DOMAIN bytes[srv.at] :
       bytes' = [bytes EXCEPT ![srv.at] = SubSeq(@, k + 1, Len(@))]
  /\ srv' = [pc |-> "idle", at |-> Closed]
  /\ UNCHANGED <<streamvars, queue, running, thread, held, ref, walk, fault, mishaps>>

\* dvb_free_stream, which stops the original, down to the erase of delService.
Close(h) ==
  /\ srv.pc = "idle" /\ handles[h] # Closed
  /\ LET i == Original(handles[h])
     IN /\ \/ Places(i) = {} /\ UNCHANGED services
           \/ \E k \in Places(i) : (\A j \in Places(i) : k <= j) /\ services' = Erased(k)
        /\ srv' = [pc |-> "erased", at |-> i]
  /\ handles' = [handles EXCEPT ![h] = Closed]
  /\ mishaps' = IF Walking(walk.packet) THEN mishaps \cup {"shift"} ELSE mishaps
  /\ UNCHANGED <<clones, queue, bytes, running, thread, held, ref, walk, fault>>

\* Mutant: the byte queue is not cleared.
StopUncleared ==
  /\ srv.pc = "erased"
  /\ running' = [running EXCEPT ![srv.at] = FALSE]
  /\ UNCHANGED bytes
  /\ queue' = [queue EXCEPT ![srv.at] = Append(@, Sentinel)]
  /\ thread' = Wakened(srv.at)
  /\ srv' = [srv EXCEPT !.pc = "told"]
  /\ UNCHANGED <<streamvars, held, ref, walk, fault, mishaps>>

\* Mutant: the thread is woken without a sentinel in its queue.
StopUnmarked ==
  /\ srv.pc = "erased"
  /\ running' = [running EXCEPT ![srv.at] = FALSE]
  /\ bytes' = [bytes EXCEPT ![srv.at] = <<>>]
  /\ UNCHANGED queue
  /\ thread' = Wakened(srv.at)
  /\ srv' = [srv EXCEPT !.pc = "told"]
  /\ UNCHANGED <<streamvars, held, ref, walk, fault, mishaps>>

\* stopQueueThread: the sentinel ends the thread, and the room in the byte queue
\* lets it get there.
StopQueueThread ==
  /\ srv.pc = "erased"
  /\ running' = [running EXCEPT ![srv.at] = FALSE]
  /\ bytes' = [bytes EXCEPT ![srv.at] = <<>>]
  /\ queue' = [queue EXCEPT ![srv.at] = Append(@, Sentinel)]
  /\ thread' = Wakened(srv.at)
  /\ srv' = [srv EXCEPT !.pc = "told"]
  /\ UNCHANGED <<streamvars, held, ref, walk, fault, mishaps>>

\* Mutant: _pQueueThread is not reset.
WaitNoReset ==
  /\ srv.pc = "told" /\ thread[srv.at] \in {"none", "ended"}
  /\ srv' = [srv EXCEPT !.pc = "joined"]
  /\ UNCHANGED <<streamvars, queue, bytes, running, thread, held, ref, walk, fault, mishaps>>

\* Assumed: the thread, once told, ends within _packetQueueTimeout.
WaitForStopQueueThread ==
  /\ srv.pc = "told" /\ thread[srv.at] \in {"none", "ended"}
  /\ thread' = [thread EXCEPT ![srv.at] = "none"]
  /\ srv' = [srv EXCEPT !.pc = "joined"]
  /\ UNCHANGED <<streamvars, queue, bytes, running, held, ref, walk, fault, mishaps>>

\* Mutant: what is left in the queue is not released.
FlushKeeps ==
  /\ srv.pc = "joined"
  /\ queue' = [queue EXCEPT ![srv.at] = <<>>]
  /\ bytes' = [bytes EXCEPT ![srv.at] = <<>>]
  /\ srv' = [pc |-> "idle", at |-> Closed]
  /\ UNCHANGED <<streamvars, running, thread, held, ref, walk, fault, mishaps>>

\* Releases what is left in the queue.
Flush ==
  /\ srv.pc = "joined"
  /\ LET q == queue[srv.at]
         left == [p \in Packets |-> Cardinality(Occurrences(q, p))]
     IN IF \E p \in Packets : left[p] > 0 /\ ref[p] < left[p] THEN Fault("packet")
        ELSE /\ ref' = [p \in Packets |-> ref[p] - left[p]]
             /\ queue' = [queue EXCEPT ![srv.at] = <<>>]
             /\ bytes' = [bytes EXCEPT ![srv.at] = <<>>]
             /\ srv' = [pc |-> "idle", at |-> Closed]
             /\ UNCHANGED <<streamvars, running, thread, held, walk, fault, mishaps>>

-----------------------------------------------------------------------------
Walker == ReadHead \/ GetPacket \/ WalkNext \/ WalkGive \/ QueueTsPacket

QueueThread(i) == QueueTest(i) \/ QueueGet(i) \/ QueueGoOn(i) \/ QueueWrite(i)

Stop == StopQueueThread \/ WaitForStopQueueThread \/ Flush

Server == (\E h \in Handles : Open(h) \/ Read(h) \/ Close(h)) \/ ReadSome \/ Stop

Next ==
  /\ fault = "none"
  /\ Walker \/ (\E i \in Instances : QueueThread(i)) \/ Server

Spec == Init /\ [][Next]_vars

\* Threads that can go on do. The device need not deliver packets, and clients
\* need not open, read or close.
Fairness ==
  /\ WF_vars(fault = "none" /\ (WalkNext \/ WalkGive \/ QueueTsPacket))
  /\ \A i \in Instances : WF_vars(fault = "none" /\ QueueThread(i))
  /\ WF_vars(fault = "none" /\ (ReadSome \/ Stop))

FairSpec == Spec /\ Fairness

-----------------------------------------------------------------------------
(* Properties *)

\* Who holds packet p: <<i, 0>> is the queue thread of i, <<i, k>> place k of
\* its queue.
Holders(p) ==
  {<<i, 0>> : i \in {j \in Instances : held[j] = p}}
    \cup UNION {{<<i, k>> : k \in Occurrences(queue[i], p)} : i \in Instances}

\* The count of a packet is the number of places that hold it, over all threads
\* and instances, so that it is freed when the last one releases it and never
\* used after that. It holds as long as no queue was full (see NoFreedPacket).
RefsExact ==
  "full" \notin mishaps =>
    /\ fault # "packet"
    /\ \A p \in Packets :
         ref[p] = Cardinality(Holders(p)) + (IF Walking(p) THEN 1 ELSE 0)

\* What instance i has received and nobody has read yet, with sentinels.
Pending(i) == bytes[i] \o <<held[i]>> \o queue[i]

\* A stream never gets packets in another order than they were received in,
\* whatever is opened and closed meanwhile; nor one twice, unless a service was
\* erased behind the iterator of the read thread.
InOrder ==
  \A i \in Instances : \A j, k \in DOMAIN Pending(i) :
    j < k /\ Sentinel \notin {Pending(i)[j], Pending(i)[k]} =>
      /\ Pending(i)[j] <= Pending(i)[k]
      /\ "shift" \notin mishaps => Pending(i)[j] # Pending(i)[k]

\* A queue thread that was woken finds a packet or the sentinel, though it does
\* not look again.
NoEmptyFront == fault # "front"

\* Every service the remultiplexer gives packets to has a live queue thread,
\* also one that was stopped before: no sentinel is left in a queue. And as
\* long as a service was never cloned, its open stream is among them: nobody
\* else's close takes it away.
Served ==
  /\ \A k \in DOMAIN services :
       running[services[k]] /\ thread[services[k]] \notin {"none", "ended"}
  /\ \A h \in Handles :
       handles[h] # Closed /\ clones[handles[h][1]] = 0
         => Places(handles[h]) # {}

\* The stop of a service ends: the queue thread may be waiting for a packet or
\* for room in the byte queue, and is told in either place. The thread of the
\* server would hang with all its clients.
StopEnds == srv.pc = "erased" ~> srv.pc = "idle" \/ fault # "none"

\* A read comes back when the service whose stream is read has a packet queued.
ReadServed ==
  srv.pc = "read" /\ running[srv.at] /\ queue[srv.at] # <<>>
    ~> srv.pc # "read" \/ fault # "none"

\* What the log message of queueTsPacket says, that a packet is discarded when
\* the queue of a service is full, and not the packet of everybody else.
NoFreedPacket == fault # "packet"

=============================================================================
