------------------------------ MODULE DvbDevice ------------------------------
(***************************************************************************)
(* The device as the media server uses it (dvb/dvb.cpp, dvb/Device.cpp,    *)
(* with the tuning of dvb/Frontend.cpp and the pid filters of              *)
(* dvb/Demux.cpp): a stream is opened by the name of a service, for which  *)
(* a transponder and its frontend are chosen, and is closed again. The     *)
(* device is what the server has read from the file of the scanner.        *)
(*                                                                         *)
(* A transponder is its place in the device, a service its transponder and *)
(* its number there. What the remultiplexer and its queues do with the     *)
(* packets is the subject of DvbPipeline: here an instance of a service    *)
(* (the original, or a clone) is given packets or not. Packets that are    *)
(* still queued when they stop coming are taken for read.                  *)
(*                                                                         *)
(* Every frontend of an adapter has a Demux and a Dvr object of its own,   *)
(* but they all open demux 0 and dvr 0 of the adapter. Only the first that *)
(* opens dvr 0 can read it, and what comes there is what the hardware      *)
(* connects to demux 0: the packets of one frontend, of all the pids for   *)
(* which anybody has started a filter.                                     *)
(*                                                                         *)
(* A filter is a file descriptor, from the same numbers 0, 1, ... as those *)
(* of the files the server opens. The numbers leave out the descriptors    *)
(* that the server never closes; 0 is its standard input.                  *)
(***************************************************************************)
EXTENDS DvbTables

CONSTANTS
  Hardware,   \* the adapters with their frontends, as detectAdapters meets them
  Wirings,    \* how the hardware may be wired: the node of each adapter whose packets
              \* its demux 0 gets
  File,       \* the description of the device
  Weak,       \* the places of transponders that do not always lock
  Scarce,     \* the pids for which no filter may be left
  Handles,    \* the streams that may be open
  MaxClones,  \* bound: clones of a service that are given packets
  MaxOpens,   \* bound: streams that are opened
  MaxFd       \* bound: descriptors are 0 .. MaxFd

VARIABLES
  device,    \* the device as it was read
  smap,      \* _serviceMap: the transponders of each name
  feeder,    \* the frontend of each adapter that is wired to demux 0, if it was detected
  tuned,     \* _pTunedTransponder of each frontend
  locked,    \* the transponder its hardware receives
  refs,      \* _refCount of the filter of each pid; 0 is no filter
  handle,    \* _fileDesc of the filter of each pid
  fds,       \* what each descriptor is of
  marks,     \* _runningServices of each transponder
  served,    \* the instances the remultiplexer of each frontend gives packets to
  deleted,   \* the transponders that dvb_stream has deleted
  streams,   \* the DvbStream of each handle
  opens,     \* the streams opened so far
  mishaps    \* history: what has happened that streams may suffer from

tuner == <<tuned, locked>>
filters == <<refs, handle>>
dvbvars == <<device, smap, feeder, tuner, filters, marks, served, deleted, streams, opens>>
devvars == <<dvbvars, fds, mishaps>>

Nowhere == <<>>
Closed == [state |-> "closed"]
Null == [state |-> "null"]

FrontOf(p) == <<p[1], p[2]>>
First(S) == CHOOSE k \in S : \A j \in S : k <= j

AllFronts == UNION {{<<a, f>> : f \in DOMAIN Hardware[a].frontends} : a \in DOMAIN Hardware}

ServiceAt(p, k) == At(device, p).services[k]
Pids(p, k) == LET pid(s) == s.pid IN Map(pid, ServiceAt(p, k).streams)
Carried(p) == UNION {ToSet(Pids(p, k)) : k \in DOMAIN At(device, p).services}

ASSUME DeviceAssumption ==
  /\ MaxClones \in Nat /\ MaxOpens \in Nat /\ MaxFd \in Nat \ {0} /\ IsFiniteSet(Handles)
  /\ \A wired \in Wirings : DOMAIN wired = DOMAIN Hardware

\* What a descriptor is of: nothing, standard input, a file, or a filter for a pid,
\* which is started or not.
Unused == [of |-> "none"]
StdIn == [of |-> "stdin"]
FileAt(path) == [of |-> "file", path |-> path]
FilterFor(a, p, on) == [of |-> "filter", adapter |-> a, pid |-> p, on |-> on]

DeviceTypeOK ==
  /\ tuned \in [AllFronts -> DOMAIN marks \cup {Nowhere}]
  /\ locked \in [AllFronts -> DOMAIN marks \cup {Nowhere}]
  /\ \A f \in AllFronts : \A p \in DOMAIN refs[f] : refs[f][p] \in Nat
  /\ \A f \in AllFronts : \A p \in DOMAIN refs[f] : handle[f][p] \in -1 .. MaxFd
  /\ DOMAIN fds = 0 .. MaxFd
  /\ \A n \in DOMAIN fds : fds[n].of \in {"none", "stdin", "file", "filter"}
  /\ \A p \in DOMAIN marks : \A i \in marks[p] : i.at = p /\ i.clone \in 0 .. MaxClones
  /\ \A f \in AllFronts : \A i \in served[f] : FrontOf(i.at) = f
  /\ deleted \subseteq DOMAIN marks
  /\ \A h \in Handles : streams[h].state \in {"closed", "null", "open"}
  /\ opens \in 0 .. MaxOpens
  /\ mishaps \subseteq {"refused", "interrupted", "lost", "cloned", "strayed", "unfiltered",
                        "deaf", "descriptor", "tail"}

\* initServiceMap.
ServiceMap(d) ==
  LET places == ToSet(TransponderPlaces(d))
      names == UNION {{s.name : s \in ToSet(At(d, p).services)} : p \in places}
  IN [n \in names |-> serviceMap(d, n)]

\* What the readers make of the description: the services and streams of a transponder
\* are vectors, its frontend is one of the hardware, and a name of the service map is
\* that of a service of each of its transponders.
Readable(d) ==
  LET places == ToSet(TransponderPlaces(d))
      map == ServiceMap(d)
  IN /\ places \subseteq Nat \X Nat \X Nat
     /\ \A p \in places :
          /\ FrontOf(p) \in AllFronts /\ DOMAIN At(d, p).services \subseteq Nat
          /\ \A k \in DOMAIN At(d, p).services :
               LET carried == At(d, p).services[k].streams
               IN [j \in DOMAIN carried |-> carried[j].pid] \in Seq(Nat)
     /\ \A n \in DOMAIN map :
          /\ map[n] \in Seq(places)
          /\ \A p \in ToSet(map[n]) :
               \E k \in DOMAIN At(d, p).services : At(d, p).services[k].name = n

\* The place that a node of adapter a has among the frontends detected.
PlaceOf(node, a, silent) ==
  LET detected == Those(Hardware[a].frontends, LAMBDA f : f.node \notin silent)
      of == {k \in DOMAIN detected : detected[k].node = node}
  IN IF of = {} THEN Nowhere ELSE <<a, First(of)>>

\* dvb_init and dvb_open. The nodes in "silent" do not answer.
DeviceInit(silent) ==
  /\ device = DeviceReadXml(detectAdapters(Hardware, silent), File)
  /\ smap = ServiceMap(device)
  /\ LET places == ToSet(TransponderPlaces(device))
         pids == UNION {Carried(p) : p \in places}
     IN /\ refs = [f \in AllFronts |-> [p \in pids |-> 0]]
        /\ handle = [f \in AllFronts |-> [p \in pids |-> -1]]
        /\ marks = [p \in places |-> {}]
  /\ tuned = [f \in AllFronts |-> Nowhere] /\ locked = tuned
  /\ \E wired \in Wirings : feeder = [a \in DOMAIN Hardware |-> PlaceOf(wired[a], a, silent)]
  /\ fds = [n \in 0 .. MaxFd |-> IF n = 0 THEN StdIn ELSE Unused]
  /\ served = [f \in AllFronts |-> {}]
  /\ deleted = {}
  /\ streams = [h \in Handles |-> Closed]
  /\ opens = 0 /\ mishaps = {}

Candidates(name) == IF name \in DOMAIN smap THEN smap[name] ELSE <<>>

\* openDvr: dvr 0 of the adapter belongs to the first frontend with transponders. It
\* gets packets of its own if it is the wired one.
Reads(f) ==
  LET used(k) == device[f[1]].frontends[k].transponders # <<>>
  IN used(f[2]) /\ \A k \in 1 .. f[2] - 1 : ~used(k)
Hears(f) == Reads(f) /\ feeder[f[1]] = f

-----------------------------------------------------------------------------
(* Tuning *)

\* Transponder::getService: the first service of the name.
getService(p, name) ==
  First({k \in DOMAIN At(device, p).services : ServiceAt(p, k).name = name})

\* tuneToService goes through the candidates with a service that is not scrambled:
\* one that is tuned to, or one whose frontend is not in use and locks, or the last
\* of all even though its frontend is in use.
Usable(name, places) == {k \in DOMAIN places : ~ServiceAt(places[k], getService(places[k], name)).scrambled}
Fits(name, places, lock) ==
  {k \in Usable(name, places) :
     LET f == FrontOf(places[k])
     IN \/ tuned[f] = places[k]
        \/ (tuned[f] = Nowhere \/ k = Len(places)) /\ places[k] \in lock}

\* The candidate for which a frontend in use is tuned anew, if it comes to that.
Retunes(name, places, fits) ==
  LET k == Len(places)
      now == tuned[FrontOf(places[k])]
  IN k \in Usable(name, places) /\ now \notin {Nowhere, places[k]} /\ fits \subseteq {k}

\* Candidates are touched in order, up to the one that is taken.
Touched(places, fits) ==
  ToSet(IF fits = {} THEN places ELSE SubSeq(places, 1, First(fits)))

\* Streams that lose their transponder when frontend f leaves it.
Interrupted(f) ==
  {h \in Handles : streams[h].state = "open" /\ FrontOf(streams[h].inst.at) = f
                   /\ streams[h].inst.at = tuned[f]}

\* stopServiceStreamsOnTransponder: stopStream does nothing for a byte queue, but
\* the marks of the transponder go.
StoppedMarks(f) == [marks EXCEPT ![tuned[f]] = {}]

-----------------------------------------------------------------------------
(* Filters *)

Count(pids, p) == Cardinality({k \in DOMAIN pids : pids[k] = p})

\* The pids before the first place at which a loop over them is left.
Until(pids, fails) == IF fails = {} THEN pids ELSE SubSeq(pids, 1, First(fails) - 1)

\* selectService: the streams up to the first whose filter cannot be opened.
Selected(f, pids, none) ==
  Until(pids, {k \in DOMAIN pids : refs[f][pids[k]] = 0 /\ pids[k] \in none})

\* The pids of which nobody has a filter yet get the lowest free descriptors, in
\* the order in which they are met.
Fresh(f, taken) == {p \in ToSet(taken) : refs[f][p] = 0}
Openings(f, taken) ==
  LET free == {n \in DOMAIN fds : fds[n] = Unused}
      met(p) == First({k \in DOMAIN taken : taken[k] = p})
  IN {new \in [Fresh(f, taken) -> free] :
        /\ \A p, q \in Fresh(f, taken) : met(p) < met(q) => new[p] < new[q]
        /\ \A p \in Fresh(f, taken) : \A n \in free :
             n < new[p] => \E q \in Fresh(f, taken) : new[q] = n}

\* selectService, and runService, which starts the filters that nobody else has.
TakeFilters(f, pids, none, start) ==
  LET taken == Selected(f, pids, none)
      fresh == Fresh(f, taken)
      now == [p \in DOMAIN refs[f] |-> refs[f][p] + Count(taken, p)]
      opened(p) == FilterFor(f[1], p, start /\ now[p] = 1)
  IN \E new \in Openings(f, taken) :
       /\ refs' = [refs EXCEPT ![f] = now]
       /\ handle' = [handle EXCEPT ![f] = [p \in DOMAIN refs[f] |-> IF p \in fresh THEN new[p] ELSE @[p]]]
       /\ fds' = [n \in DOMAIN fds |->
            IF \A p \in fresh : new[p] # n THEN fds[n]
            ELSE opened(CHOOSE p \in fresh : new[p] = n)]

\* Mutant: the filters are not started.
SelectBug(f, pids, none) == TakeFilters(f, pids, none, FALSE)

Select(f, pids, none) == TakeFilters(f, pids, none, TRUE)

\* runService stops the filters that nobody else has, whosoever the descriptor is
\* by now, up to the first that is missing or that is none.
Stopped(f, pids) ==
  LET last(p) == refs[f][p] = 1
      missing == {k \in DOMAIN pids : refs[f][pids[k]] = 0}
      fails == {k \in DOMAIN pids : last(pids[k]) /\ fds[handle[f][pids[k]]].of # "filter"}
  IN {handle[f][p] : p \in {q \in ToSet(Until(pids, missing \cup fails)) : last(q)}}

\* unselectService: the count of the k-th stream's filter when it is reached, ...
Left(f, pids, k) == refs[f][pids[k]] - Count(SubSeq(pids, 1, k - 1), pids[k])

\* ... and the streams up to the first that has no filter, or whose descriptor is
\* closed already.
Unselected(f, pids) ==
  LET at(k) == handle[f][pids[k]]
      closing == {k \in DOMAIN pids : Left(f, pids, k) = 1}
      missing == {k \in DOMAIN pids : Left(f, pids, k) <= 0}
      fails == {k \in closing : fds[at(k)] = Unused \/ \E j \in closing : j < k /\ at(j) = at(k)}
  IN Until(pids, missing \cup fails)

\* Mutant: a filter is closed whoever else has it.
UnselectBug(f, pids) ==
  LET mine == {p \in ToSet(pids) : refs[f][p] > 0}
      closed == {handle[f][p] : p \in mine}
  IN /\ refs' = [refs EXCEPT ![f] = [p \in DOMAIN refs[f] |-> IF p \in mine THEN 0 ELSE @[p]]]
     /\ handle' = [handle EXCEPT ![f] = [p \in DOMAIN refs[f] |-> IF p \in mine THEN -1 ELSE @[p]]]
     /\ fds' = [n \in DOMAIN fds |-> IF n \in closed THEN Unused ELSE fds[n]]

Unselect(f, pids) ==
  LET taken == Unselected(f, pids)
      now == [p \in DOMAIN refs[f] |-> refs[f][p] - Count(taken, p)]
      gone == {p \in ToSet(taken) : now[p] = 0}
      closed == {handle[f][p] : p \in gone}
  IN /\ refs' = [refs EXCEPT ![f] = now]
     /\ handle' = [handle EXCEPT ![f] = [p \in DOMAIN refs[f] |-> IF p \in gone THEN -1 ELSE @[p]]]
     /\ fds' = [n \in DOMAIN fds |->
          IF n \in closed THEN Unused
          ELSE IF n \in Stopped(f, pids) THEN [fds[n] EXCEPT !.on = FALSE] ELSE fds[n]]

-----------------------------------------------------------------------------
(* dvb_stream and dvb_free_stream *)

\* What the media server can play.
Playable(service) ==
  /\ service.status = StatusRunning /\ ~service.scrambled
  /\ isAudio(service.type) \/ isSdVideo(service.type)

\* Mutant: a stream that could not be opened is not kept.
OpensBug(h, stream) ==
  /\ streams' = IF stream = Null THEN streams ELSE [streams EXCEPT ![h] = stream]
  /\ opens' = opens + 1

Opens(h, stream) == streams' = [streams EXCEPT ![h] = stream] /\ opens' = opens + 1

\* getFirstTransponder finds nothing.
Unknown(h, name) ==
  /\ Candidates(name) = <<>>
  /\ Opens(h, Null)
  /\ UNCHANGED <<device, smap, feeder, tuner, filters, fds, marks, served, deleted, mishaps>>

\* A service that cannot be played: its transponder is deleted.
Refuse(h, name) ==
  /\ Candidates(name) # <<>>
  /\ LET first == Candidates(name)[1]
     IN /\ first \notin deleted
        /\ ~Playable(ServiceAt(first, getService(first, name)))
        /\ deleted' = deleted \cup {first}
  /\ mishaps' = mishaps \cup {"refused"}
  /\ Opens(h, Null)
  /\ UNCHANGED <<device, smap, feeder, tuner, filters, fds, marks, served>>

\* getByteQueue, with the transponders "lock" that lock now: a frontend is found.
\* startService: addService clones a service that is given packets already.
Start(h, name, lock, none) ==
  LET places == Candidates(name)
      first == places[1]
      fits == Fits(name, places, lock)
      p == places[First(fits)]
      f == FrontOf(p)
      instance(n) == [at |-> p, number |-> getService(p, name), clone |-> n]
      pids == Pids(p, getService(p, name))
      n == First({k \in 0 .. MaxClones + 1 : instance(k) \notin served[f]})
      retune == Retunes(name, places, fits)
      events ==
        (IF retune /\ Interrupted(f) # {} THEN {"interrupted"} ELSE {})
        \cup (IF n > 0 THEN {"cloned"} ELSE {})
        \cup (IF p # first THEN {"strayed"} ELSE {})
        \cup (IF Selected(f, pids, none) # pids THEN {"unfiltered"} ELSE {})
        \cup (IF ~Hears(f) THEN {"deaf"} ELSE {})
  IN /\ fits # {} /\ n <= MaxClones
     /\ Touched(places, fits) \cap deleted = {}
     /\ retune => tuned[f] \notin deleted
     /\ tuned' = [tuned EXCEPT ![f] = p]
     /\ locked' = IF tuned[f] = p THEN locked ELSE [locked EXCEPT ![f] = p]
     /\ served' = [served EXCEPT ![f] = @ \cup {instance(n)}]
     /\ Select(f, pids, none)
     /\ marks' = [(IF retune THEN StoppedMarks(f) ELSE marks) EXCEPT ![p] = @ \cup {instance(n)}]
     /\ Opens(h, [state |-> "open", inst |-> instance(n),
                  from |-> [at |-> first, number |-> getService(first, name), clone |-> 0]])
     /\ mishaps' = mishaps \cup events
     /\ UNCHANGED <<device, smap, feeder, deleted>>

\* No frontend can tune to the service: the first transponder is deleted, and the
\* service. A frontend that was tuned anew for it still counts as tuned as before,
\* but its hardware receives what it did (the tuning was refused), nothing, or,
\* when it locks too late, what it was tuned to.
NoFrontend(h, name, lock) ==
  LET places == Candidates(name)
      f == FrontOf(Last(places))
      retune == Retunes(name, places, {})
      original == [at |-> places[1], number |-> getService(places[1], name), clone |-> 0]
  IN /\ Fits(name, places, lock) = {}
     /\ Touched(places, {}) \cap deleted = {}
     /\ retune => tuned[f] \notin deleted
     /\ original \notin served[FrontOf(places[1])]
     /\ deleted' = deleted \cup {places[1]}
     /\ IF retune THEN \E m \in {locked[f], Nowhere, Last(places)} : locked' = [locked EXCEPT ![f] = m]
                  ELSE UNCHANGED locked
     /\ marks' = IF retune THEN StoppedMarks(f) ELSE marks
     /\ mishaps' = mishaps \cup {"refused"} \cup (IF retune THEN {"lost"} ELSE {})
     /\ Opens(h, Null)
     /\ UNCHANGED <<device, smap, feeder, tuned, filters, fds, served>>

\* A transponder or service is used that was deleted before, or is deleted while the
\* remultiplexer uses it.
OpenFreed(name, lock) ==
  LET places == Candidates(name)
      fits == Fits(name, places, lock)
      original == [at |-> places[1], number |-> getService(places[1], name), clone |-> 0]
  IN /\ places # <<>>
     /\ \/ places[1] \in deleted
        \/ /\ Playable(ServiceAt(places[1], getService(places[1], name)))
           /\ \/ Touched(places, fits) \cap deleted # {}
              \/ Retunes(name, places, fits) /\ tuned[FrontOf(Last(places))] \in deleted
              \/ fits = {} /\ original \in served[FrontOf(places[1])]

\* The transponders that lock at the time of an opening.
Locking == {(DOMAIN marks \ Weak) \cup w : w \in SUBSET Weak}

DvbStream(h, name) ==
  /\ streams[h] = Closed /\ opens < MaxOpens
  /\ \/ Unknown(h, name)
     \/ Refuse(h, name)
     \/ /\ Candidates(name) # <<>>
        /\ LET first == Candidates(name)[1]
           IN first \notin deleted /\ Playable(ServiceAt(first, getService(first, name)))
        /\ \E lock \in Locking :
             \/ \E none \in SUBSET Scarce : Start(h, name, lock, none)
             \/ NoFrontend(h, name, lock)

DvbStreamFreed(h, name) == streams[h] = Closed /\ \E lock \in Locking : OpenFreed(name, lock)

\* stopService is called for the service of the first transponder of the name, not
\* for the instance that was started.
StoppedService(h) == streams[h].from

DvbFreeStream(h) ==
  /\ streams[h].state \in {"null", "open"}
  /\ streams' = [streams EXCEPT ![h] = Closed]
  /\ IF streams[h] = Null THEN UNCHANGED <<filters, fds, marks, served>>
     ELSE LET i == StoppedService(h)
              f == FrontOf(i.at)
          IN /\ i.at \notin deleted
             /\ Unselect(f, Pids(i.at, i.number))
             /\ served' = [served EXCEPT ![f] = @ \ {i}]
             /\ marks' = [marks EXCEPT ![i.at] = @ \ {i}]
  /\ UNCHANGED <<device, smap, feeder, tuner, deleted, opens, mishaps>>

DvbFreeStreamFreed(h) == streams[h].state = "open" /\ streams[h].from.at \in deleted

\* What demux 0 of adapter a hands to dvr 0: packets of the transponder the wired
\* frontend has locked, with the pids of all filters that are started.
Tapped(a) == {fds[n].pid : n \in {k \in DOMAIN fds :
                fds[k].of = "filter" /\ fds[k].adapter = a /\ fds[k].on}}
Handed(a) ==
  LET m == IF feeder[a] = Nowhere THEN Nowhere ELSE locked[feeder[a]]
  IN IF m = Nowhere THEN {} ELSE {<<m, p>> : p \in Tapped(a) \cap Carried(m)}

\* Mutant: a stream gets the packets of all filters.
ReceivedBug(h) ==
  LET i == streams[h].inst
      f == FrontOf(i.at)
  IN IF i \notin served[f] \/ ~Reads(f) THEN {} ELSE Handed(f[1])

\* What a read of the stream can get: the transponder the packet comes from, and
\* its pid. Nothing, and the read waits.
Received(h) ==
  LET i == streams[h].inst
      f == FrontOf(i.at)
  IN IF i \notin served[f] \/ ~Reads(f) THEN {}
     ELSE {packet \in Handed(f[1]) : packet[2] \in ToSet(Pids(i.at, i.number))}

-----------------------------------------------------------------------------
(* Properties *)

\* No pid twice in one service: then its filter would not be started, nor those of
\* other services which have that pid.
Single(pids) == \A p \in ToSet(pids) : Count(pids, p) = 1
NoDoubles == \A p \in DOMAIN marks : \A k \in DOMAIN At(device, p).services : Single(Pids(p, k))

\* How often the streams that are open on a frontend use a pid: by which handle, and
\* for which stream of its service.
Uses(f, p) ==
  LET on == {h \in Handles : streams[h].state = "open" /\ FrontOf(streams[h].inst.at) = f}
      pids(h) == Pids(streams[h].inst.at, streams[h].inst.number)
  IN UNION {{<<h, k>> : k \in {j \in DOMAIN pids(h) : pids(h)[j] = p}} : h \in on}

\* The descriptor n is that of the filter which frontend f has for a pid.
HasFilter(f, p, n) == refs[f][p] > 0 /\ handle[f][p] = n

\* The filters of the demuxers are exactly those of the streams that are open: each
\* is counted by its streams, has a descriptor of its own, and is started; and no
\* other descriptor is that of a filter. This holds over every sequence of openings
\* and closings, of streams and of files, though services share pids, demuxers
\* share the descriptors with the files, and frontends are tuned anew under open
\* streams. It fails after a service that was selected in part, after a stream from
\* another transponder than the first of its name, for the filters of the first are
\* closed for it, and when a stat has closed a descriptor of somebody.
FiltersExact ==
  mishaps \cap {"unfiltered", "strayed", "descriptor"} = {} =>
    /\ \A f \in AllFronts : \A p \in DOMAIN refs[f] :
         /\ refs[f][p] = Cardinality(Uses(f, p))
         /\ refs[f][p] > 0 => \E on \in BOOLEAN :
              fds[handle[f][p]] = FilterFor(f[1], p, on) /\ (NoDoubles => on)
    /\ \A n \in DOMAIN fds : fds[n].of = "filter" =>
         \E f \in AllFronts : \E p \in DOMAIN refs[f] :
           /\ HasFilter(f, p, n)
           /\ \A g \in AllFronts : \A q \in DOMAIN refs[g] :
                HasFilter(g, q, n) => g = f /\ q = p

=============================================================================
