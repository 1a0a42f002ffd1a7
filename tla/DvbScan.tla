------------------------------- MODULE DvbScan -------------------------------
(***************************************************************************)
(* The scan for transponders and services (dvb/Frontend.cpp, run by        *)
(* scandvb): from the transponders of a list the frontend goes on to those *)
(* which the NIT of each transponder names, and from these to theirs. What *)
(* was found is written to a file, which the media server reads.           *)
(*                                                                         *)
(* scanTransponder and scanNit call each other. A frame of "stack" is a    *)
(* scanNit with the transponder it belongs to and the transponders of its  *)
(* NIT that are still to be tried. Transponders are objects on the heap:   *)
(* scanNit deletes those that fail, but _scannedTransponders keeps their   *)
(* addresses, and new objects may get them again.                          *)
(*                                                                         *)
(* The air is a set of multiplexes, each with its true parameters and the  *)
(* tables it sends. Which of them do not lock, and which table does not    *)
(* arrive in time, is chosen at the start.                                 *)
(***************************************************************************)
EXTENDS DvbTables

CONSTANTS
  Hardware,   \* the adapters with their frontends, as detectAdapters meets them
  Airs,       \* what may be on the air, and the lists given to scandvb: records
              \* of a set of multiplexes and of sequences of lists for each type
  Positions,  \* the orbital positions in the order of the map
  Places,     \* bound: the heap has the addresses 1 .. Places
  Mute,       \* the tsids of multiplexes which may not lock
  Late        \* what may time out together: sets of <<tsid, name of the table>>

VARIABLES
  air,      \* the multiplexes on the air, and the lists
  dead,     \* the tsids of those that do not lock
  late,     \* the tables that time out
  device,   \* the adapters with what was found for their frontends
  front,    \* the frontend that scans: its number among all frontends
  list,     \* the lists of it that are begun
  pc,       \* what it does next
  initial,  \* _initialTransponders
  queue,    \* those of them it has still to try
  stack,    \* the scanNit calls, the innermost at the end
  cur,      \* the transponder that is tuned to, and what is received
  heap,     \* the object at each address
  dangling, \* addresses of deleted objects in _scannedTransponders
  known,    \* _scannedTransponders
  found,    \* _transponders
  satnums,  \* _satNumMap
  file,     \* the description that is written
  reused,   \* history: a new object got an address of dangling
  fault     \* what undefined behaviour ended the scan

airvars == <<air, dead, late>>
heapvars == <<heap, dangling, known, found, reused>>
filevars == <<device, file>>
vars == <<airvars, heapvars, filevars, front, list, pc, initial, queue, stack, cur,
          satnums, fault>>

Nobody == [kind |-> "none"]
Frontends == FlattenSeq([a \in DOMAIN Hardware |->
  [f \in DOMAIN Hardware[a].frontends |-> <<a, f>>]])
Type(n) == Hardware[Frontends[n][1]].frontends[Frontends[n][2]].type
ListsOf(n) == air.lists[Type(n)]

ASSUME ScanAssumption ==
  /\ Places \in Nat /\ Len(Frontends) > 0
  /\ IsSeq(Hardware) /\ \A a \in DOMAIN Hardware : IsSeq(Hardware[a].frontends)
  /\ \A n \in DOMAIN Frontends : Type(n) \in {DVBS, DVBT}

\* Lists and tables are sequences: lines in a file, and sections with their entries.
\* A PAT has a section, and a PMT which is not sent at all is one that times out.
ASSUME AirAssumption == \A on \in Airs :
  /\ \A n \in DOMAIN Frontends :
       /\ IsSeq(on.lists[Type(n)])
       /\ \A l \in DOMAIN on.lists[Type(n)] : IsSeq(on.lists[Type(n)][l])
  /\ \A m \in on.muxes :
       /\ IsSeq(m.pat) /\ Len(m.pat) > 0 /\ \A k \in DOMAIN m.pat : IsSeq(m.pat[k])
       /\ \A k \in DOMAIN m.pat : \A j \in DOMAIN m.pat[k] :
            LET p == m.pat[k][j] IN p.sid # 0 => p.pmtid \in DOMAIN m.pmt /\ m.pmt[p.pmtid] # <<>>
       /\ \A pid \in DOMAIN m.pmt :
            /\ IsSeq(m.pmt[pid])
            /\ \A k \in DOMAIN m.pmt[pid] :
                 IsSeq(m.pmt[pid][k]) /\ \A j \in DOMAIN m.pmt[pid][k] : IsSeq(m.pmt[pid][k][j].streams)
       /\ IsSeq(m.sdt)
       /\ \A k \in DOMAIN m.sdt :
            /\ IsSeq(m.sdt[k])
            /\ \A j \in DOMAIN m.sdt[k] : m.sdt[k][j].size \in Nat /\ IsSeq(m.sdt[k][j].descriptors)
       /\ IsSeq(m.nit)
       /\ \A k \in DOMAIN m.nit :
            IsSeq(m.nit[k]) /\ \A j \in DOMAIN m.nit[k] : IsSeq(m.nit[k][j].descriptors)

TypeOK ==
  /\ air \in Airs /\ dead \subseteq Mute /\ late \in Late
  /\ front \in 1 .. Len(Frontends) /\ list \in 0 .. Len(ListsOf(front))
  /\ pc \in {"list", "initial", "tables", "nit", "write", "done"}
  /\ DOMAIN heap = 1 .. Places /\ dangling \subseteq ToSet(known)
  /\ {a \in ToSet(known) \cup ToSet(found) \cup ToSet(initial) : heap[a] = Nobody} = {}
  /\ cur.at \in 0 .. Places
  /\ \A k \in DOMAIN stack : stack[k].at \in 1 .. Places
  /\ \A pos \in DOMAIN satnums : satnums[pos] \in 0 .. 3
  /\ fault \in {"none", "section"}

Init ==
  /\ air \in Airs /\ dead \in SUBSET Mute
  /\ late \in Late
  /\ device = detectAdapters(Hardware, {})
  /\ front = 1 /\ list = 0 /\ pc = "list"
  /\ initial = <<>> /\ queue = <<>> /\ stack = <<>>
  /\ cur = [at |-> 0, mux |-> Nobody]
  /\ heap = [a \in 1 .. Places |-> Nobody] /\ dangling = {}
  /\ known = <<>> /\ found = <<>> /\ reused = FALSE
  /\ satnums = <<>>
  /\ file = <<>> /\ fault = "none"

-----------------------------------------------------------------------------
(* Objects *)

\* The addresses for new objects: unused ones, or those of deleted objects first. An
\* object which nobody has the address of any more leaves no trace.
FreePlaces(reuse) ==
  LET ascending(A) == Picked([a \in 1 .. Places |-> a], A)
  IN (IF reuse THEN ascending(dangling) ELSE <<>>)
     \o ascending({a \in 1 .. Places : heap[a] = Nobody})

\* Those of n new objects. Bound: there are as many.
HasRoom(n, reuse) == n <= Len(FreePlaces(reuse))
NewPlaces(n, reuse) == SubSeq(FreePlaces(reuse), 1, n)

Placed(objects, places) ==
  [a \in 1 .. Places |->
     IF a \in ToSet(places) THEN objects[CHOOSE k \in DOMAIN places : places[k] = a] ELSE heap[a]]

\* Transponder::equal looks at the frequencies only. They are unsigned: a difference
\* below zero is a large number, of which labs (of 64 bits) takes nothing away.
equal(t, u) == t.freq - u.freq \in 0 .. 1999

\* addKnownTransponder: a known address may be that of a deleted object, or of a
\* new one that has got its place, even of this one.
isKnown(a) == \E k \in DOMAIN known : equal(heap[known[k]], heap[a])

\* delete: what a known address points to can still be looked at.
Delete(a) ==
  IF a \in ToSet(known)
  THEN dangling' = dangling \cup {a} /\ UNCHANGED heap
  ELSE heap' = [heap EXCEPT ![a] = Nobody] /\ UNCHANGED dangling

-----------------------------------------------------------------------------
(* Tuning *)

\* Lnb::isHiBand and diseqc: what the dish is told to receive, in kHz, with the
\* universal lnb.
isHiBand(freq) == freq >= 11700000
Intermediate(freq) == freq - (IF isHiBand(freq) THEN 10600000 ELSE 9750000)
diseqc(num, t) ==
  [position |-> num % 4, vertical |-> t.tuning.polarization = "V",
   high |-> isHiBand(t.freq), ifreq |-> Intermediate(t.freq)]

\* What locks: the dish receives by the command, the antenna by the frequency. A
\* satellite tuner catches what is sent a little beside its frequency.
Near(f, g) == f - g \in -1999 .. 1999
OnSat(num, t) ==
  LET told == diseqc(num, t)
  IN {m \in air.muxes : /\ m.kind = "sat" /\ m.tsid \notin dead /\ Near(m.freq, t.freq)
                       /\ diseqc(m.satNum, m) = [told EXCEPT !.ifreq = Intermediate(m.freq)]}
OnAntenna(t) ==
  {m \in air.muxes : /\ m.kind = "terrestrial" /\ m.tsid \notin dead /\ m.freq = t.freq
               /\ \A p \in {"bandwidth", "constellation", "code_rate_HP"} : m.tuning[p] = t.tuning[p]}

maxSatNum == 4

\* getSatNum
getSatNum(pos) == IF pos \in DOMAIN satnums THEN satnums[pos] ELSE InvalidSatNum

\* Mutant: a transponder of a new position may be sought on every satellite.
TriesBug(t) ==
  IF t.tuning.satNum # InvalidSatNum THEN {t.tuning.satNum} ELSE 0 .. maxSatNum - 1

\* The numbers SatFrontend::tune tries: that of the transponder, or all but those
\* which a transponder of a new position cannot have.
Tries(t) ==
  IF t.tuning.satNum # InvalidSatNum THEN {t.tuning.satNum}
  ELSE {i \in 0 .. maxSatNum - 1 :
          ~(/\ t.tuning.satPosition # "" /\ getSatNum(t.tuning.satPosition) = InvalidSatNum
            /\ \E pos \in DOMAIN satnums : satnums[pos] = i)}

\* The number it locks with: the first of them.
Locks(t) == {i \in Tries(t) : OnSat(i, t) # {} /\ \A j \in Tries(t) : j < i => OnSat(j, t) = {}}

\* Frontend::tune: success leaves what is received in cur.
TuneSat(a) ==
  LET t == heap[a]
  IN \E i \in Locks(t) : \E m \in OnSat(i, t) :
       /\ cur' = [at |-> a, mux |-> m]
       /\ heap' = [heap EXCEPT ![a].tuning.satNum = i]
       /\ satnums' = IF t.tuning.satPosition = "" THEN satnums
                     ELSE [pos \in DOMAIN satnums \cup {t.tuning.satPosition} |->
                             IF pos = t.tuning.satPosition THEN i ELSE satnums[pos]]

TuneTerrestrial(a) ==
  /\ \E m \in OnAntenna(heap[a]) : cur' = [at |-> a, mux |-> m]
  /\ UNCHANGED <<heap, satnums>>

\* The frontend is closed at the end of the first list of initial transponders. It
\* tunes to transponders of its own kind only.
Kind(n) == IF Type(n) = DVBS THEN "sat" ELSE "terrestrial"
Tunes(a) ==
  /\ list = 1 /\ heap[a].kind = Kind(front)
  /\ IF heap[a].kind = "sat" THEN Locks(heap[a]) # {} ELSE OnAntenna(heap[a]) # {}
Tune(a) == IF heap[a].kind = "sat" THEN TuneSat(a) ELSE TuneTerrestrial(a)

-----------------------------------------------------------------------------
(* The lists of initial transponders *)

\* initTransponder: a line with the parameters of its kind.
initTransponder(line) ==
  [kind |-> IF line[1] = "S" THEN "sat" ELSE "terrestrial",
   freq |-> line[2], tsid |-> -1, services |-> <<>>,
   tuning |->
     IF line[1] = "S"
     THEN [satPosition |-> "", satNum |-> InvalidSatNum, symbolRate |-> line[4],
           polarization |-> line[3]]
     ELSE [bandwidth |-> bandwidthFromString(line[3]), code_rate_HP |-> coderateFromString(line[4]),
           code_rate_LP |-> coderateFromString(line[5]),
           constellation |-> modulationFromString(line[6]),
           transmission_mode |-> transmitModeFromString(line[7]),
           guard_interval |-> guard_intervalFromString(line[8]),
           hierarchy_information |-> hierarchyFromString(line[9])]]

ValidLine(line) ==
  IF Type(front) = DVBS THEN line[1] = "S" /\ Len(line) >= 4 ELSE line[1] = "T" /\ Len(line) >= 9

\* None of the parameters of a transponder is undefined.
Defined(t) == t.kind = "terrestrial" => \A p \in DOMAIN t.tuning : t.tuning[p] # Undefined

\* The ...FromString know the texts of the lists and of the descriptors. (What they
\* make of others is undefined.) Adapters are in a map by their ids, and a bit of an
\* SDT entry says whether the service is scrambled.
ASSUME TextAssumption ==
  /\ \A i, j \in DOMAIN Hardware : Hardware[i].id = Hardware[j].id => i = j
  /\ IsSeq(Positions)
  /\ \A on \in Airs :
       /\ \A n \in DOMAIN Frontends : \A l \in DOMAIN on.lists[Type(n)] :
            \A k \in DOMAIN on.lists[Type(n)][l] :
              LET line == on.lists[Type(n)][l][k]
              IN line[1] = "T" /\ Len(line) >= 9 => Defined(initTransponder(line))
       /\ \A m \in on.muxes :
            /\ \A k \in DOMAIN m.nit : \A j \in DOMAIN m.nit[k] :
                 \A i \in DOMAIN Delivered(m.nit[k][j]) : Defined(Delivered(m.nit[k][j])[i])
            /\ \A k \in DOMAIN m.sdt : \A j \in DOMAIN m.sdt[k] : m.sdt[k][j].scrambled \in BOOLEAN

\* getInitialTransponderData: the transponders of the lines that are valid, behind
\* those of the lists before, which are tried once more.
StartList ==
  /\ pc = "list" /\ list < Len(ListsOf(front))
  /\ \E new \in {Map(initTransponder, Those(ListsOf(front)[list + 1], ValidLine))} :
     \E places \in {NewPlaces(Len(new), FALSE)} :
        /\ HasRoom(Len(new), FALSE)
        /\ heap' = Placed(new, places)
        /\ initial' = initial \o places /\ queue' = initial \o places
  /\ list' = list + 1 /\ pc' = "initial"
  /\ UNCHANGED <<airvars, filevars, front, stack, cur, dangling, known, found,
                 satnums, reused, fault>>

\* Mutant: the loop goes on to the next transponder only after a lock.
ScanInitialBug ==
  /\ pc = "initial" /\ queue # <<>>
  /\ Tunes(Head(queue)) /\ Tune(Head(queue)) /\ pc' = "tables"
  /\ UNCHANGED <<airvars, filevars, front, list, initial, queue, stack, dangling, known, found,
                 reused, fault>>

ScanInitial ==
  /\ pc = "initial" /\ queue # <<>>
  /\ IF Tunes(Head(queue))
     THEN Tune(Head(queue)) /\ pc' = "tables" /\ UNCHANGED queue
     ELSE queue' = Tail(queue) /\ UNCHANGED <<cur, heap, satnums, pc>>
  /\ UNCHANGED <<airvars, filevars, front, list, initial, stack, dangling, known, found, reused, fault>>

\* The end of Frontend::scan.
EndList ==
  /\ pc = "initial" /\ queue = <<>>
  /\ pc' = "list"
  /\ UNCHANGED <<airvars, heapvars, filevars, front, list, initial, queue, stack, cur, satnums, fault>>

-----------------------------------------------------------------------------
(* The tables of a transponder *)

Timely(table) == <<cur.mux.tsid, table>> \notin late

\* scanPatPmt: only the first section of the PAT is looked at. The PMT of a pid
\* is the one that comes first, whatever programme it is of.
Programs(m) == Those(m.pat[1], LAMBDA p : p.sid # 0)
Scanned(program, m, pmt) ==
  IF Timely("PMT") THEN WithPmt(NewService(program), m.pmt[program.pmtid][pmt[program.pmtid]])
  ELSE NewService(program)

\* The loop over the entries of the SDT: each describes the first service of its sid.
WithEntries(services, entries) ==
  LET with[all \in {services}] ==
        LET first(k) == \A j \in 1 .. k - 1 : all[j].sid # all[k].sid
            of(k) == Those(entries, LAMBDA e : e.sid = all[k].sid)
        IN [k \in DOMAIN all |-> IF first(k) THEN Described(all[k], of(k)) ELSE all[k]]
  IN with[services]

\* Mutant: like the PAT, only the first section of the SDT.
WithSdtBug(services, m) ==
  IF Timely("SDT") THEN WithEntries(services, SdtRead(m.sdt[1])) ELSE services

\* scanSdt: all sections.
WithSdt(services, m) ==
  IF Timely("SDT") THEN WithEntries(services, Flat(Map(SdtRead, m.sdt))) ELSE services

\* The services of a transponder whose tables are read.
ServicesOf(m, pmt) ==
  LET scanned(program) == Scanned(program, m, pmt)
  IN WithSdt(Map(scanned, Programs(m)), m)

\* The choices of whose PMT comes first on each pid.
FirstPmts(m) ==
  {f \in [DOMAIN m.pmt -> UNION {DOMAIN m.pmt[pid] : pid \in DOMAIN m.pmt}] :
     \A pid \in DOMAIN m.pmt : f[pid] \in DOMAIN m.pmt[pid]}

\* The transponders of the NIT. SatTransponder::init gives one of a known position
\* the number of its satellite.
Additional(m) ==
  LET init(t) == IF t.kind = "sat" THEN [t EXCEPT !.tuning.satNum = getSatNum(t.tuning.satPosition)] ELSE t
  IN IF Timely("NIT") THEN Map(init, Flat(Map(Delivered, Flat(m.nit)))) ELSE <<>>

\* scanPatPmt returns false: the PAT does not come, or is that of another stream.
Refused(t) == ~Timely("PAT") \/ t.tsid \notin {-1, cur.mux.tsid}

\* scanNit deletes a transponder that scanTransponder refuses, but scan takes no
\* notice of what it returns.
ScanRefused ==
  /\ pc = "tables" /\ Refused(heap[cur.at])
  /\ IF stack = <<>>
     THEN stack' = <<[at |-> cur.at, rest |-> <<>>]>> /\ UNCHANGED <<heap, dangling>>
     ELSE Delete(cur.at) /\ UNCHANGED stack
  /\ pc' = "nit"
  /\ UNCHANGED <<airvars, filevars, front, list, initial, queue, cur, known, found, satnums, reused, fault>>

\* scanPatPmt, scanSdt, and scanNit up to its loop over the new transponders.
ScanTables ==
  /\ pc = "tables" /\ ~Refused(heap[cur.at])
  /\ \E pmt \in FirstPmts(cur.mux), reuse \in BOOLEAN, new \in {Additional(cur.mux)} :
       \E services \in {ServicesOf(cur.mux, pmt)}, places \in {NewPlaces(Len(new), reuse)} :
          /\ HasRoom(Len(new), reuse)
          /\ heap' = [Placed(new, places) EXCEPT ![cur.at].tsid = cur.mux.tsid,
                                                 ![cur.at].services = services]
          /\ dangling' = dangling \ ToSet(places)
          /\ reused' = (reused \/ dangling \cap ToSet(places) # {})
          /\ stack' = Append(stack, [at |-> cur.at, rest |-> places])
  /\ pc' = "nit"
  /\ UNCHANGED <<airvars, filevars, front, list, initial, queue, cur, known, found, satnums, fault>>

\* A table whose reads are used up before it is complete.
TableTorn ==
  /\ pc = "tables" /\ Timely("PAT")
  /\ \E n \in {Len(cur.mux.pat), Len(cur.mux.sdt), Len(cur.mux.nit)} :
       \E first \in 0 .. n - 1, lost \in 1 .. MaxReads(n) : ~Complete(n, first, lost)
  /\ fault' = "section"
  /\ UNCHANGED <<airvars, heapvars, filevars, front, list, pc, initial, queue, stack, cur, satnums>>

-----------------------------------------------------------------------------
(* The loop of scanNit, and the end of scan *)

Top == stack[Len(stack)]
NextOfNit == [stack EXCEPT ![Len(stack)].rest = Tail(@)]

NitKnown ==
  /\ pc = "nit" /\ Top.rest # <<>> /\ isKnown(Head(Top.rest))
  /\ Delete(Head(Top.rest)) /\ stack' = NextOfNit
  /\ UNCHANGED <<airvars, filevars, front, list, pc, initial, queue, cur, known, found, satnums, reused, fault>>

NitTune ==
  /\ pc = "nit" /\ Top.rest # <<>> /\ ~isKnown(Head(Top.rest))
  /\ LET a == Head(Top.rest)
     IN /\ known' = Append(known, a)
        /\ IF Tunes(a) THEN Tune(a) /\ pc' = "tables" /\ UNCHANGED dangling
           ELSE dangling' = dangling \cup {a} /\ UNCHANGED <<cur, heap, satnums, pc>>
  /\ stack' = NextOfNit
  /\ UNCHANGED <<airvars, filevars, front, list, initial, queue, found, reused, fault>>

\* scanTransponder returns true to the scanNit around it.
NitReturn ==
  /\ pc = "nit" /\ Top.rest = <<>> /\ Len(stack) > 1
  /\ found' = Append(found, Top.at)
  /\ stack' = Front(stack)
  /\ UNCHANGED <<airvars, filevars, front, list, pc, initial, queue, cur, heap, dangling, known,
                 satnums, reused, fault>>

\* Mutant: an initial transponder that was found already is deleted, as in scanNit.
InitialDeleteBug ==
  /\ pc = "nit" /\ Top.rest = <<>> /\ Len(stack) = 1
  /\ IF isKnown(Top.at)
     THEN heap' = [heap EXCEPT ![Top.at] = Nobody] /\ UNCHANGED <<known, found>>
     ELSE /\ known' = Append(known, Top.at) /\ found' = Append(found, Top.at)
          /\ UNCHANGED heap
  /\ stack' = <<>> /\ queue' = Tail(queue) /\ pc' = "initial"
  /\ UNCHANGED <<airvars, filevars, front, list, initial, cur, dangling, satnums, reused, fault>>

\* Mutant: every initial transponder that locks is added.
InitialTwiceBug ==
  /\ pc = "nit" /\ Top.rest = <<>> /\ Len(stack) = 1
  /\ known' = Append(known, Top.at) /\ found' = Append(found, Top.at)
  /\ stack' = <<>> /\ queue' = Tail(queue) /\ pc' = "initial"
  /\ UNCHANGED <<airvars, filevars, front, list, initial, cur, heap, dangling, satnums, reused, fault>>

\* It returns to scan, which adds the initial transponder unless a NIT has named
\* it: then the transponder of the NIT has been added.
InitialReturn ==
  /\ pc = "nit" /\ Top.rest = <<>> /\ Len(stack) = 1
  /\ IF isKnown(Top.at)
     THEN UNCHANGED <<known, found>>
     ELSE known' = Append(known, Top.at) /\ found' = Append(found, Top.at)
  /\ stack' = <<>> /\ queue' = Tail(queue) /\ pc' = "initial"
  /\ UNCHANGED <<airvars, filevars, front, list, initial, cur, heap, dangling, satnums, reused, fault>>

-----------------------------------------------------------------------------
(* Device::scan, the file, and the server that reads it *)

\* What Frontend::writeXml looks at.
Result(a) == [freq |-> heap[a].freq, tsid |-> heap[a].tsid, services |-> heap[a].services,
              tuning |-> heap[a].tuning]
Satellites ==
  LET has == Those(Positions, LAMBDA pos : pos \in DOMAIN satnums)
      sat(pos) == [pos |-> pos, num |-> satnums[pos]]
  IN Map(sat, has)

EndFrontend ==
  /\ pc = "list" /\ list = Len(ListsOf(front))
  /\ LET at == Frontends[front]
     IN device' = [device EXCEPT ![at[1]].frontends[at[2]].transponders = Map(Result, found),
                                 ![at[1]].frontends[at[2]].sats = Satellites]
  /\ IF front < Len(Frontends) THEN front' = front + 1 /\ list' = 0 /\ UNCHANGED pc
     ELSE pc' = "write" /\ UNCHANGED <<front, list>>
  /\ heap' = [a \in 1 .. Places |-> Nobody] /\ dangling' = {}
  /\ known' = <<>> /\ found' = <<>> /\ satnums' = <<>> /\ initial' = <<>>
  /\ UNCHANGED <<airvars, file, queue, stack, cur, reused, fault>>

WriteFile ==
  /\ pc = "write"
  /\ file' = DeviceWriteXml(device) /\ pc' = "done"
  /\ UNCHANGED <<airvars, heapvars, device, front, list, initial, queue, stack, cur, satnums, fault>>

\* The device of the server that has read the file.
served == DeviceReadXml(detectAdapters(Hardware, {}), file)

Next ==
  /\ fault = "none"
  /\ \/ StartList \/ ScanInitial \/ EndList
     \/ ScanRefused \/ ScanTables \/ TableTorn
     \/ NitKnown \/ NitTune \/ NitReturn \/ InitialReturn
     \/ EndFrontend \/ WriteFile

Spec == Init /\ [][Next]_vars
FairSpec == Spec /\ WF_vars(Next)

-----------------------------------------------------------------------------
(* Properties *)

Live == {m \in air.muxes : m.tsid \notin dead}

\* The multiplexes the lists of a frontend lead to, when every live one that a NIT
\* names is scanned.
Start(n) ==
  {m \in Live : \E l \in DOMAIN ListsOf(n) : \E k \in DOMAIN ListsOf(n)[l] :
     LET line == ListsOf(n)[l][k]
     IN /\ m.kind = Kind(n)
        /\ IF m.kind = "sat" THEN Near(line[2], m.freq) /\ line[3] = m.tuning.polarization
           ELSE line[2] = m.freq}
NamedBy(m) == {ts.tsid : ts \in ToSet(Flat(m.nit))}
Reach(n) ==
  LET within[steps \in Nat] ==
        IF steps = 0 THEN Start(n)
        ELSE LET near == within[steps - 1]
             IN near \cup {m \in Live : \E o \in near : m.tsid \in NamedBy(o) /\ m.kind = o.kind}
  IN within[Cardinality(air.muxes)]

\* equal() can tell the multiplexes of the air.
Distinct == \A m, o \in air.muxes : m # o => ~equal(m, o)

\* A list has a frequency above the one by which a NIT names the multiplex.
Above(n) ==
  \E l \in DOMAIN ListsOf(n) : \E k \in DOMAIN ListsOf(n)[l] : \E m \in air.muxes :
    Near(ListsOf(n)[l][k][2], m.freq) /\ ListsOf(n)[l][k][2] > m.freq

Scanner(n) == device[Frontends[n][1]].frontends[Frontends[n][2]]
Tsids(n) == LET tsid(t) == t.tsid IN Map(tsid, Scanner(n).transponders)

\* The scan finds every live multiplex that its lists lead to, and no multiplex
\* twice, though initial transponders are found again by the NIT of others and by
\* their own. It may miss some when tables time out, when two multiplexes have
\* nearly one frequency, when there is a second list (the frontend is closed), and
\* when a new transponder gets the address of a deleted one.
ScanComplete ==
  pc = "done" /\ late = {} /\ ~reused /\ Distinct
    => \A n \in DOMAIN Frontends : Len(ListsOf(n)) = 1 /\ ~Above(n)
         => /\ ToSet(Tsids(n)) = {m.tsid : m \in Reach(n)}
            /\ Len(Tsids(n)) = Cardinality(Reach(n))

\* One command to the dish receives either.
Twins(m, o) ==
  m.kind = "sat" /\ o.kind = "sat" /\ m.satNum # o.satNum /\ diseqc(0, m) = diseqc(0, o)

\* An orbital position is mapped to the number of its satellite, though the number
\* is found by trying, and other satellites send on the same frequencies. It may be
\* wrong when a twin on a satellite whose position is not yet known locks first, or
\* instead of a multiplex that does not lock.
SatMapTrue ==
  \A m \in air.muxes :
    m.kind = "sat" /\ m.position \in DOMAIN satnums /\ satnums[m.position] # m.satNum
      => \E t \in air.muxes, o \in Live :
           /\ t.kind = "sat" /\ t.position = m.position /\ Twins(t, o)
           /\ t.tsid \in dead \/ o.position \notin DOMAIN satnums

\* What the tables of a multiplex say of its services, as EN 300 468 has it.
ProgramsOf(m) == Those(Flat(m.pat), LAMBDA p : p.sid # 0)
TrueService(m, p) ==
  LET entry == CHOOSE e \in ToSet(Flat(m.sdt)) : e.sid = p.sid
      named == CHOOSE d \in ToSet(entry.descriptors) : d.tag = ServiceTag
      pmt == CHOOSE s \in UNION {ToSet(t) : t \in ToSet(m.pmt[p.pmtid])} : s.sid = p.sid
      stream(s) == [type |-> streamTypeToString(s.code), pid |-> s.pid]
  IN [name |-> named.name, sid |-> p.sid, pmtid |-> p.pmtid, pcr |-> pmt.pcr,
      streams |-> Map(stream, pmt.streams) \o <<[type |-> "programMapTable", pid |-> p.pmtid]>>,
      status |-> statusToString(entry.status), scrambled |-> entry.scrambled,
      provider |-> named.provider, type |-> typeToString(named.type)]
Truth(m) == LET service(p) == TrueService(m, p) IN Map(service, ProgramsOf(m))

\* What the standards ask of a multiplex: no other has its tsid, the PAT has a programme
\* once, and a programme has one PMT, of one section, and one entry of the SDT, with one
\* service descriptor.
Once(s, Test(_)) == \E k \in DOMAIN s : \A j \in DOMAIN s : Test(s[j]) <=> j = k
Standard(m) ==
  /\ \A o \in air.muxes : o.tsid = m.tsid => o = m
  /\ \A p \in ToSet(ProgramsOf(m)) :
       /\ Once(ProgramsOf(m), LAMBDA q : q.sid = p.sid)
       /\ \A t \in ToSet(m.pmt[p.pmtid]) : Len(t) = 1
       /\ Once(m.pmt[p.pmtid], LAMBDA t : t[1].sid = p.sid)
       /\ Once(Flat(m.sdt), LAMBDA e : e.sid = p.sid)
       /\ \A e \in ToSet(Flat(m.sdt)) :
            e.sid = p.sid => Once(e.descriptors, LAMBDA d : d.tag = ServiceTag)

\* What the parsers do not take: a PAT of several sections, programmes that share
\* the pid of their PMT, a descriptor the program does not know ahead of one it
\* needs, and an SDT that ends with a service of a very short description.
Odd(m) ==
  \/ Len(m.pat) > 1
  \/ \E pid \in DOMAIN m.pmt : Len(m.pmt[pid]) > 1
  \/ \E e \in ToSet(Flat(m.sdt)) : Descriptors(e.descriptors) # e.descriptors
  \/ \E s \in ToSet(m.sdt) : s # <<>> /\ EntrySize(Last(s)) < 12

\* The services of a transponder that was found are those the tables of its multiplex
\* describe, whichever transponder of the lists and NITs led to it: what is met twice,
\* deleted, or gets the place of a deleted one, takes nothing with it.
ServicesExact ==
  pc = "done" /\ late = {} => \A n \in DOMAIN Frontends :
    \A t \in ToSet(Scanner(n).transponders) : \A m \in air.muxes :
      m.tsid = t.tsid /\ Standard(m) /\ ~Odd(m) => t.services = Truth(m)

\* A table of up to three sections survives one read that is lost; only a longer
\* one can leave the parser without a section.
ShortTablesWhole ==
  fault = "section" => \E n \in {Len(cur.mux.pat), Len(cur.mux.sdt), Len(cur.mux.nit)} : n > 3

\* The server reads back what the scanner has found: the transponders of each
\* frontend with their tuning parameters and services, and the same map of services.
FileKept ==
  pc = "done" =>
    /\ \A n \in DOMAIN Frontends :
         LET reader == served[Frontends[n][1]].frontends[Frontends[n][2]]
             named(t) == [k \in DOMAIN t.services |->
                            [t.services[k] EXCEPT !.name = getName(t.services[k], t.tsid)]]
             kept(t) == [t EXCEPT !.services = named(t),
                           !.tuning = IF Type(n) = DVBS THEN [@ EXCEPT !.satPosition = ""] ELSE @]
         IN reader.transponders = Map(kept, Scanner(n).transponders) /\ reader.sats = Scanner(n).sats
    /\ \A p \in ToSet(TransponderPlaces(device)) : \A s \in ToSet(At(device, p).services) :
         LET name == getName(s, At(device, p).tsid)
         IN serviceMap(served, name) = serviceMap(device, name)

\* The scan comes to an end, whatever the NITs name and however often.
ScanEnds == <>(pc = "done" \/ fault # "none")

=============================================================================
