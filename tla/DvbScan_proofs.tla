--------------------------- MODULE DvbScan_proofs ----------------------------
(***************************************************************************)
(* Theorems about the scanner, for every air and every size of the heap.   *)
(* No list of the frontend has the address of an object that is freed,     *)
(* though scanNit deletes what it has made and objects get the addresses   *)
(* of others: the inductive invariant is ScanInv. Short tables are read    *)
(* whole. And the services of what is found are those of its multiplex:    *)
(* nobody else gets the address of a transponder that is found (HeldInv),  *)
(* and what is found has been read from the multiplex of its tsid          *)
(* (ExactInv). Last, the server reads back from the file what the scanner  *)
(* found: what it found is of the kind of its frontend, with values that   *)
(* the texts of the file keep apart (FileInv).                             *)
(***************************************************************************)
EXTENDS DvbScan, DvbConfig_proofs

-------------------------------------------------------------------------------
(* The inductive invariant *)

\* What "new" makes: one of the two kinds of transponders
Object(o) ==
  /\ o = [kind |-> o.kind, freq |-> o.freq, tsid |-> o.tsid, services |-> o.services,
          tuning |-> o.tuning]
  /\ o.kind \in {"sat", "terrestrial"}
  /\ o.kind = "sat" =>
       /\ o.tuning = [satPosition |-> o.tuning.satPosition, satNum |-> o.tuning.satNum,
                      symbolRate |-> o.tuning.symbolRate, polarization |-> o.tuning.polarization]
       /\ o.tuning.satNum \in -1 .. 3

\* The addresses are those of objects or free, and the frontend's lists have addresses
\* of objects. (A deleted object whose address is known is still one.)
Tracked == ToSet(known) \cup ToSet(initial)
HeapInv ==
  /\ heap = [a \in 1 .. Places |-> heap[a]]
  /\ \A a \in 1 .. Places : heap[a] = Nobody \/ Object(heap[a])
  /\ IsSeq(initial) /\ IsSeq(known) /\ IsSeq(found) /\ IsSeq(queue)
  /\ \A a \in Tracked : a \in 1 .. Places /\ heap[a] # Nobody
  /\ ToSet(queue) \subseteq ToSet(initial) /\ ToSet(found) \subseteq ToSet(known)
  /\ dangling \subseteq ToSet(known)

\* What is still to be tried: the places of addresses in the frames
Waiting(frames) == {p \in (DOMAIN frames) \X Nat : p[2] \in DOMAIN frames[p[1]].rest}
Address(frames, p) == frames[p[1]].rest[p[2]]

\* A transponder that is still to be tried is an object, and scanNit may delete it:
\* nobody else has its address, or it is a known one, which is not freed.
Own(frames, p) ==
  /\ Address(frames, p) \notin ToSet(initial)
  /\ \A q \in Waiting(frames) : Address(frames, q) = Address(frames, p) => q = p
Sound(frames, p) ==
  /\ Address(frames, p) \in 1 .. Places /\ heap[Address(frames, p)] # Nobody
  /\ Address(frames, p) \in ToSet(known) \/ Own(frames, p)
Ats(frames) == {frames[k].at : k \in DOMAIN frames}
AreFrames(frames) ==
  /\ IsSeq(frames)
  /\ \A k \in DOMAIN frames :
       /\ frames[k] = [at |-> frames[k].at, rest |-> frames[k].rest] /\ IsSeq(frames[k].rest)
       /\ frames[k].at \in ToSet(IF k = 1 THEN initial ELSE known)
StackInv == AreFrames(stack) /\ \A p \in Waiting(stack) : Sound(stack, p)

\* Who is at work at which place of the program
ControlInv ==
  /\ pc \in {"list", "initial", "tables", "nit", "write", "done"}
  /\ pc \in {"list", "initial", "write", "done"} => stack = <<>>
  /\ pc \in {"list", "write", "done"} => queue = <<>>
  /\ pc \in {"tables", "nit"} => queue # <<>>
  /\ pc = "nit" => stack # <<>>
  /\ pc = "tables" =>
       /\ cur.mux \in air.muxes
       /\ cur.at \in ToSet(IF stack = <<>> THEN initial ELSE known)

\* The rest of the state
StateInv ==
  /\ air \in Airs /\ dead \subseteq Mute /\ late \in Late
  /\ front \in 1 .. Len(Frontends) /\ list \in 0 .. Len(ListsOf(front))
  /\ cur.at \in 0 .. Places
  /\ \A pos \in DOMAIN satnums : satnums[pos] \in 0 .. 3
  /\ fault \in {"none", "section"}

ScanInv == HeapInv /\ StackInv /\ ControlInv /\ StateInv

-------------------------------------------------------------------------------
(* Objects and addresses *)

\* The addresses of new objects are free, or those of deleted objects when these are
\* taken first, and no address is given twice
LEMMA FreeAre ==
  ASSUME NEW reuse \in BOOLEAN, Places \in Nat, \A a \in dangling : heap[a] # Nobody
  PROVE  /\ IsSeq(FreePlaces(reuse))
         /\ \A k \in DOMAIN FreePlaces(reuse) :
              LET a == FreePlaces(reuse)[k]
              IN a \in 1 .. Places /\ (heap[a] = Nobody \/ (reuse /\ a \in dangling))
         /\ \A j, k \in DOMAIN FreePlaces(reuse) :
              FreePlaces(reuse)[j] = FreePlaces(reuse)[k] => j = k
<1> DEFINE all == [a \in 1 .. Places |-> a]
           ascending(A) == Picked(all, A)
           unused == {a \in 1 .. Places : heap[a] = Nobody}
           before == IF reuse THEN ascending(dangling) ELSE <<>>
           free == ascending(unused)
<1>1. FreePlaces(reuse) = before \o free
  BY DEF FreePlaces
<1>2. IsSeq(all) /\ DOMAIN all = 1 .. Places /\ \A a \in 1 .. Places : all[a] = a
  <2>1. all \in Seq(ToSet(all))
    <3>1. \A k \in 1 .. Places : all[k] \in ToSet(all)
      BY DEF ToSet
    <3> QED
      BY <3>1, IsASeq
  <2> QED
    BY <2>1 DEF IsSeq
<1> HIDE DEF all
<1>3. ASSUME NEW A
      PROVE  /\ IsSeq(ascending(A))
             /\ \A k \in DOMAIN ascending(A) : ascending(A)[k] \in A \cap 1 .. Places
             /\ \A j, k \in DOMAIN ascending(A) : ascending(A)[j] = ascending(A)[k] => j = k
  <2> DEFINE S == DOMAIN Picked(all, A)
             T == A \cap DOMAIN all
  <2>1. IsSeq(ascending(A))
    BY <1>2, PickedIs
  <2>2. PICK f \in Bijection(S, T) : \A j \in S : Picked(all, A)[j] = all[f[j]]
    BY <1>2, PickedIs
  <2>3. f \in [S -> T] /\ \A j, k \in S : f[j] = f[k] => j = k
    <3> HIDE DEF S, T
    <3> QED
      BY <2>2, Fun_BijectionProperties
  <2>4. \A j \in S : Picked(all, A)[j] = f[j] /\ f[j] \in A \cap 1 .. Places
    BY <1>2, <2>2, <2>3
  <2> QED
    BY <2>1, <2>3, <2>4
<1> HIDE DEF ascending
<1>4. IsSeq(before) /\ IsSeq(free)
  BY <1>3, EmptyIsSeq
<1>5. \A k \in DOMAIN before : before[k] \in 1 .. Places /\ reuse /\ before[k] \in dangling
  <2>1. CASE reuse
    BY <1>3, <2>1
  <2>2. CASE ~reuse
    BY <2>2
  <2> QED
    BY <2>1, <2>2
<1>6. \A k \in DOMAIN free : free[k] \in 1 .. Places /\ heap[free[k]] = Nobody
  BY <1>3
<1>7. /\ \A j, k \in DOMAIN free : free[j] = free[k] => j = k
      /\ \A j, k \in DOMAIN before : before[j] = before[k] => j = k
  <2>1. DOMAIN <<>> = {}
    BY EmptyIsSeq, SeqIs
  <2> QED
    BY <1>3, <2>1
<1> DEFINE s == before \o free
<1>8. /\ IsSeq(s) /\ Len(before) \in Int
      /\ \A k \in DOMAIN before : s[k] = before[k]
      /\ \A k \in DOMAIN s :
           k \in DOMAIN before \/ (k - Len(before) \in DOMAIN free /\ s[k] = free[k - Len(before)])
  <2>1. Len(before) \in Int
    <3> HIDE DEF before
    <3> QED
      BY <1>4, SeqIs
  <2> HIDE DEF before, free
  <2> QED
    BY ZenonT(60), <1>4, <2>1, ConcatIs
<1>9. DOMAIN s = 1 .. Len(s)
  BY <1>8, SeqIs
<1> HIDE DEF s, before, free
<1>10. ASSUME NEW k \in DOMAIN s
       PROVE  s[k] \in 1 .. Places /\ (heap[s[k]] = Nobody \/ (reuse /\ s[k] \in dangling))
  BY <1>5, <1>6, <1>8
<1>11. ASSUME NEW j \in DOMAIN s, NEW k \in DOMAIN s, s[j] = s[k]
       PROVE  j = k
  <2>1. CASE j \in DOMAIN before /\ k \in DOMAIN before
    BY <1>7, <1>8, <1>11, <2>1
  <2>2. CASE j \notin DOMAIN before /\ k \notin DOMAIN before
    <3>1. /\ j - Len(before) \in DOMAIN free /\ s[j] = free[j - Len(before)]
          /\ k - Len(before) \in DOMAIN free /\ s[k] = free[k - Len(before)]
      BY <1>8, <2>2
    <3>2. j - Len(before) = k - Len(before)
      BY <1>7, <1>11, <3>1
    <3> QED
      BY <1>8, <1>9, <3>2
  <2>3. \A i \in DOMAIN s : (i \in DOMAIN before <=> heap[s[i]] # Nobody)
    BY <1>5, <1>6, <1>8
  <2> QED
    BY <1>11, <2>1, <2>2, <2>3
<1>12. FreePlaces(reuse) = s
  BY <1>1 DEF s
<1> QED
  BY <1>8, <1>10, <1>11, <1>12

\* The addresses that n new objects get
LEMMA NewAre ==
  ASSUME NEW reuse \in BOOLEAN, NEW n \in Nat, Places \in Nat, HasRoom(n, reuse),
         \A a \in dangling : heap[a] # Nobody
  PROVE  /\ IsSeq(NewPlaces(n, reuse)) /\ DOMAIN NewPlaces(n, reuse) = 1 .. n
         /\ \A a \in ToSet(NewPlaces(n, reuse)) :
              a \in 1 .. Places /\ (heap[a] = Nobody \/ (reuse /\ a \in dangling))
         /\ \A j, k \in 1 .. n :
              NewPlaces(n, reuse)[j] = NewPlaces(n, reuse)[k] => j = k
<1> DEFINE s == FreePlaces(reuse)
           new == SubSeq(s, 1, n)
<1>1. /\ IsSeq(s)
      /\ \A k \in DOMAIN s : s[k] \in 1 .. Places /\ (heap[s[k]] = Nobody \/ (reuse /\ s[k] \in dangling))
      /\ \A j, k \in DOMAIN s : s[j] = s[k] => j = k
  BY FreeAre
<1>2. n <= Len(s)
  BY DEF HasRoom
<1> HIDE DEF s
<1>3. /\ IsSeq(new) /\ Len(new) = n
      /\ \A k \in 1 .. n : k \in DOMAIN s /\ new[k] = s[k]
  BY <1>1, <1>2, FirstsAre
<1>4. DOMAIN new = 1 .. n
  BY <1>3, SeqIs
<1>5. NewPlaces(n, reuse) = new
  BY DEF NewPlaces, s
<1> HIDE DEF new
<1>6. \A a \in ToSet(new) : a \in 1 .. Places /\ (heap[a] = Nobody \/ (reuse /\ a \in dangling))
  BY <1>1, <1>3, <1>4 DEF ToSet
<1>7. \A j, k \in 1 .. n : new[j] = new[k] => j = k
  BY <1>1, <1>3
<1> QED
  BY <1>3, <1>4, <1>5, <1>6, <1>7

\* What was deleted under a known address is still there
LEMMA FreedAre == HeapInv => \A a \in dangling : heap[a] # Nobody
  BY DEF HeapInv, Tracked

\* New objects lie at their addresses, and the others where they were
LEMMA PlacedIs ==
  ASSUME NEW objects, NEW places, DOMAIN places = DOMAIN objects,
         \A k \in DOMAIN objects : Object(objects[k])
  PROVE  /\ Placed(objects, places) = [a \in 1 .. Places |-> Placed(objects, places)[a]]
         /\ \A a \in 1 .. Places :
              IF a \in ToSet(places) THEN Object(Placed(objects, places)[a])
              ELSE Placed(objects, places)[a] = heap[a]
         /\ \A a \in 1 .. Places : a \in ToSet(places) =>
              \E k \in DOMAIN objects : Placed(objects, places)[a] = objects[k]
<1>1. ASSUME NEW a \in 1 .. Places, a \in ToSet(places)
      PROVE  /\ Object(Placed(objects, places)[a])
             /\ \E k \in DOMAIN objects : Placed(objects, places)[a] = objects[k]
  <2> DEFINE k == CHOOSE j \in DOMAIN places : places[j] = a
  <2>1. k \in DOMAIN places
    BY <1>1 DEF ToSet
  <2>2. Placed(objects, places)[a] = objects[k]
    BY <1>1 DEF Placed
  <2> QED
    BY <2>1, <2>2
<1>2. \A a \in 1 .. Places : a \notin ToSet(places) => Placed(objects, places)[a] = heap[a]
  BY DEF Placed
<1>3. Placed(objects, places) = [a \in 1 .. Places |-> Placed(objects, places)[a]]
  BY DEF Placed
<1> QED
  BY <1>1, <1>2, <1>3

\* An object is somebody
LEMMA Somebody == \A o : Object(o) => o # Nobody
  BY DEF Object, Nobody

\* What initTransponder makes of the lines of a list
LEMMA InitialObjects ==
  ASSUME NEW line
  PROVE  Object(initTransponder(line)) /\ initTransponder(line).tsid = -1
<1> DEFINE o == initTransponder(line)
<1>3. o.tsid = -1
  BY DEF initTransponder
<1>1. CASE line[1] = "S"
  <2>1. /\ o = [kind |-> o.kind, freq |-> o.freq, tsid |-> o.tsid, services |-> o.services,
               tuning |-> o.tuning]
        /\ o.kind = "sat"
    BY <1>1 DEF initTransponder
  <2> DEFINE pos == ""
             pol == line[3]
             rate == line[4]
  <2>2. o.tuning = [satPosition |-> pos, satNum |-> -1, symbolRate |-> rate,
                    polarization |-> pol]
    BY <1>1 DEF initTransponder, InvalidSatNum
  <2> HIDE DEF o, pos, pol, rate
  <2>3. Object(o)
    BY <2>1, <2>2 DEF Object
  <2> QED
    BY <1>3, <2>3 DEF o
<1>2. CASE line[1] # "S"
  BY <1>2 DEF initTransponder, Object
<1> QED
  BY <1>1, <1>2, <1>3

\* The frontends of all adapters
LEMMA FrontendsAre ==
  ASSUME ScanAssumption
  PROVE  /\ IsSeq(Frontends)
         /\ \A n \in DOMAIN Frontends : \E a \in DOMAIN Hardware :
              \E f \in DOMAIN Hardware[a].frontends : Frontends[n] = <<a, f>>
<1> DEFINE of(a) == [f \in DOMAIN Hardware[a].frontends |-> <<a, f>>]
           all == [a \in DOMAIN Hardware |-> of(a)]
<1>1. \A a \in DOMAIN Hardware : IsSeq(of(a)) /\ DOMAIN of(a) = DOMAIN Hardware[a].frontends
  <2> SUFFICES ASSUME NEW a \in DOMAIN Hardware
               PROVE  IsSeq(of(a)) /\ DOMAIN of(a) = DOMAIN Hardware[a].frontends
    OBVIOUS
  <2> DEFINE g == of(a)
             s == Hardware[a].frontends
  <2>1. g = [f \in DOMAIN s |-> g[f]] /\ IsSeq(s)
    BY DEF ScanAssumption
  <2>2. IsSeq(g) /\ DOMAIN g = DOMAIN s
    <3> HIDE DEF g, s
    <3> QED
      BY <2>1, FunIs
  <2> QED
    BY <2>2
<1>2. IsSeq(all) /\ DOMAIN all = DOMAIN Hardware
  <2>1. all = [a \in DOMAIN Hardware |-> all[a]] /\ IsSeq(Hardware)
    BY DEF ScanAssumption
  <2> HIDE DEF all
  <2> QED
    BY <2>1, FunIs
<1>3. \A a \in DOMAIN all : IsSeq(all[a])
  BY <1>1
<1>4. Frontends = Flat(all)
  BY DEF Frontends, Flat
<1>5. /\ IsSeq(Flat(all))
      /\ \A n \in DOMAIN Flat(all) : \E a \in DOMAIN all : \E f \in DOMAIN all[a] : Flat(all)[n] = all[a][f]
  <2> HIDE DEF all
  <2> QED
    BY <1>2, <1>3, FlatElements
<1>6. ASSUME NEW n \in DOMAIN Frontends
      PROVE  \E a \in DOMAIN Hardware : \E f \in DOMAIN Hardware[a].frontends : Frontends[n] = <<a, f>>
  <2>1. PICK a \in DOMAIN Hardware : \E f \in DOMAIN all[a] : Frontends[n] = all[a][f]
    BY <1>4, <1>5
  <2>2. PICK f \in DOMAIN Hardware[a].frontends : Frontends[n] = <<a, f>>
    BY <2>1
  <2> QED
    BY <2>2
<1> QED
  BY <1>4, <1>5, <1>6

ListObjects == Map(initTransponder, Those(ListsOf(front)[list + 1], ValidLine))

\* The new objects of a list
LEMMA ListObjectsAre ==
  ASSUME StateInv, ScanAssumption, AirAssumption, list < Len(ListsOf(front))
  PROVE  /\ IsSeq(ListObjects)
         /\ \A k \in DOMAIN ListObjects : Object(ListObjects[k]) /\ ListObjects[k].tsid = -1
<1> DEFINE lines == ListsOf(front)[list + 1]
           K == {k \in DOMAIN lines : ValidLine(lines[k])}
           valid == Picked(lines, K)
           f == [k \in DOMAIN valid |-> initTransponder(valid[k])]
<1>1. IsSeq(lines)
  <2>1. front \in DOMAIN Frontends /\ air \in Airs
    BY FrontendsAre, SeqIs DEF StateInv
  <2>2. /\ IsSeq(ListsOf(front))
        /\ \A l \in DOMAIN ListsOf(front) : IsSeq(ListsOf(front)[l])
    BY <2>1 DEF AirAssumption, ListsOf
  <2>3. list + 1 \in DOMAIN ListsOf(front)
    <3>1. Len(ListsOf(front)) \in Nat /\ DOMAIN ListsOf(front) = 1 .. Len(ListsOf(front))
      BY <2>2, SeqIs
    <3> QED
      BY <3>1 DEF StateInv
  <2> QED
    BY <2>2, <2>3
<1>2. ListObjects = <<>> \o f
  <2>1. Those(lines, ValidLine) = valid
    BY DEF Those
  <2> QED
    BY <2>1 DEF ListObjects, Map
<1>3. IsSeq(valid)
  BY <1>1, PickedIs
<1> HIDE DEF valid
<1>4. f = [k \in DOMAIN valid |-> f[k]]
  OBVIOUS
<1>5. IsSeq(f) /\ <<>> \o f = f
  <2> HIDE DEF f
  <2> QED
    BY <1>3, <1>4, FunIs
<1>6. \A k \in DOMAIN f : Object(f[k]) /\ f[k].tsid = -1
  BY InitialObjects
<1> QED
  BY <1>2, <1>5, <1>6

\* What scanNit makes of the descriptors of a transport stream
LEMMA DeliveredAre ==
  ASSUME NEW ts, IsSeq(ts.descriptors)
  PROVE  IsSeq(Delivered(ts)) /\ \A k \in DOMAIN Delivered(ts) : Object(Delivered(ts)[k])
<1> DEFINE ds == Descriptors(ts.descriptors)
           K == {k \in DOMAIN ds : ds[k].tag \in {SatelliteTag, TerrestrialTag}}
           delivery == Picked(ds, K)
<1>1. IsSeq(ds)
  <2> DEFINE all == ts.descriptors
             unknown == {k \in DOMAIN all : all[k].tag \notin KnownTags}
             stop == CHOOSE k \in unknown : \A j \in unknown : k <= j
  <2>1. CASE unknown = {}
    <3>1. ds = all
      BY <2>1 DEF Descriptors
    <3> QED
      BY <3>1
  <2>2. CASE unknown # {}
    <3>1. Len(all) \in Nat /\ DOMAIN all = 1 .. Len(all)
      BY SeqIs
    <3>2. unknown \in SUBSET Nat
      BY <3>1
    <3>3. \E k \in unknown : \A j \in unknown : k <= j
      <4> HIDE DEF unknown
      <4> QED
        BY <2>2, <3>2, LeastNatural
    <3>4. stop \in unknown
      BY <3>3
    <3>5. stop - 1 \in Nat /\ stop - 1 <= Len(all)
      BY <3>1, <3>4
    <3>6. ds = SubSeq(all, 1, stop - 1)
      BY <2>2 DEF Descriptors
    <3> HIDE DEF stop
    <3> QED
      BY <3>5, <3>6, FirstsAre
  <2> QED
    BY <2>1, <2>2
<1> HIDE DEF ds
<1>2. IsSeq(delivery)
  BY <1>1, PickedIs
<1>3. Those(ds, LAMBDA d : d.tag \in {SatelliteTag, TerrestrialTag}) = delivery
  BY DEF Those
<1> HIDE DEF delivery
<1> DEFINE sat(d) ==
             [kind |-> "sat", freq |-> SatFrequency(d), tsid |-> ts.tsid, services |-> <<>>,
              tuning |-> [satPosition |-> d.position, satNum |-> InvalidSatNum,
                          symbolRate |-> SatSymbolRate(d),
                          polarization |-> polarization(d.polarization)]]
           terrestrial(d) ==
             [kind |-> "terrestrial", freq |-> d.frequency * 10, tsid |-> ts.tsid, services |-> <<>>,
              tuning |-> [bandwidth |-> bandwidthFromString(bandwidth(d.bandwidth)),
                     code_rate_HP |-> coderateFromString(codeRate(d.codeRateHP)),
                     code_rate_LP |-> coderateFromString(codeRate(d.codeRateLP)),
                     constellation |-> modulationFromString(constellation(d.constellation)),
                     transmission_mode |-> transmitModeFromString(transmissionMode(d.transmissionMode)),
                     guard_interval |-> guard_intervalFromString(guardInterval(d.guardInterval)),
                     hierarchy_information |-> hierarchyFromString(hierarchyInformation(d.hierarchy))]]
           made(d) == IF d.tag = SatelliteTag THEN sat(d) ELSE terrestrial(d)
           f == [k \in DOMAIN delivery |-> made(delivery[k])]
<1>4. Delivered(ts) = <<>> \o f
  BY <1>3 DEF Delivered, Map, ds
<1>5. \A d : Object(sat(d))
  <2> SUFFICES ASSUME NEW d PROVE Object(sat(d))
    OBVIOUS
  <2> DEFINE o == sat(d)
  <2>1. /\ o = [kind |-> o.kind, freq |-> o.freq, tsid |-> o.tsid, services |-> o.services,
               tuning |-> o.tuning]
        /\ o.kind = "sat"
    OBVIOUS
  <2>2. o.tuning = [satPosition |-> d.position, satNum |-> -1, symbolRate |-> SatSymbolRate(d),
                    polarization |-> polarization(d.polarization)]
    BY DEF InvalidSatNum
  <2> HIDE DEF o
  <2>3. Object(o)
    BY <2>1, <2>2 DEF Object
  <2> QED
    BY <2>3 DEF o
<1>6. \A d : Object(terrestrial(d))
  BY DEF Object
<1>7. \A k \in DOMAIN f : Object(f[k])
  <2> HIDE DEF sat, terrestrial
  <2> QED
    BY <1>5, <1>6
<1> HIDE DEF made, delivery
<1>8. f = [k \in DOMAIN delivery |-> f[k]]
  OBVIOUS
<1> HIDE DEF f
<1>9. IsSeq(f) /\ <<>> \o f = f
  BY <1>2, <1>8, FunIs
<1> QED
  BY <1>4, <1>7, <1>9

\* The new objects of a NIT
LEMMA AdditionalAre ==
  ASSUME AirAssumption, NEW m \in air.muxes, air \in Airs,
         \A pos \in DOMAIN satnums : satnums[pos] \in 0 .. 3
  PROVE  IsSeq(Additional(m)) /\ \A k \in DOMAIN Additional(m) : Object(Additional(m)[k])
<1>1. CASE ~Timely("NIT")
  <2>1. Additional(m) = <<>> /\ IsSeq(<<>>) /\ DOMAIN <<>> = {}
    BY <1>1, EmptyIsSeq, SeqIs DEF Additional
  <2> QED
    BY <2>1
<1>2. CASE Timely("NIT")
  <2> DEFINE streams == Flat(m.nit)
             each == [k \in DOMAIN streams |-> Delivered(streams[k])]
  <2>1. IsSeq(m.nit) /\ \A k \in DOMAIN m.nit :
          IsSeq(m.nit[k]) /\ \A j \in DOMAIN m.nit[k] : IsSeq(m.nit[k][j].descriptors)
    BY DEF AirAssumption
  <2>2. IsSeq(streams) /\ \A k \in DOMAIN streams : IsSeq(streams[k].descriptors)
    <3>1. /\ IsSeq(streams)
          /\ \A j \in DOMAIN streams :
               \E i \in DOMAIN m.nit : \E k \in DOMAIN m.nit[i] : streams[j] = m.nit[i][k]
      BY <2>1, FlatElements
    <3> QED
      BY <2>1, <3>1
  <2>3. Map(Delivered, streams) = <<>> \o each
    BY DEF Map
  <2>4. \A i \in DOMAIN each :
          IsSeq(each[i]) /\ \A k \in DOMAIN each[i] : Object(each[i][k])
    BY <2>2, DeliveredAre
  <2>5. each = [k \in DOMAIN streams |-> each[k]]
    OBVIOUS
  <2> HIDE DEF streams, each
  <2>6. IsSeq(each) /\ <<>> \o each = each
    BY <2>2, <2>5, FunIs
  <2> DEFINE all == Flat(each)
             init(t) == IF t.kind = "sat"
                        THEN [t EXCEPT !.tuning.satNum = getSatNum(t.tuning.satPosition)] ELSE t
             made == [k \in DOMAIN all |-> init(all[k])]
  <2>7. IsSeq(all) /\ \A k \in DOMAIN all : Object(all[k])
    <3>1. /\ IsSeq(all)
          /\ \A j \in DOMAIN all :
               \E i \in DOMAIN each : \E k \in DOMAIN each[i] : all[j] = each[i][k]
      BY <2>4, <2>6, FlatElements
    <3> QED
      BY <2>4, <3>1
  <2>8. Additional(m) = <<>> \o made
    BY <1>2, <2>3, <2>6 DEF Additional, Map, streams
  <2>9. ASSUME NEW t, Object(t) PROVE Object(init(t))
    <3>1. CASE t.kind # "sat"
      BY <2>9, <3>1
    <3>2. CASE t.kind = "sat"
      <4> DEFINE n == getSatNum(t.tuning.satPosition)
                 u == [t EXCEPT !.tuning.satNum = n]
                 q == [t.tuning EXCEPT !.satNum = n]
      <4>1. n \in -1 .. 3
        BY DEF getSatNum, InvalidSatNum
      <4> HIDE DEF n
      <4>2. /\ q = [satPosition |-> q.satPosition, satNum |-> q.satNum,
                    symbolRate |-> q.symbolRate, polarization |-> q.polarization]
            /\ q.satNum = n
        BY <2>9, <3>2 DEF Object
      <4>3. u = [t EXCEPT !.tuning = q]
        OBVIOUS
      <4> HIDE DEF q
      <4>4. /\ u = [kind |-> u.kind, freq |-> u.freq, tsid |-> u.tsid, services |-> u.services,
                    tuning |-> u.tuning]
            /\ u.kind = "sat" /\ u.tuning = q
        BY <2>9, <3>2, <4>3 DEF Object
      <4> HIDE DEF u
      <4>5. Object(u)
        BY <4>1, <4>2, <4>4 DEF Object
      <4>6. init(t) = u
        BY <3>2 DEF u, n
      <4> QED
        BY <4>5, <4>6
    <3> QED
      BY <3>1, <3>2
  <2> HIDE DEF all, init
  <2>10. \A k \in DOMAIN made : Object(made[k])
    BY <2>7, <2>9
  <2>11. made = [k \in DOMAIN all |-> made[k]]
    OBVIOUS
  <2> HIDE DEF made
  <2>12. IsSeq(made) /\ <<>> \o made = made
    BY <2>7, <2>11, FunIs
  <2> QED
    BY <2>8, <2>10, <2>12
<1> QED
  BY <1>1, <1>2

-------------------------------------------------------------------------------
(* Tuning and deleting *)

\* A number that locks is one of the dish
LEMMA LocksAre ==
  ASSUME NEW t, Object(t), t.kind = "sat"
  PROVE  Locks(t) \subseteq 0 .. 3
<1>1. t.tuning.satNum \in -1 .. 3
  BY DEF Object
<1>2. Tries(t) \subseteq 0 .. 3
  <2>1. CASE t.tuning.satNum # -1
    <3>1. Tries(t) = {t.tuning.satNum}
      BY <2>1 DEF Tries, InvalidSatNum
    <3>2. t.tuning.satNum \in 0 .. 3
      BY <1>1, <2>1
    <3> QED
      BY <3>1, <3>2
  <2>2. CASE t.tuning.satNum = -1
    <3>1. Tries(t) \subseteq 0 .. maxSatNum - 1
      BY Zenon, <2>2 DEF Tries, InvalidSatNum
    <3> QED
      BY <3>1 DEF maxSatNum
  <2> QED
    BY <2>1, <2>2
<1> QED
  BY <1>2 DEF Locks

\* What is on the heap after it is an object if it was, with the same services, and
\* nobody else appears
Same(h, g) ==
  /\ g = [a \in 1 .. Places |-> g[a]]
  /\ \A a \in 1 .. Places : g[a] = Nobody \/ Object(g[a])
  /\ \A a \in 1 .. Places : h[a] = Nobody <=> g[a] = Nobody
  /\ \A a \in 1 .. Places : g[a].tsid = h[a].tsid /\ g[a].services = h[a].services

\* Tuning changes an object, and takes a multiplex of the air
LEMMA TuneKeeps ==
  ASSUME HeapInv, NEW a \in 1 .. Places, heap[a] # Nobody, Tune(a),
         \A pos \in DOMAIN satnums : satnums[pos] \in 0 .. 3
  PROVE  /\ Same(heap, heap')
         /\ cur'.at = a /\ cur'.mux \in air.muxes
         /\ \A pos \in DOMAIN satnums' : satnums'[pos] \in 0 .. 3
<1>1. Object(heap[a])
  BY DEF HeapInv
<1>2. CASE heap[a].kind = "sat"
  <2>1. TuneSat(a)
    BY <1>2 DEF Tune
  <2> DEFINE t == heap[a]
  <2>2. PICK i \in Locks(t) : \E m \in OnSat(i, t) :
       /\ cur' = [at |-> a, mux |-> m]
       /\ heap' = [heap EXCEPT ![a].tuning.satNum = i]
       /\ satnums' = IF t.tuning.satPosition = "" THEN satnums
                     ELSE [pos \in DOMAIN satnums \cup {t.tuning.satPosition} |->
                             IF pos = t.tuning.satPosition THEN i ELSE satnums[pos]]
    BY Zenon, <2>1 DEF TuneSat
  <2>3. PICK m \in OnSat(i, t) : cur' = [at |-> a, mux |-> m]
    BY Zenon, <2>2
  <2>4. i \in 0 .. 3
    BY Zenon, <1>1, <1>2, <2>2, LocksAre
  <2>5. cur'.at = a /\ cur'.mux \in air.muxes
    BY <2>3 DEF OnSat
  <2>6. \A pos \in DOMAIN satnums' : satnums'[pos] \in 0 .. 3
    <3> DEFINE p == t.tuning.satPosition
    <3>1. \/ satnums' = satnums
          \/ satnums' = [pos \in DOMAIN satnums \cup {p} |-> IF pos = p THEN i ELSE satnums[pos]]
      BY Zenon, <2>2
    <3> HIDE DEF p
    <3> QED
      BY <2>4, <3>1
  <2> DEFINE q == [t.tuning EXCEPT !.satNum = i]
             u == [t EXCEPT !.tuning = q]
  <2>7. heap' = [heap EXCEPT ![a] = u]
    BY Zenon, <2>2
  <2>8. /\ q = [satPosition |-> q.satPosition, satNum |-> q.satNum,
                symbolRate |-> q.symbolRate, polarization |-> q.polarization]
        /\ q.satNum = i
    BY <1>1, <1>2 DEF Object
  <2> HIDE DEF q
  <2>9. /\ u = [kind |-> u.kind, freq |-> u.freq, tsid |-> u.tsid, services |-> u.services,
                tuning |-> u.tuning]
        /\ u.kind = "sat" /\ u.tuning = q
        /\ u.tsid = heap[a].tsid /\ u.services = heap[a].services
    BY <1>1, <1>2 DEF Object
  <2> HIDE DEF u
  <2>10. Object(u)
    BY <2>4, <2>8, <2>9 DEF Object
  <2>11. u # Nobody
    BY <2>10, Somebody
  <2>12. Same(heap, heap')
    BY <2>7, <2>9, <2>10, <2>11 DEF Same, HeapInv
  <2> QED
    BY <2>5, <2>6, <2>12
<1>3. CASE heap[a].kind # "sat"
  <2>1. TuneTerrestrial(a)
    BY <1>3 DEF Tune
  <2>2. cur'.at = a /\ cur'.mux \in air.muxes
    BY <2>1 DEF TuneTerrestrial, OnAntenna
  <2>3. Same(heap, heap')
    BY <2>1 DEF TuneTerrestrial, Same, HeapInv
  <2> QED
    BY <2>1, <2>2, <2>3 DEF TuneTerrestrial
<1> QED
  BY <1>2, <1>3

-------------------------------------------------------------------------------
(* The frames of scanNit *)

\* No scanNit is running
LEMMA NoFrames == AreFrames(<<>>) /\ Waiting(<<>>) = {}
<1>1. IsSeq(<<>>) /\ DOMAIN <<>> = {}
  BY EmptyIsSeq, SeqIs
<1> QED
  BY <1>1 DEF AreFrames, Waiting

\* Frames with fewer transponders to try are as sound
LEMMA FewerAreSound ==
  ASSUME StackInv, NEW frames, NEW g \in [Waiting(frames) -> Waiting(stack)],
         \A p, q \in Waiting(frames) : g[p] = g[q] => p = q,
         \A p \in Waiting(frames) : Address(frames, p) = Address(stack, g[p])
  PROVE  \A p \in Waiting(frames) : Sound(frames, p)
<1> SUFFICES ASSUME NEW p \in Waiting(frames) PROVE Sound(frames, p)
  OBVIOUS
<1>1. Sound(stack, g[p]) /\ Address(frames, p) = Address(stack, g[p])
  BY DEF StackInv
<1>2. CASE Address(stack, g[p]) \in ToSet(known)
  BY <1>1, <1>2 DEF Sound
<1>3. CASE Own(stack, g[p])
  <2>1. ASSUME NEW q \in Waiting(frames), Address(frames, q) = Address(frames, p) PROVE q = p
    BY <1>1, <1>3, <2>1 DEF Own
  <2> QED
    BY <1>1, <1>3, <2>1 DEF Own, Sound
<1> QED
  BY <1>1, <1>2, <1>3 DEF Sound

\* Sound frames stay sound when what waits in them stays on the heap
LEMMA SoundKept ==
  ASSUME NEW frames, stack' = frames, \A p \in Waiting(frames) : Sound(frames, p),
         \A p \in Waiting(frames) : heap'[Address(frames, p)] # Nobody,
         ToSet(initial') = ToSet(initial), ToSet(known) \subseteq ToSet(known')
  PROVE  \A p \in Waiting(stack') : Sound(stack, p)'
<1> SUFFICES ASSUME NEW p \in Waiting(frames) PROVE Sound(stack, p)'
  OBVIOUS
<1>1. Sound(frames, p)
  OBVIOUS
<1>2. Own(frames, p) => Own(stack, p)'
  BY DEF Own
<1> QED
  BY <1>1, <1>2 DEF Sound

\* The same for the frames
LEMMA FramesKept ==
  ASSUME NEW frames, stack' = frames, AreFrames(frames),
         ToSet(initial') = ToSet(initial), ToSet(known) \subseteq ToSet(known')
  PROVE  AreFrames(stack)'
<1> SUFFICES ASSUME NEW k \in DOMAIN frames
             PROVE  frames[k].at \in ToSet(IF k = 1 THEN initial' ELSE known')
  BY DEF AreFrames
<1>1. frames[k].at \in ToSet(IF k = 1 THEN initial ELSE known)
  BY DEF AreFrames
<1> QED
  BY <1>1

\* NextOfNit takes one transponder from the innermost frame
LEMMA NextOfNitIs ==
  ASSUME StackInv, stack # <<>>, Top.rest # <<>>
  PROVE  /\ AreFrames(NextOfNit) /\ NextOfNit # <<>>
         /\ \A p \in Waiting(NextOfNit) : Sound(NextOfNit, p)
         /\ Sound(stack, <<Len(stack), 1>>)
         /\ Address(stack, <<Len(stack), 1>>) = Head(Top.rest)
         /\ Head(Top.rest) \notin ToSet(known) =>
              \A p \in Waiting(NextOfNit) : Address(NextOfNit, p) # Head(Top.rest)
         /\ Ats(NextOfNit) = Ats(stack) /\ <<Len(stack), 1>> \in Waiting(stack)
         /\ \E g \in [Waiting(NextOfNit) -> Waiting(stack) \ {<<Len(stack), 1>>}] :
              /\ \A p, q \in Waiting(NextOfNit) : g[p] = g[q] => p = q
              /\ \A p \in Waiting(NextOfNit) : Address(NextOfNit, p) = Address(stack, g[p])
<1> DEFINE n == Len(stack)
           frames == NextOfNit
           rest == stack[n].rest
<1>1. n \in Nat \ {0} /\ DOMAIN stack = 1 .. n /\ n \in DOMAIN stack
  BY SeqIs DEF StackInv, AreFrames
<1>2. stack[n] = [at |-> stack[n].at, rest |-> rest] /\ IsSeq(rest) /\ rest # <<>>
  BY <1>1 DEF StackInv, AreFrames, Top
<1>3. frames = [stack EXCEPT ![n] = [at |-> stack[n].at, rest |-> Tail(rest)]]
  <2> DEFINE r == [stack[n] EXCEPT !.rest = Tail(rest)]
  <2>1. frames = [stack EXCEPT ![n] = r]
    BY <1>1 DEF NextOfNit
  <2>2. r = [at |-> stack[n].at, rest |-> Tail(rest)]
    <3> DEFINE f == stack[n]
               new == Tail(rest)
    <3>1. f = [at |-> f.at, rest |-> f.rest]
      BY <1>2
    <3> HIDE DEF f, new
    <3>2. [f EXCEPT !.rest = new] = [at |-> f.at, rest |-> new]
      BY <3>1
    <3> QED
      BY <3>2 DEF f, new
  <2> QED
    BY <2>1, <2>2
<1>4. /\ IsSeq(Tail(rest)) /\ Len(Tail(rest)) = Len(rest) - 1
      /\ \A k \in DOMAIN Tail(rest) : k + 1 \in DOMAIN rest /\ Tail(rest)[k] = rest[k + 1]
      /\ Head(rest) = rest[1] /\ 1 \in DOMAIN rest
  BY <1>2, TailIs
<1>5. DOMAIN Tail(rest) \subseteq Nat
  BY <1>4, SeqIs
<1>6. /\ frames = [k \in DOMAIN stack |-> frames[k]]
      /\ frames[n] = [at |-> stack[n].at, rest |-> Tail(rest)]
      /\ \A k \in DOMAIN stack : k # n => frames[k] = stack[k]
  <2>1. stack = [k \in DOMAIN stack |-> stack[k]]
    <3>1. stack \in Seq(ToSet(stack))
      BY DEF StackInv, AreFrames, IsSeq
    <3> QED
      BY <1>1, <3>1
  <2> QED
    BY <1>1, <1>3, <2>1
<1> DEFINE new == Tail(rest)
           at == stack[n].at
<1> HIDE DEF n, rest, frames
<1>7. IsSeq(frames) /\ Len(frames) = n /\ DOMAIN frames = DOMAIN stack
  <2>1. IsSeq(stack)
    BY DEF StackInv, AreFrames
  <2> QED
    BY <1>6, <2>1, FunIs DEF n
<1>19. /\ frames[n] = [at |-> frames[n].at, rest |-> frames[n].rest]
       /\ frames[n].at = at /\ frames[n].rest = new
  <2>1. frames[n] = [at |-> at, rest |-> new]
    BY <1>6
  <2> HIDE DEF at, new
  <2> QED
    BY <2>1
<1>8. AreFrames(frames) /\ Ats(frames) = Ats(stack)
  <2>1. ASSUME NEW k \in DOMAIN frames
        PROVE  /\ frames[k] = [at |-> frames[k].at, rest |-> frames[k].rest]
               /\ IsSeq(frames[k].rest) /\ frames[k].at = stack[k].at
    <3>1. CASE k = n
      BY <1>4, <1>19, <3>1
    <3>2. CASE k # n
      BY <1>6, <1>7, <3>2 DEF StackInv, AreFrames
    <3> QED
      BY <3>1, <3>2
  <2>2. \A k \in DOMAIN frames : stack[k].at \in ToSet(IF k = 1 THEN initial ELSE known)
    BY <1>7 DEF StackInv, AreFrames
  <2>3. Ats(frames) = Ats(stack)
    BY <1>7, <2>1 DEF Ats
  <2> QED
    BY <1>7, <2>1, <2>2, <2>3 DEF AreFrames
<1> DEFINE W == Waiting(frames)
           older(p) == IF p[1] = n THEN <<n, p[2] + 1>> ELSE p
           g == [p \in W |-> older(p)]
<1>9. ASSUME NEW p \in W
      PROVE  /\ older(p) \in Waiting(stack) /\ Address(frames, p) = Address(stack, older(p))
             /\ older(p) # <<n, 1>>
  <2>1. p = <<p[1], p[2]>> /\ p[1] \in DOMAIN stack /\ p[2] \in Nat /\ p[2] \in DOMAIN frames[p[1]].rest
    BY <1>7 DEF Waiting
  <2>2. CASE p[1] = n
    <3>1. p[2] \in DOMAIN Tail(rest)
      BY <1>19, <2>1, <2>2
    <3>2. p[2] + 1 \in DOMAIN rest /\ Tail(rest)[p[2]] = rest[p[2] + 1] /\ p[2] + 1 # 1
      <4>1. p[2] \in 1 .. Len(Tail(rest))
        BY <1>4, <3>1, SeqIs
      <4> QED
        BY <1>4, <3>1, <4>1, <1>2, SeqIs
    <3>3. older(p) = <<n, p[2] + 1>>
      BY <2>2
    <3>4. older(p)[1] = n /\ older(p)[2] = p[2] + 1
      BY <3>3
    <3> QED
      BY <1>1, <1>6, <2>1, <2>2, <3>2, <3>3, <3>4 DEF Waiting, Address, rest
  <2>3. CASE p[1] # n
    <3>1. older(p) = p /\ frames[p[1]] = stack[p[1]]
      BY <1>6, <2>1, <2>3
    <3>2. p \in Waiting(stack)
      BY <2>1, <3>1 DEF Waiting
    <3>3. p # <<n, 1>>
      BY <2>3
    <3> QED
      BY <3>1, <3>2, <3>3 DEF Address
  <2> QED
    BY <2>2, <2>3
<1>10. g \in [W -> Waiting(stack) \ {<<n, 1>>}] /\ g \in [W -> Waiting(stack)]
  BY <1>9
<1>11. ASSUME NEW p \in W, NEW q \in W, g[p] = g[q] PROVE p = q
  <2>1. /\ p = <<p[1], p[2]>> /\ p[2] \in Nat /\ q = <<q[1], q[2]>> /\ q[2] \in Nat
    BY DEF Waiting
  <2>2. older(p) = older(q)
    BY <1>11
  <2>3. older(p)[1] = p[1] /\ older(q)[1] = q[1]
    BY <2>1
  <2>4. p[1] = q[1]
    BY <2>2, <2>3
  <2>5. CASE p[1] = n
    <3>1. <<n, p[2] + 1>> = <<n, q[2] + 1>>
      BY <2>2, <2>4, <2>5
    <3>2. p[2] + 1 = q[2] + 1
      BY <3>1
    <3> QED
      BY <2>1, <2>4, <3>2
  <2>6. CASE p[1] # n
    BY <2>2, <2>4, <2>6
  <2> QED
    BY <2>5, <2>6
<1>12. \A p \in W : Address(frames, p) = Address(stack, g[p])
  BY <1>9
<1> HIDE DEF g
<1>13. \A p \in W : Sound(frames, p)
  BY <1>10, <1>11, <1>12, FewerAreSound
<1>14. <<n, 1>> \in Waiting(stack) /\ Address(stack, <<n, 1>>) = Head(rest)
  BY <1>1, <1>4 DEF Waiting, Address, rest
<1>15. Sound(stack, <<n, 1>>)
  BY <1>14 DEF StackInv
<1>16. ASSUME Head(rest) \notin ToSet(known), NEW p \in W PROVE Address(frames, p) # Head(rest)
  <2>1. Own(stack, <<n, 1>>)
    BY <1>14, <1>15, <1>16 DEF Sound
  <2> QED
    BY <1>9, <1>14, <2>1 DEF Own
<1>17. frames # <<>>
  BY <1>1, <1>7, SeqIs
<1>18. Top.rest = rest /\ NextOfNit = frames
  BY DEF Top, rest, frames, n
<1>20. \E h \in [W -> Waiting(stack) \ {<<n, 1>>}] :
         /\ \A p, q \in W : h[p] = h[q] => p = q
         /\ \A p \in W : Address(frames, p) = Address(stack, h[p])
  BY <1>10, <1>11, <1>12
<1> QED
  BY <1>8, <1>13, <1>14, <1>15, <1>16, <1>17, <1>18, <1>20 DEF n

\* A new frame holds new objects
LEMMA AppendFrameIs ==
  ASSUME StackInv, NEW at, NEW places, IsSeq(places),
         at \in ToSet(IF stack = <<>> THEN initial ELSE known),
         \A a \in ToSet(places) :
           a \in 1 .. Places /\ (a \in ToSet(known) \/ (heap[a] = Nobody /\ a \notin ToSet(initial))),
         \A j, k \in DOMAIN places : places[j] = places[k] => j = k
  PROVE  LET frames == Append(stack, [at |-> at, rest |-> places])
         IN /\ AreFrames(frames) /\ frames # <<>> /\ Ats(frames) = Ats(stack) \cup {at}
            /\ \A p \in Waiting(frames) :
                 /\ Address(frames, p) \in 1 .. Places
                 /\ heap[Address(frames, p)] # Nobody \/ Address(frames, p) \in ToSet(places)
                 /\ Address(frames, p) \in ToSet(known) \/ Own(frames, p)
                 /\ \/ p \in Waiting(stack) /\ Address(frames, p) = Address(stack, p)
                    \/ Address(frames, p) \in ToSet(places)
            /\ \A p, q \in Waiting(frames) :
                 Address(frames, p) = Address(frames, q) /\ Address(frames, p) \in ToSet(places) =>
                   p = q \/ \E r \in Waiting(stack) : Address(stack, r) = Address(frames, p)
<1> DEFINE f == [at |-> at, rest |-> places]
           frames == Append(stack, f)
           n == Len(stack)
<1>1. n \in Nat /\ DOMAIN stack = 1 .. n /\ (stack = <<>> <=> n = 0) /\ IsSeq(stack)
  BY SeqIs DEF StackInv, AreFrames
<1>2. f.at = at /\ f.rest = places /\ f = [at |-> f.at, rest |-> f.rest]
  OBVIOUS
<1> HIDE DEF f
<1>3. /\ IsSeq(frames) /\ Len(frames) = n + 1
      /\ \A k \in DOMAIN stack : frames[k] = stack[k]
      /\ frames[n + 1] = f
  BY <1>1, AppendIs
<1>4. DOMAIN frames = 1 .. (n + 1)
  BY <1>3, SeqIs
<1> HIDE DEF frames, n
<1>5. AreFrames(frames)
  <2>1. ASSUME NEW k \in DOMAIN frames
        PROVE  /\ frames[k] = [at |-> frames[k].at, rest |-> frames[k].rest]
               /\ IsSeq(frames[k].rest)
               /\ frames[k].at \in ToSet(IF k = 1 THEN initial ELSE known)
    <3>1. CASE k = n + 1
      <4>1. k = 1 <=> stack = <<>>
        BY <1>1, <3>1
      <4> QED
        BY <1>2, <1>3, <3>1, <4>1
    <3>2. CASE k # n + 1
      <4>1. k \in DOMAIN stack
        BY <1>1, <1>4, <3>2
      <4> QED
        BY <1>3, <4>1 DEF StackInv, AreFrames
    <3> QED
      BY <3>1, <3>2
  <2> QED
    BY <1>3, <2>1 DEF AreFrames
<1>6. ASSUME NEW p \in Waiting(frames)
      PROVE  \/ /\ p \in Waiting(stack) /\ Address(frames, p) = Address(stack, p)
                /\ Sound(stack, p)
             \/ /\ p = <<n + 1, p[2]>> /\ p[2] \in DOMAIN places
                /\ Address(frames, p) = places[p[2]] /\ places[p[2]] \in ToSet(places)
  <2>1. p = <<p[1], p[2]>> /\ p[1] \in 1 .. (n + 1) /\ p[2] \in Nat /\ p[2] \in DOMAIN frames[p[1]].rest
    BY <1>4 DEF Waiting
  <2>2. CASE p[1] = n + 1
    <3>1. p[2] \in DOMAIN places /\ Address(frames, p) = places[p[2]]
      BY <1>2, <1>3, <2>1, <2>2 DEF Address
    <3>2. p = <<n + 1, p[2]>>
      BY <2>1, <2>2
    <3> QED
      BY <3>1, <3>2, ToSetIs
  <2>3. CASE p[1] # n + 1
    <3>1. p[1] \in DOMAIN stack
      BY <1>1, <2>1, <2>3
    <3>2. frames[p[1]] = stack[p[1]]
      BY <1>3, <3>1
    <3>3. p \in Waiting(stack) /\ Address(frames, p) = Address(stack, p)
      BY <2>1, <3>1, <3>2 DEF Waiting, Address
    <3> QED
      BY <3>3 DEF StackInv
  <2> QED
    BY <2>2, <2>3
<1>7. ASSUME NEW p \in Waiting(frames)
      PROVE  /\ Address(frames, p) \in 1 .. Places
             /\ heap[Address(frames, p)] # Nobody \/ Address(frames, p) \in ToSet(places)
             /\ Address(frames, p) \in ToSet(known) \/ Own(frames, p)
  <2> DEFINE a == Address(frames, p)
  <2>1. a \in 1 .. Places /\ (heap[a] # Nobody \/ a \in ToSet(places))
    BY <1>6 DEF Sound
  <2>2. ASSUME a \notin ToSet(known) PROVE Own(frames, p)
    <3>1. a \notin ToSet(initial)
      BY <1>6, <2>2 DEF Sound, Own
    <3>2. ASSUME NEW q \in Waiting(frames), Address(frames, q) = a PROVE q = p
      <4>1. CASE p \in Waiting(stack) /\ a = Address(stack, p) /\ Sound(stack, p)
        <5>1. heap[a] # Nobody /\ Own(stack, p)
          BY <2>2, <4>1 DEF Sound
        <5>2. a \notin ToSet(places)
          BY <2>2, <5>1
        <5>3. q \in Waiting(stack) /\ Address(stack, q) = a
          BY <1>6, <3>2, <5>2
        <5> QED
          BY <4>1, <5>1, <5>3 DEF Own
      <4>2. CASE p = <<n + 1, p[2]>> /\ p[2] \in DOMAIN places /\ a = places[p[2]] /\ places[p[2]] \in ToSet(places)
        <5>1. heap[a] = Nobody
          BY <2>2, <4>2
        <5>2. q = <<n + 1, q[2]>> /\ q[2] \in DOMAIN places /\ a = places[q[2]]
          BY <1>6, <3>2, <5>1 DEF Sound
        <5>3. q[2] = p[2]
          BY <2>2, <4>2, <5>2
        <5> QED
          BY <4>2, <5>2, <5>3
      <4> QED
        BY <1>6, <4>1, <4>2
    <3> QED
      BY <3>1, <3>2 DEF Own
  <2> QED
    BY <2>1, <2>2
<1>10. ASSUME NEW p \in Waiting(frames), NEW q \in Waiting(frames),
              Address(frames, p) = Address(frames, q), p # q
       PROVE  \E r \in Waiting(stack) : Address(stack, r) = Address(frames, p)
  <2>1. CASE p = <<n + 1, p[2]>> /\ p[2] \in DOMAIN places /\ Address(frames, p) = places[p[2]]
             /\ q = <<n + 1, q[2]>> /\ q[2] \in DOMAIN places /\ Address(frames, q) = places[q[2]]
    <3>1. p[2] = q[2]
      BY <1>10, <2>1
    <3> QED
      BY <1>10, <2>1, <3>1
  <2>2. CASE p \in Waiting(stack) /\ Address(frames, p) = Address(stack, p)
    BY <2>2
  <2>3. CASE q \in Waiting(stack) /\ Address(frames, q) = Address(stack, q)
    BY <1>10, <2>3
  <2> QED
    BY <1>6, <2>1, <2>2, <2>3
<1>11. Ats(frames) = Ats(stack) \cup {at}
  <2>1. \A k \in DOMAIN frames : k \in DOMAIN stack \/ k = n + 1
    BY <1>1, <1>4
  <2>2. DOMAIN stack \subseteq DOMAIN frames /\ n + 1 \in DOMAIN frames
    BY <1>1, <1>4
  <2> QED
    BY <1>2, <1>3, <2>1, <2>2 DEF Ats
<1>12. \A p \in Waiting(frames) : (p \in Waiting(stack) /\ Address(frames, p) = Address(stack, p)) \/
                                  Address(frames, p) \in ToSet(places)
  BY <1>6
<1>8. frames # <<>>
  BY <1>1, <1>3, SeqIs
<1>9. frames = Append(stack, [at |-> at, rest |-> places])
  BY DEF frames, f
<1> QED
  BY <1>5, <1>7, <1>8, <1>9, <1>10, <1>11, <1>12

\* The innermost scanNit returns
LEMMA FrontIs ==
  ASSUME StackInv, Len(stack) > 1
  PROVE  /\ AreFrames(Front(stack)) /\ Front(stack) # <<>>
         /\ \A p \in Waiting(Front(stack)) : Sound(Front(stack), p)
         /\ Top.at \in ToSet(known) /\ Ats(stack) = Ats(Front(stack)) \cup {Top.at}
         /\ \A p \in Waiting(Front(stack)) :
              p \in Waiting(stack) /\ Address(Front(stack), p) = Address(stack, p)
<1> DEFINE n == Len(stack)
           frames == Front(stack)
<1>1. n \in Nat /\ DOMAIN stack = 1 .. n /\ IsSeq(stack) /\ n > 1
  BY SeqIs DEF StackInv, AreFrames
<1>2. frames = SubSeq(stack, 1, n - 1)
  BY DEF Front
<1>3. n - 1 \in Nat /\ n - 1 <= n
  BY <1>1
<1> HIDE DEF n
<1>4. /\ IsSeq(frames) /\ Len(frames) = n - 1
      /\ \A k \in 1 .. (n - 1) : frames[k] = stack[k]
  <2>1. n = Len(stack)
    BY DEF n
  <2> HIDE DEF frames
  <2> QED
    BY <1>1, <1>2, <1>3, <2>1, FirstsAre
<1> HIDE DEF frames
<1>5. DOMAIN frames = 1 .. (n - 1) /\ frames # <<>>
  BY <1>1, <1>4, SeqIs
<1>6. \A k \in DOMAIN frames : k \in DOMAIN stack /\ frames[k] = stack[k]
  BY <1>1, <1>4, <1>5
<1>7. AreFrames(frames)
  BY <1>4, <1>6 DEF StackInv, AreFrames
<1> DEFINE W == Waiting(frames)
           g == [p \in W |-> p]
<1>8. \A p \in W : p \in Waiting(stack) /\ Address(frames, p) = Address(stack, p)
  BY <1>6 DEF Waiting, Address
<1>9. g \in [W -> Waiting(stack)]
  BY <1>8
<1>10. \A p, q \in W : g[p] = g[q] => p = q
  OBVIOUS
<1>11. \A p \in W : Address(frames, p) = Address(stack, g[p])
  BY <1>8
<1> HIDE DEF g
<1>12. \A p \in W : Sound(frames, p)
  BY <1>9, <1>10, <1>11, FewerAreSound
<1>13. Top.at \in ToSet(known)
  <2>1. n \in DOMAIN stack /\ n # 1
    BY <1>1
  <2> QED
    BY <2>1 DEF StackInv, AreFrames, Top, n
<1>14. Ats(stack) = Ats(frames) \cup {Top.at}
  <2>1. Top.at = stack[n].at /\ n \in DOMAIN stack
    BY <1>1 DEF Top, n
  <2>2. \A k \in DOMAIN stack : k = n \/ k \in DOMAIN frames
    BY <1>1, <1>5
  <2> QED
    BY <1>6, <2>1, <2>2 DEF Ats
<1> QED
  BY <1>5, <1>7, <1>8, <1>12, <1>13, <1>14 DEF frames

-------------------------------------------------------------------------------
(* The steps *)

\* The invariant of the stack when no scanNit is running
LEMMA NoStack == stack' = <<>> => StackInv'
  BY NoFrames DEF StackInv, AreFrames, Waiting

\* Frames that lose nothing keep the invariant of the stack
LEMMA StackKept ==
  ASSUME NEW frames, stack' = frames, AreFrames(frames), \A p \in Waiting(frames) : Sound(frames, p),
         \A p \in Waiting(frames) : heap'[Address(frames, p)] # Nobody,
         ToSet(initial') = ToSet(initial), ToSet(known) \subseteq ToSet(known')
  PROVE  StackInv'
<1>1. \A p \in Waiting(stack') : Sound(stack, p)'
  BY SoundKept
<1>2. AreFrames(stack)'
  BY FramesKept
<1> QED
  BY <1>1, <1>2 DEF StackInv, Waiting

\* A list begins: its transponders are new objects
LEMMA StartListKeeps ==
  ASSUME ScanInv, ScanAssumption, AirAssumption, StartList
  PROVE  ScanInv'
<1> DEFINE new == ListObjects
           places == NewPlaces(Len(new), FALSE)
<1>1. /\ pc = "list" /\ list < Len(ListsOf(front)) /\ HasRoom(Len(new), FALSE)
      /\ heap' = Placed(new, places)
      /\ initial' = initial \o places /\ queue' = initial \o places
      /\ list' = list + 1 /\ pc' = "initial"
      /\ UNCHANGED <<airvars, filevars, front, stack, cur, dangling, known, found,
                     satnums, reused, fault>>
  BY DEF StartList, ListObjects
<1>2. IsSeq(new) /\ \A k \in DOMAIN new : Object(new[k])
  BY <1>1, ListObjectsAre DEF ScanInv
<1>3. Len(new) \in Nat /\ DOMAIN new = 1 .. Len(new)
  <2> HIDE DEF new
  <2> QED
    BY <1>2, SeqIs
<1> HIDE DEF new
<1>4. /\ IsSeq(places) /\ DOMAIN places = 1 .. Len(new)
      /\ \A a \in ToSet(places) : a \in 1 .. Places /\ heap[a] = Nobody
  BY <1>1, <1>3, FreedAre, NewAre DEF ScanAssumption, ScanInv
<1> HIDE DEF places
<1>5. /\ Placed(new, places) = [a \in 1 .. Places |-> Placed(new, places)[a]]
      /\ \A a \in 1 .. Places :
           IF a \in ToSet(places) THEN Object(Placed(new, places)[a])
           ELSE Placed(new, places)[a] = heap[a]
  BY <1>2, <1>3, <1>4, PlacedIs
<1>6. /\ heap' = [a \in 1 .. Places |-> heap'[a]]
      /\ \A a \in 1 .. Places :
           IF a \in ToSet(places) THEN Object(heap'[a]) ELSE heap'[a] = heap[a]
  BY <1>1, <1>5
<1>7. IsSeq(initial') /\ ToSet(initial') \subseteq ToSet(initial) \cup ToSet(places)
  BY <1>1, <1>4, ConcatSet DEF ScanInv, HeapInv
<1>8. HeapInv'
  <2>1. \A a \in Tracked' : a \in Tracked \/ a \in ToSet(places)
    BY <1>1, <1>7 DEF Tracked
  <2>2. \A a \in Tracked' : a \in 1 .. Places /\ heap'[a] # Nobody
    BY <1>4, <1>6, <2>1, Somebody DEF ScanInv, HeapInv
  <2>3. \A a \in 1 .. Places : heap'[a] = Nobody \/ Object(heap'[a])
    BY <1>6 DEF ScanInv, HeapInv
  <2>4. IsSeq(queue') /\ ToSet(queue') \subseteq ToSet(initial')
    BY <1>1, <1>7
  <2> QED
    BY <1>1, <1>6, <1>7, <2>2, <2>3, <2>4 DEF ScanInv, HeapInv
<1>9. stack' = <<>>
  BY <1>1 DEF ScanInv, ControlInv
<1>10. StackInv'
  BY <1>9, NoStack
<1>11. ControlInv'
  BY <1>1, <1>9 DEF ControlInv
<1>12. StateInv'
  <2>1. Len(ListsOf(front)) \in Nat
    <3>1. front \in DOMAIN Frontends /\ air \in Airs
      BY FrontendsAre, SeqIs DEF ScanInv, StateInv
    <3>2. IsSeq(ListsOf(front))
      BY <3>1 DEF AirAssumption, ListsOf
    <3> QED
      BY <3>2, SeqIs
  <2>2. list' \in 0 .. Len(ListsOf(front)')
    <3>1. ListsOf(front)' = ListsOf(front)
      BY <1>1 DEF ListsOf, airvars
    <3> QED
      BY <1>1, <2>1, <3>1 DEF ScanInv, StateInv
  <2> QED
    BY <1>1, <2>2 DEF ScanInv, StateInv, airvars
<1> QED
  BY <1>8, <1>10, <1>11, <1>12 DEF ScanInv

\* What Same says of the lists
LEMMA SameHeap ==
  ASSUME HeapInv, Same(heap, heap'), UNCHANGED <<initial, known, found, dangling>>,
         IsSeq(queue'), ToSet(queue') \subseteq ToSet(initial)
  PROVE  HeapInv'
  BY DEF HeapInv, Same, Tracked

\* The lists are the same as well
LEMMA SameLists ==
  ASSUME StateInv, UNCHANGED airvars, UNCHANGED <<front, list, fault>>,
         cur'.at \in 0 .. Places, \A pos \in DOMAIN satnums' : satnums'[pos] \in 0 .. 3
  PROVE  StateInv'
  BY DEF StateInv, airvars, ListsOf

\* The heap is the same when nothing of it changes
LEMMA Unchanged == HeapInv /\ heap' = heap => Same(heap, heap')
  BY DEF HeapInv, Same

\* The next initial transponder is tuned to, or left
LEMMA ScanInitialKeeps ==
  ASSUME ScanInv, ScanInitial
  PROVE  ScanInv'
<1> DEFINE a == Head(queue)
<1>1. /\ pc = "initial" /\ queue # <<>>
      /\ IF Tunes(a)
         THEN Tune(a) /\ pc' = "tables" /\ UNCHANGED queue
         ELSE queue' = Tail(queue) /\ UNCHANGED <<cur, heap, satnums, pc>>
      /\ UNCHANGED <<airvars, filevars, front, list, initial, stack, dangling, known, found, reused, fault>>
  BY DEF ScanInitial
<1>2. IsSeq(queue) /\ ToSet(queue) \subseteq ToSet(initial)
  BY DEF ScanInv, HeapInv
<1>3. /\ IsSeq(Tail(queue)) /\ ToSet(Tail(queue)) \subseteq ToSet(queue)
      /\ Head(queue) \in ToSet(queue)
  BY <1>1, <1>2, TailIs, ToSetIs
<1>4. a \in ToSet(initial) /\ a \in 1 .. Places /\ heap[a] # Nobody
  BY <1>2, <1>3 DEF ScanInv, HeapInv, Tracked
<1>5. stack = <<>> /\ stack' = <<>>
  BY <1>1 DEF ScanInv, ControlInv
<1>6. StackInv'
  BY <1>5, NoStack
<1>7. CASE Tunes(a)
  <2>1. /\ Same(heap, heap')
        /\ cur'.at = a /\ cur'.mux \in air.muxes
        /\ \A pos \in DOMAIN satnums' : satnums'[pos] \in 0 .. 3
    BY <1>1, <1>4, <1>7, TuneKeeps DEF ScanInv, StateInv
  <2>2. HeapInv'
    BY <1>1, <1>2, <1>7, <2>1, SameHeap DEF ScanInv
  <2>3. ControlInv'
    BY <1>1, <1>4, <1>5, <1>7, <2>1 DEF ControlInv, airvars
  <2>4. StateInv'
    BY <1>1, <1>4, <2>1, SameLists DEF ScanInv
  <2> QED
    BY <1>6, <2>2, <2>3, <2>4 DEF ScanInv
<1>8. CASE ~Tunes(a)
  <2>1. HeapInv'
    BY <1>1, <1>2, <1>3, <1>8, SameHeap, Unchanged DEF ScanInv
  <2>2. ControlInv'
    BY <1>1, <1>5, <1>8 DEF ControlInv
  <2>3. StateInv'
    BY <1>1, <1>8, SameLists DEF ScanInv, StateInv
  <2> QED
    BY <1>6, <2>1, <2>2, <2>3 DEF ScanInv
<1> QED
  BY <1>7, <1>8

\* A list ends
LEMMA EndListKeeps ==
  ASSUME ScanInv, EndList
  PROVE  ScanInv'
<1>1. /\ pc = "initial" /\ queue = <<>> /\ pc' = "list"
      /\ UNCHANGED <<airvars, heapvars, filevars, front, list, initial, queue, stack, cur, satnums, fault>>
  BY DEF EndList
<1>2. HeapInv'
  BY <1>1 DEF ScanInv, HeapInv, Tracked, heapvars
<1>3. stack' = <<>>
  BY <1>1 DEF ScanInv, ControlInv
<1>4. StackInv'
  BY <1>3, NoStack
<1>5. ControlInv'
  BY <1>1, <1>3 DEF ControlInv
<1>6. StateInv'
  BY <1>1, SameLists DEF ScanInv, StateInv
<1> QED
  BY <1>2, <1>4, <1>5, <1>6 DEF ScanInv

\* A transponder is refused: scanNit deletes it, which it knows; scan goes on with it
LEMMA ScanRefusedKeeps ==
  ASSUME ScanInv, ScanRefused
  PROVE  ScanInv'
<1>1. /\ pc = "tables" /\ pc' = "nit"
      /\ IF stack = <<>>
         THEN stack' = <<[at |-> cur.at, rest |-> <<>>]>> /\ UNCHANGED <<heap, dangling>>
         ELSE Delete(cur.at) /\ UNCHANGED stack
      /\ UNCHANGED <<airvars, filevars, front, list, initial, queue, cur, known, found, satnums, reused, fault>>
  BY DEF ScanRefused
<1>2. queue # <<>> /\ cur.at \in ToSet(IF stack = <<>> THEN initial ELSE known)
  BY <1>1 DEF ScanInv, ControlInv
<1>3. heap' = heap
  <2>1. CASE stack = <<>>
    BY <1>1, <2>1
  <2>2. CASE stack # <<>>
    BY <1>1, <1>2, <2>2 DEF Delete
  <2> QED
    BY <2>1, <2>2
<1>4. HeapInv'
  <2>1. dangling' \subseteq ToSet(known)
    <3>1. CASE stack = <<>>
      BY <1>1, <3>1 DEF ScanInv, HeapInv
    <3>2. CASE stack # <<>>
      BY <1>1, <1>2, <3>2 DEF Delete, ScanInv, HeapInv
    <3> QED
      BY <3>1, <3>2
  <2> QED
    BY <1>1, <1>3, <2>1 DEF ScanInv, HeapInv, Tracked
<1>5. StackInv' /\ stack' # <<>>
  <2>1. CASE stack = <<>>
    <3> DEFINE f == [at |-> cur.at, rest |-> <<>>]
    <3>1. stack' = <<f>> /\ f.at = cur.at /\ f.rest = <<>> /\ f = [at |-> f.at, rest |-> f.rest]
      BY <1>1, <2>1
    <3> HIDE DEF f
    <3>2. DOMAIN <<f>> = {1} /\ <<f>>[1] = f /\ <<f>> \in Seq({f})
      OBVIOUS
    <3>6. IsSeq(<<f>>) /\ IsSeq(<<>>)
      BY <3>2, ToSetSeq, EmptyIsSeq
    <3>7. DOMAIN <<>> = {}
      BY <3>6, SeqIs
    <3>3. IsSeq(<<f>>) /\ IsSeq(<<>>) /\ DOMAIN <<>> = {} /\ <<f>> # <<>>
      BY <3>2, <3>6, <3>7
    <3>4. Waiting(stack') = {}
      BY <3>1, <3>2, <3>3 DEF Waiting
    <3>5. AreFrames(stack)'
      BY <1>1, <1>2, <2>1, <3>1, <3>2, <3>3 DEF AreFrames
    <3> QED
      BY <3>1, <3>3, <3>4, <3>5 DEF StackInv
  <2>2. CASE stack # <<>>
    <3>1. stack' = stack /\ initial' = initial /\ known' = known
      BY <1>1, <2>2
    <3>2. AreFrames(stack) /\ \A p \in Waiting(stack) : Sound(stack, p)
      BY DEF ScanInv, StackInv
    <3>3. \A p \in Waiting(stack) : heap'[Address(stack, p)] # Nobody
      BY <1>3, <3>2 DEF Sound
    <3> QED
      BY <2>2, <3>1, <3>2, <3>3, StackKept
  <2> QED
    BY <2>1, <2>2
<1>6. ControlInv'
  BY <1>1, <1>2, <1>5 DEF ControlInv
<1>7. StateInv'
  BY <1>1, SameLists DEF ScanInv, StateInv
<1> QED
  BY <1>4, <1>5, <1>6, <1>7 DEF ScanInv

\* The tables of a transponder are read, and those that its NIT names are made
LEMMA ScanTablesKeeps ==
  ASSUME ScanInv, ScanAssumption, AirAssumption, ScanTables
  PROVE  ScanInv'
<1> DEFINE new == Additional(cur.mux)
<1>1. PICK pmt \in FirstPmts(cur.mux), reuse \in BOOLEAN :
          LET places == NewPlaces(Len(new), reuse)
          IN /\ HasRoom(Len(new), reuse)
             /\ heap' = [Placed(new, places) EXCEPT ![cur.at].tsid = cur.mux.tsid,
                                                    ![cur.at].services = ServicesOf(cur.mux, pmt)]
             /\ dangling' = dangling \ ToSet(places)
             /\ stack' = Append(stack, [at |-> cur.at, rest |-> places])
  BY DEF ScanTables
<1> DEFINE services == ServicesOf(cur.mux, pmt)
           places == NewPlaces(Len(new), reuse)
           before == Placed(new, places)
<1>3. /\ HasRoom(Len(new), reuse)
      /\ heap' = [before EXCEPT ![cur.at].tsid = cur.mux.tsid, ![cur.at].services = services]
      /\ dangling' = dangling \ ToSet(places)
      /\ stack' = Append(stack, [at |-> cur.at, rest |-> places])
  BY <1>1
<1> HIDE DEF services
<1>4. /\ pc = "tables" /\ pc' = "nit"
      /\ UNCHANGED <<airvars, filevars, front, list, initial, queue, cur, known, found, satnums, fault>>
  BY DEF ScanTables
<1>5. /\ queue # <<>> /\ cur.mux \in air.muxes
      /\ cur.at \in ToSet(IF stack = <<>> THEN initial ELSE known)
  BY <1>4 DEF ScanInv, ControlInv
<1>6. cur.at \in 1 .. Places /\ heap[cur.at] # Nobody
  BY <1>5 DEF ScanInv, HeapInv, Tracked
<1>7. IsSeq(new) /\ \A k \in DOMAIN new : Object(new[k])
  BY <1>5, AdditionalAre DEF ScanInv, StateInv
<1> HIDE DEF new
<1>8. Len(new) \in Nat /\ DOMAIN new = 1 .. Len(new)
  BY <1>7, SeqIs
<1>9. /\ IsSeq(places) /\ DOMAIN places = 1 .. Len(new)
      /\ \A a \in ToSet(places) : a \in 1 .. Places /\ (heap[a] = Nobody \/ a \in dangling)
      /\ \A j, k \in DOMAIN places : places[j] = places[k] => j = k
  BY <1>3, <1>8, FreedAre, NewAre DEF ScanAssumption, ScanInv
<1> HIDE DEF places
<1>10. /\ before = [a \in 1 .. Places |-> before[a]]
       /\ \A a \in 1 .. Places :
            IF a \in ToSet(places) THEN Object(before[a]) ELSE before[a] = heap[a]
  BY <1>7, <1>8, <1>9, PlacedIs
<1> HIDE DEF before
<1>11. Object(before[cur.at])
  BY <1>6, <1>10 DEF ScanInv, HeapInv
<1> DEFINE t == before[cur.at]
           u == [t EXCEPT !.tsid = cur.mux.tsid]
           v == [u EXCEPT !.services = services]
<1>12. heap' = [before EXCEPT ![cur.at] = v]
  <2>1. heap' = [[before EXCEPT ![cur.at] = u] EXCEPT ![cur.at].services = services]
    BY <1>3
  <2>2. [before EXCEPT ![cur.at] = u][cur.at] = u
    BY <1>6, <1>10
  <2> HIDE DEF u
  <2> QED
    BY <1>6, <1>10, <2>1, <2>2
<1>13. Object(v)
  <2>1. t = [kind |-> t.kind, freq |-> t.freq, tsid |-> t.tsid, services |-> t.services,
             tuning |-> t.tuning]
    BY <1>11 DEF Object
  <2>2. u = [kind |-> t.kind, freq |-> t.freq, tsid |-> cur.mux.tsid, services |-> t.services,
             tuning |-> t.tuning]
    <3> HIDE DEF t
    <3> QED
      BY <2>1
  <2>3. v = [kind |-> t.kind, freq |-> t.freq, tsid |-> cur.mux.tsid, services |-> services,
             tuning |-> t.tuning]
    <3> HIDE DEF t, u
    <3> QED
      BY <2>2
  <2> HIDE DEF t, v
  <2>4. /\ v = [kind |-> v.kind, freq |-> v.freq, tsid |-> v.tsid, services |-> v.services,
                tuning |-> v.tuning]
        /\ v.kind = t.kind /\ v.tuning = t.tuning
    BY <2>3
  <2>5. Object(t)
    BY <1>11 DEF t
  <2> QED
    BY <2>4, <2>5 DEF Object
<1> HIDE DEF v
<1>14. /\ heap' = [a \in 1 .. Places |-> heap'[a]]
       /\ \A a \in 1 .. Places : heap'[a] = Nobody \/ Object(heap'[a])
       /\ \A a \in 1 .. Places : heap[a] # Nobody \/ a \in ToSet(places) => heap'[a] # Nobody
  <2>1. heap'[cur.at] = v /\ \A a \in 1 .. Places : a # cur.at => heap'[a] = before[a]
    BY <1>6, <1>10, <1>12
  <2>2. \A a \in 1 .. Places : heap'[a] = Nobody \/ Object(heap'[a])
    BY <1>10, <1>13, <2>1 DEF ScanInv, HeapInv
  <2>3. \A a \in 1 .. Places : heap[a] # Nobody \/ a \in ToSet(places) => heap'[a] # Nobody
    BY <1>10, <1>13, <2>1, Somebody
  <2>4. heap' = [a \in 1 .. Places |-> heap'[a]]
    BY <1>10, <1>12
  <2> QED
    BY <2>2, <2>3, <2>4
<1>15. HeapInv'
  BY <1>3, <1>4, <1>14 DEF ScanInv, HeapInv, Tracked
<1> DEFINE f == [at |-> cur.at, rest |-> places]
           frames == Append(stack, f)
<1>16. \A a \in ToSet(places) :
         a \in 1 .. Places /\ (a \in ToSet(known) \/ (heap[a] = Nobody /\ a \notin ToSet(initial)))
  BY <1>9 DEF ScanInv, HeapInv, Tracked
<1>17. \A j, k \in DOMAIN places : places[j] = places[k] => j = k
  BY <1>9
<1>18. /\ AreFrames(frames) /\ frames # <<>>
       /\ \A p \in Waiting(frames) :
            /\ Address(frames, p) \in 1 .. Places
            /\ heap[Address(frames, p)] # Nobody \/ Address(frames, p) \in ToSet(places)
            /\ Address(frames, p) \in ToSet(known) \/ Own(frames, p)
  BY <1>5, <1>9, <1>16, <1>17, AppendFrameIs DEF ScanInv
<1>19. stack' = frames
  BY <1>3
<1> HIDE DEF frames
<1>20. AreFrames(stack)'
  BY <1>4, <1>18, <1>19, FramesKept
<1>21. \A p \in Waiting(frames) : Sound(stack, p)'
  <2> SUFFICES ASSUME NEW p \in Waiting(frames) PROVE Sound(stack, p)'
    OBVIOUS
  <2>1. heap'[Address(frames, p)] # Nobody /\ Address(frames, p) \in 1 .. Places
    BY <1>14, <1>18
  <2>2. Own(frames, p) => Own(stack, p)'
    BY <1>4, <1>19 DEF Own
  <2> QED
    BY <1>4, <1>18, <1>19, <2>1, <2>2 DEF Sound
<1>22. StackInv'
  BY <1>19, <1>20, <1>21 DEF StackInv
<1>23. ControlInv'
  BY <1>4, <1>5, <1>18, <1>19 DEF ControlInv
<1>24. StateInv'
  BY <1>4, SameLists DEF ScanInv, StateInv
<1> QED
  BY <1>15, <1>22, <1>23, <1>24 DEF ScanInv

\* A table is not complete
LEMMA TableTornKeeps ==
  ASSUME ScanInv, TableTorn
  PROVE  ScanInv'
<1>1. /\ fault' = "section"
      /\ UNCHANGED <<airvars, heapvars, filevars, front, list, pc, initial, queue, stack, cur, satnums>>
  BY DEF TableTorn
<1>2. HeapInv'
  BY <1>1 DEF ScanInv, HeapInv, Tracked, heapvars
<1>3. AreFrames(stack)' /\ \A p \in Waiting(stack) : Sound(stack, p)'
  BY <1>1 DEF ScanInv, StackInv, AreFrames, Sound, Own, heapvars
<1>4. StackInv'
  BY <1>1, <1>3 DEF StackInv
<1>5. ControlInv'
  BY <1>1 DEF ScanInv, ControlInv, airvars, heapvars
<1>6. StateInv'
  BY <1>1 DEF ScanInv, StateInv, airvars, ListsOf
<1> QED
  BY <1>2, <1>4, <1>5, <1>6 DEF ScanInv

\* A transponder that is known is deleted
LEMMA NitKnownKeeps ==
  ASSUME ScanInv, NitKnown
  PROVE  ScanInv'
<1> DEFINE a == Head(Top.rest)
           frames == NextOfNit
<1>1. /\ pc = "nit" /\ Top.rest # <<>> /\ Delete(a) /\ stack' = frames
      /\ UNCHANGED <<airvars, filevars, front, list, pc, initial, queue, cur, known, found, satnums, reused, fault>>
  BY DEF NitKnown
<1>2. stack # <<>> /\ queue # <<>>
  BY <1>1 DEF ScanInv, ControlInv
<1>3. /\ AreFrames(frames) /\ frames # <<>>
      /\ \A p \in Waiting(frames) : Sound(frames, p)
      /\ Sound(stack, <<Len(stack), 1>>) /\ Address(stack, <<Len(stack), 1>>) = a
      /\ a \notin ToSet(known) => \A p \in Waiting(frames) : Address(frames, p) # a
  BY <1>1, <1>2, NextOfNitIs DEF ScanInv
<1>4. a \in 1 .. Places /\ (a \in ToSet(known) \/ a \notin ToSet(initial))
  BY <1>3 DEF Sound, Own
<1> HIDE DEF a, frames
<1>5. \/ heap' = heap /\ dangling' = dangling \cup {a} /\ a \in ToSet(known)
      \/ heap' = [heap EXCEPT ![a] = Nobody] /\ dangling' = dangling /\ a \notin ToSet(known)
  BY <1>1 DEF Delete
<1>6. HeapInv'
  <2>1. CASE heap' = heap /\ dangling' = dangling \cup {a} /\ a \in ToSet(known)
    BY <1>1, <2>1 DEF ScanInv, HeapInv, Tracked
  <2>2. CASE heap' = [heap EXCEPT ![a] = Nobody] /\ dangling' = dangling /\ a \notin ToSet(known)
    <3>1. a \notin Tracked
      BY <1>4, <2>2 DEF Tracked
    <3>2. heap' = [b \in 1 .. Places |-> heap'[b]]
      BY <2>2 DEF ScanInv, HeapInv
    <3>3. \A b \in 1 .. Places : heap'[b] = IF b = a THEN Nobody ELSE heap[b]
      BY <2>2 DEF ScanInv, HeapInv
    <3> QED
      BY <1>1, <2>2, <3>1, <3>2, <3>3 DEF ScanInv, HeapInv, Tracked
  <2> QED
    BY <1>5, <2>1, <2>2
<1>7. ASSUME NEW p \in Waiting(frames) PROVE heap'[Address(frames, p)] # Nobody
  <2>1. Address(frames, p) \in 1 .. Places /\ heap[Address(frames, p)] # Nobody
    BY <1>3 DEF Sound
  <2>2. CASE heap' = heap
    BY <2>1, <2>2
  <2>3. CASE heap' = [heap EXCEPT ![a] = Nobody] /\ a \notin ToSet(known)
    BY <1>3, <2>1, <2>3 DEF ScanInv, HeapInv
  <2> QED
    BY <1>5, <2>2, <2>3
<1>8. StackInv'
  BY <1>1, <1>3, <1>7, StackKept
<1>9. ControlInv'
  BY <1>1, <1>2, <1>3 DEF ControlInv
<1>10. StateInv'
  BY <1>1, SameLists DEF ScanInv, StateInv
<1> QED
  BY <1>6, <1>8, <1>9, <1>10 DEF ScanInv

\* A transponder that is not known is tried
LEMMA NitTuneKeeps ==
  ASSUME ScanInv, NitTune
  PROVE  ScanInv'
<1> DEFINE a == Head(Top.rest)
           frames == NextOfNit
<1>1. /\ pc = "nit" /\ Top.rest # <<>> /\ stack' = frames
      /\ known' = Append(known, a)
      /\ IF Tunes(a) THEN Tune(a) /\ pc' = "tables" /\ UNCHANGED dangling
         ELSE dangling' = dangling \cup {a} /\ UNCHANGED <<cur, heap, satnums, pc>>
      /\ UNCHANGED <<airvars, filevars, front, list, initial, queue, found, reused, fault>>
  BY DEF NitTune
<1>2. stack # <<>> /\ queue # <<>>
  BY <1>1 DEF ScanInv, ControlInv
<1>3. /\ AreFrames(frames) /\ frames # <<>>
      /\ \A p \in Waiting(frames) : Sound(frames, p)
      /\ Sound(stack, <<Len(stack), 1>>) /\ Address(stack, <<Len(stack), 1>>) = a
  BY <1>1, <1>2, NextOfNitIs DEF ScanInv
<1>4. a \in 1 .. Places /\ heap[a] # Nobody
  BY <1>3 DEF Sound
<1> HIDE DEF a, frames
<1>5. IsSeq(known') /\ ToSet(known') = ToSet(known) \cup {a}
  BY <1>1, AppendSet DEF ScanInv, HeapInv
<1>6. Same(heap, heap')
  <2>1. CASE Tunes(a)
    BY <1>1, <1>4, <2>1, TuneKeeps DEF ScanInv, StateInv
  <2>2. CASE ~Tunes(a)
    BY <1>1, <2>2, Unchanged DEF ScanInv
  <2> QED
    BY <2>1, <2>2
<1>7. HeapInv'
  <2>1. dangling' \subseteq ToSet(known')
    <3>1. dangling' \subseteq dangling \cup {a}
      BY <1>1
    <3> QED
      BY <1>5, <3>1 DEF ScanInv, HeapInv
  <2>2. \A b \in Tracked' : b \in Tracked \/ b = a
    BY <1>1, <1>5 DEF Tracked
  <2>3. \A b \in Tracked' : b \in 1 .. Places /\ heap'[b] # Nobody
    BY <1>4, <1>6, <2>2 DEF Same, ScanInv, HeapInv
  <2> QED
    BY <1>1, <1>5, <1>6, <2>1, <2>3 DEF ScanInv, HeapInv, Same
<1>8. \A p \in Waiting(frames) : heap'[Address(frames, p)] # Nobody
  BY <1>3, <1>6 DEF Sound, Same
<1>9. StackInv'
  BY <1>1, <1>3, <1>5, <1>8, StackKept
<1>10. ControlInv' /\ StateInv'
  <2>1. CASE Tunes(a)
    <3>1. /\ cur'.at = a /\ cur'.mux \in air.muxes
          /\ \A pos \in DOMAIN satnums' : satnums'[pos] \in 0 .. 3
      BY <1>1, <1>4, <2>1, TuneKeeps DEF ScanInv, StateInv
    <3>2. ControlInv'
      BY <1>1, <1>2, <1>3, <1>5, <2>1, <3>1 DEF ControlInv, airvars
    <3>3. StateInv'
      BY <1>1, <1>4, <3>1, SameLists DEF ScanInv
    <3> QED
      BY <3>2, <3>3
  <2>2. CASE ~Tunes(a)
    <3>1. ControlInv'
      BY <1>1, <1>2, <1>3, <2>2 DEF ControlInv
    <3>2. StateInv'
      BY <1>1, <2>2, SameLists DEF ScanInv, StateInv
    <3> QED
      BY <3>1, <3>2
  <2> QED
    BY <2>1, <2>2
<1> QED
  BY <1>7, <1>9, <1>10 DEF ScanInv

\* A scanNit returns to the one around it
LEMMA NitReturnKeeps ==
  ASSUME ScanInv, NitReturn
  PROVE  ScanInv'
<1>1. /\ pc = "nit" /\ Len(stack) > 1
      /\ found' = Append(found, Top.at) /\ stack' = Front(stack)
      /\ UNCHANGED <<airvars, filevars, front, list, pc, initial, queue, cur, heap, dangling, known,
                     satnums, reused, fault>>
  BY DEF NitReturn
<1>2. /\ AreFrames(Front(stack)) /\ Front(stack) # <<>>
      /\ \A p \in Waiting(Front(stack)) : Sound(Front(stack), p)
      /\ Top.at \in ToSet(known)
  BY <1>1, FrontIs DEF ScanInv
<1>3. IsSeq(found') /\ ToSet(found') \subseteq ToSet(known)
  BY <1>1, <1>2, AppendSet DEF ScanInv, HeapInv
<1>4. HeapInv'
  BY <1>1, <1>3 DEF ScanInv, HeapInv, Tracked
<1>5. \A p \in Waiting(Front(stack)) : heap'[Address(Front(stack), p)] # Nobody
  BY <1>1, <1>2 DEF Sound
<1>6. StackInv'
  BY <1>1, <1>2, <1>5, StackKept
<1>7. ControlInv'
  BY <1>1, <1>2 DEF ScanInv, ControlInv
<1>8. StateInv'
  BY <1>1, SameLists DEF ScanInv, StateInv
<1> QED
  BY <1>4, <1>6, <1>7, <1>8 DEF ScanInv

\* The outermost scanNit returns to scan
LEMMA InitialReturnKeeps ==
  ASSUME ScanInv, InitialReturn
  PROVE  ScanInv'
<1>1. /\ pc = "nit" /\ Len(stack) = 1
      /\ IF isKnown(Top.at)
         THEN UNCHANGED <<known, found>>
         ELSE known' = Append(known, Top.at) /\ found' = Append(found, Top.at)
      /\ stack' = <<>> /\ queue' = Tail(queue) /\ pc' = "initial"
      /\ UNCHANGED <<airvars, filevars, front, list, initial, cur, heap, dangling, satnums, reused, fault>>
  BY DEF InitialReturn
<1>2. queue # <<>>
  BY <1>1 DEF ScanInv, ControlInv
<1>3. IsSeq(queue') /\ ToSet(queue') \subseteq ToSet(initial)
  BY <1>1, <1>2, TailIs DEF ScanInv, HeapInv
<1>4. Top.at \in ToSet(initial)
  <2>1. 1 \in DOMAIN stack
    BY <1>1, SeqIs DEF ScanInv, StackInv, AreFrames
  <2> QED
    BY <1>1, <2>1 DEF ScanInv, StackInv, AreFrames, Top
<1>5. /\ IsSeq(known') /\ IsSeq(found')
      /\ ToSet(known) \subseteq ToSet(known') /\ ToSet(known') \subseteq ToSet(known) \cup {Top.at}
      /\ ToSet(found') \subseteq ToSet(known')
  <2>1. CASE isKnown(Top.at)
    BY <1>1, <2>1 DEF ScanInv, HeapInv
  <2>2. CASE ~isKnown(Top.at)
    <3>1. known' = Append(known, Top.at) /\ found' = Append(found, Top.at)
      BY <1>1, <2>2
    <3>2. IsSeq(known') /\ ToSet(known') = ToSet(known) \cup {Top.at}
      BY <3>1, AppendSet DEF ScanInv, HeapInv
    <3>3. IsSeq(found') /\ ToSet(found') = ToSet(found) \cup {Top.at}
      BY <3>1, AppendSet DEF ScanInv, HeapInv
    <3> QED
      BY <3>2, <3>3 DEF ScanInv, HeapInv
  <2> QED
    BY <2>1, <2>2
<1>6. HeapInv'
  BY <1>1, <1>3, <1>4, <1>5 DEF ScanInv, HeapInv, Tracked
<1>7. StackInv'
  BY <1>1, NoStack
<1>8. ControlInv'
  BY <1>1 DEF ControlInv
<1>9. StateInv'
  BY <1>1, SameLists DEF ScanInv, StateInv
<1> QED
  BY <1>6, <1>7, <1>8, <1>9 DEF ScanInv

\* A frontend has done: the next one has an empty heap
LEMMA EndFrontendKeeps ==
  ASSUME ScanInv, ScanAssumption, AirAssumption, EndFrontend
  PROVE  ScanInv'
<1>1. /\ pc = "list"
      /\ IF front < Len(Frontends) THEN front' = front + 1 /\ list' = 0 /\ UNCHANGED pc
         ELSE pc' = "write" /\ UNCHANGED <<front, list>>
      /\ heap' = [a \in 1 .. Places |-> Nobody] /\ dangling' = {}
      /\ known' = <<>> /\ found' = <<>> /\ satnums' = <<>> /\ initial' = <<>>
      /\ UNCHANGED <<airvars, file, queue, stack, cur, reused, fault>>
  BY Zenon DEF EndFrontend
<1>2. queue' = <<>> /\ stack' = <<>>
  BY <1>1 DEF ScanInv, ControlInv
<1>3. IsSeq(<<>>) /\ ToSet(<<>>) = {} /\ DOMAIN <<>> = {}
  BY EmptyIsSeq, SeqIs DEF ToSet
<1>4. HeapInv'
  BY <1>1, <1>2, <1>3 DEF HeapInv, Tracked
<1>5. StackInv'
  BY <1>2, NoStack
<1>6. ControlInv'
  <2>1. pc' \in {"list", "write"}
    BY <1>1
  <2> QED
    BY <1>2, <2>1 DEF ControlInv
<1>7. StateInv'
  <2>1. front' \in 1 .. Len(Frontends) /\ list' \in 0 .. Len(ListsOf(front))'
    <3>1. CASE front < Len(Frontends)
      <4>1. Len(Frontends) \in Nat /\ DOMAIN Frontends = 1 .. Len(Frontends)
        BY FrontendsAre, SeqIs
      <4>2. front' = front + 1 /\ list' = 0 /\ front' \in DOMAIN Frontends
        BY <1>1, <3>1, <4>1 DEF ScanInv, StateInv
      <4>3. air' = air /\ air \in Airs
        BY <1>1 DEF airvars, ScanInv, StateInv
      <4>4. IsSeq(air.lists[Type(front')])
        BY <4>2, <4>3 DEF AirAssumption
      <4>5. ListsOf(front)' = air.lists[Type(front')]
        BY Zenon, <4>3 DEF ListsOf, Type
      <4>6. Len(ListsOf(front)') \in Nat
        BY <4>4, <4>5, SeqIs
      <4> QED
        BY <4>1, <4>2, <4>6
    <3>2. CASE ~(front < Len(Frontends))
      <4>1. front' = front /\ list' = list /\ air' = air
        BY <1>1, <3>2 DEF airvars
      <4> QED
        BY <4>1 DEF ScanInv, StateInv, ListsOf
    <3> QED
      BY <3>1, <3>2
  <2> QED
    BY <1>1, <1>3, <2>1 DEF ScanInv, StateInv, airvars
<1> QED
  BY <1>4, <1>5, <1>6, <1>7 DEF ScanInv

\* The file is written
LEMMA WriteFileKeeps ==
  ASSUME ScanInv, WriteFile
  PROVE  ScanInv'
<1>1. /\ pc = "write" /\ pc' = "done"
      /\ UNCHANGED <<airvars, heapvars, device, front, list, initial, queue, stack, cur, satnums, fault>>
  BY DEF WriteFile
<1>2. HeapInv'
  BY <1>1 DEF ScanInv, HeapInv, Tracked, heapvars
<1>3. stack' = <<>> /\ queue' = <<>>
  BY <1>1 DEF ScanInv, ControlInv
<1>4. StackInv'
  BY <1>3, NoStack
<1>5. ControlInv'
  BY <1>1, <1>3 DEF ControlInv
<1>6. StateInv'
  BY <1>1, SameLists DEF ScanInv, StateInv
<1> QED
  BY <1>2, <1>4, <1>5, <1>6 DEF ScanInv

-------------------------------------------------------------------------------
(* The theorems *)

\* The scan begins with nothing on the heap
LEMMA ScanInvInit ==
  ASSUME ScanAssumption, AirAssumption, Init
  PROVE  ScanInv
<1>1. IsSeq(<<>>) /\ ToSet(<<>>) = {} /\ DOMAIN <<>> = {}
  BY EmptyIsSeq, SeqIs DEF ToSet
<1>2. HeapInv
  BY <1>1 DEF Init, HeapInv, Tracked
<1>3. StackInv
  BY NoFrames DEF Init, StackInv
<1>4. ControlInv
  BY DEF Init, ControlInv
<1>5. StateInv
  <2>1. 1 \in 1 .. Len(Frontends) /\ 1 \in DOMAIN Frontends
    BY FrontendsAre, SeqIs DEF ScanAssumption
  <2>2. IsSeq(ListsOf(front))
    BY <2>1 DEF Init, AirAssumption, ListsOf
  <2>3. Len(ListsOf(front)) \in Nat
    BY <2>2, SeqIs
  <2> QED
    BY <1>1, <2>1, <2>3 DEF Init, StateInv, ScanAssumption
<1> QED
  BY <1>2, <1>3, <1>4, <1>5 DEF ScanInv

\* A step that changes nothing
LEMMA ScanInvStutters ==
  ASSUME ScanInv, UNCHANGED vars
  PROVE  ScanInv'
<1>1. UNCHANGED <<airvars, heapvars, filevars, front, list, pc, initial, queue, stack, cur, satnums, fault>>
  BY DEF vars
<1>2. HeapInv'
  BY <1>1 DEF ScanInv, HeapInv, Tracked, heapvars
<1>3. AreFrames(stack)' /\ \A p \in Waiting(stack) : Sound(stack, p)'
  BY <1>1 DEF ScanInv, StackInv, AreFrames, Sound, Own, heapvars
<1>4. StackInv'
  BY <1>1, <1>3 DEF StackInv
<1>5. ControlInv' /\ StateInv'
  BY <1>1 DEF ScanInv, ControlInv, StateInv, ListsOf, airvars, heapvars
<1> QED
  BY <1>2, <1>4, <1>5 DEF ScanInv

\* Every step keeps the invariant
LEMMA ScanInvNext ==
  ASSUME ScanAssumption, AirAssumption, ScanInv, [Next]_vars
  PROVE  ScanInv'
<1>1. CASE UNCHANGED vars
  BY <1>1, ScanInvStutters
<1>2. CASE Next
  BY <1>2, StartListKeeps, ScanInitialKeeps, EndListKeeps, ScanRefusedKeeps, ScanTablesKeeps,
     TableTornKeeps, NitKnownKeeps, NitTuneKeeps, NitReturnKeeps, InitialReturnKeeps,
     EndFrontendKeeps, WriteFileKeeps DEF Next
<1> QED
  BY <1>1, <1>2

\* The inductive invariant of the scanner
LEMMA ScanInvariant == Spec => []ScanInv
<1>1. Init => ScanInv
  BY ScanAssumption, AirAssumption, ScanInvInit
<1>2. ScanInv /\ [Next]_vars => ScanInv'
  BY ScanAssumption, AirAssumption, ScanInvNext
<1> QED
  BY <1>1, <1>2, PTL DEF Spec

\* The scanner's lists have the addresses of objects only, whatever the NITs name, in
\* whatever order deletions and new objects follow one another, and a satellite's number
\* is one of the dish (dvb/Frontend.cpp, scan, scanNit and SatFrontend::tune).
THEOREM TypeCorrect == Spec => []TypeOK
<1>1. ScanInv => TypeOK
  <2> SUFFICES ASSUME ScanInv PROVE TypeOK
    OBVIOUS
  <2>1. /\ air \in Airs /\ dead \subseteq Mute /\ late \in Late
        /\ front \in 1 .. Len(Frontends) /\ list \in 0 .. Len(ListsOf(front))
        /\ pc \in {"list", "initial", "tables", "nit", "write", "done"}
        /\ cur.at \in 0 .. Places
        /\ \A pos \in DOMAIN satnums : satnums[pos] \in 0 .. 3
        /\ fault \in {"none", "section"}
    BY DEF ScanInv, StateInv, ControlInv
  <2>2. DOMAIN heap = 1 .. Places /\ dangling \subseteq ToSet(known)
    BY DEF ScanInv, HeapInv
  <2>3. {a \in ToSet(known) \cup ToSet(found) \cup ToSet(initial) : heap[a] = Nobody} = {}
    BY DEF ScanInv, HeapInv, Tracked
  <2>4. \A k \in DOMAIN stack : stack[k].at \in 1 .. Places
    BY DEF ScanInv, StackInv, AreFrames, HeapInv, Tracked
  <2> QED
    BY <2>1, <2>2, <2>3, <2>4 DEF TypeOK
<1> QED
  BY <1>1, ScanInvariant, PTL

-------------------------------------------------------------------------------
(* The reading of short tables *)

\* The reads of Table::read find every section of a table of up to three, whichever
\* section is sent first and whichever read is lost
LEMMA ShortTables ==
  ASSUME NEW n \in 1 .. 3, NEW first \in 0 .. n - 1, NEW lost \in 1 .. n + 2
  PROVE  Complete(n, first, lost)
<1> DEFINE at(k) == (first + k - 1 + (IF lost # 0 /\ k >= lost THEN 1 ELSE 0)) % n
<1>1. \A k \in 1 .. n + 2 : at(k) \in 0 .. n - 1
  OBVIOUS
<1>2. ASSUME NEW v \in 0 .. n - 1 PROVE \E k \in 1 .. n + 2 : at(k) = v
  <2>1. CASE n = 1
    BY <2>1
  <2>2. CASE n = 2 
    <3>1. CASE lost \in 1 .. 2
      <4>1. at(3) = (first + 3) % 2 /\ at(4) = (first + 4) % 2
        BY <2>2, <3>1
      <4> QED
        BY <2>2, <4>1
    <3>2. CASE lost \in 3 .. 4
      <4>1. at(1) = first % 2 /\ at(2) = (first + 1) % 2
        BY <2>2, <3>2
      <4> QED
        BY <2>2, <4>1
    <3> QED
      BY <2>2, <3>1, <3>2
  <2>3. CASE n = 3
    <3>1. CASE lost \in 1 .. 3
      <4>1. at(3) = (first + 3) % 3 /\ at(4) = (first + 4) % 3 /\ at(5) = (first + 5) % 3
        BY <2>3, <3>1
      <4> QED
        BY <2>3, <4>1
    <3>2. CASE lost \in 4 .. 5
      <4>1. at(1) = first % 3 /\ at(2) = (first + 1) % 3 /\ at(3) = (first + 2) % 3
        BY <2>3, <3>2
      <4> QED
        BY <2>3, <4>1
    <3> QED
      BY <2>3, <3>1, <3>2
  <2> QED
    BY <2>1, <2>2, <2>3
<1>3. SectionsRead(n, first, lost) = {at(k) : k \in 1 .. n + 2}
  BY DEF SectionsRead, MaxReads, Arrival
<1> HIDE DEF at
<1> QED
  BY <1>1, <1>2, <1>3 DEF Complete

\* A scan that ended in a missing section met a long table
LEMMA ShortTablesNext ==
  ASSUME ScanAssumption, AirAssumption, ScanInv, ShortTablesWhole, [Next]_vars
  PROVE  ShortTablesWhole'
<1>1. CASE UNCHANGED vars
  BY <1>1 DEF vars, ShortTablesWhole
<1>2. CASE Next /\ ~TableTorn
  <2>1. fault = "none" /\ fault' = fault
    BY Zenon, <1>2 DEF Next, StartList, ScanInitial, EndList, ScanRefused, ScanTables, NitKnown, NitTune,
                NitReturn, InitialReturn, EndFrontend, WriteFile
  <2> QED
    BY <2>1 DEF ShortTablesWhole
<1>3. CASE TableTorn
  <2> DEFINE N == {Len(cur.mux.pat), Len(cur.mux.sdt), Len(cur.mux.nit)}
  <2>1. /\ pc = "tables" /\ cur' = cur
        /\ \E n \in N : \E first \in 0 .. n - 1, lost \in 1 .. MaxReads(n) : ~Complete(n, first, lost)
    BY <1>3 DEF TableTorn
  <2>2. cur.mux \in air.muxes /\ air \in Airs
    BY <2>1 DEF ScanInv, ControlInv, StateInv
  <2>3. N \subseteq Nat
    BY <2>2, SeqIs DEF AirAssumption
  <2> HIDE DEF N
  <2>4. PICK n \in N : \E first \in 0 .. n - 1, lost \in 1 .. MaxReads(n) : ~Complete(n, first, lost)
    BY <2>1
  <2>5. PICK first \in 0 .. n - 1, lost \in 1 .. MaxReads(n) : ~Complete(n, first, lost)
    BY <2>4
  <2>6. n > 3
    <3>1. n \in Nat /\ n # 0
      BY <2>3, <2>5
    <3>2. lost \in 1 .. n + 2
      BY <2>5 DEF MaxReads
    <3>3. n \notin 1 .. 3
      BY <2>5, <3>2, ShortTables
    <3> QED
      BY <3>1, <3>3
  <2> QED
    BY <2>1, <2>6 DEF ShortTablesWhole, N
<1> QED
  BY <1>1, <1>2, <1>3

\* No read that is lost leaves the parser without a section of a table of up to three
\* sections: only a longer one can end the scan (Table::read in dvb/Section.cpp, which
\* reads two sections more than there are).
THEOREM ShortTablesAreWhole == Spec => []ShortTablesWhole
<1>1. Init => ShortTablesWhole
  BY DEF Init, ShortTablesWhole
<1>2. ShortTablesWhole /\ ScanInv /\ [Next]_vars => ShortTablesWhole'
  BY ScanAssumption, AirAssumption, ShortTablesNext
<1> QED
  BY <1>1, <1>2, ScanInvariant, PTL DEF Spec

-------------------------------------------------------------------------------
(* What is read of the tables *)

\* Where the entries of a section end
Ends(g, entries, n) ==
  /\ DOMAIN g = 0 .. n /\ g[0] = 0
  /\ \A k \in 1 .. n : g[k] = g[k - 1] + EntrySize(entries[k])

\* The equation of SdtRead has a solution, in numbers
LEMMA EndsEquation ==
  ASSUME NEW entries, Len(entries) \in Nat, \A k \in 1 .. Len(entries) : entries[k].size \in Nat
  PROVE  \E g : /\ Ends(g, entries, Len(entries)) /\ \A k \in 0 .. Len(entries) : g[k] \in Nat
                /\ SdtRead(entries) = SubSeq(entries, 1,
                     Cardinality({k \in DOMAIN entries : g[k - 1] + 11 < g[Len(entries)]}))
<1> DEFINE N == Len(entries)
           Has(n) == \E g : Ends(g, entries, n) /\ \A k \in 0 .. n : g[k] \in Nat
           T == {n \in 0 .. N : ~Has(n)}
<1>0. \A k \in 1 .. N : EntrySize(entries[k]) \in Nat
  BY DEF EntrySize
<1>1. Has(0)
  <2>1. Ends([k \in 0 .. 0 |-> 0], entries, 0)
    BY DEF Ends
  <2> QED
    BY <2>1
<1>2. ASSUME NEW n \in 1 .. N, Has(n - 1) PROVE Has(n)
  <2>1. PICK g : Ends(g, entries, n - 1) /\ \A k \in 0 .. n - 1 : g[k] \in Nat
    BY <1>2
  <2> DEFINE h == [k \in 0 .. n |-> IF k = n THEN g[n - 1] + EntrySize(entries[n]) ELSE g[k]]
  <2>2. DOMAIN h = 0 .. n /\ h[0] = 0 /\ h[n - 1] = g[n - 1]
    BY <2>1 DEF Ends
  <2>3. h[n] = h[n - 1] + EntrySize(entries[n])
    BY <2>2
  <2>4. ASSUME NEW k \in 1 .. n - 1
        PROVE  h[k] = h[k - 1] + EntrySize(entries[k])
    BY <2>1 DEF Ends
  <2>5. \A k \in 0 .. n : h[k] \in Nat
    <3>1. g[n - 1] + EntrySize(entries[n]) \in Nat
      BY <1>0, <2>1
    <3> QED
      BY <2>1, <3>1
  <2> HIDE DEF h
  <2>6. \A k \in 1 .. n : k = n \/ k \in 1 .. n - 1
    OBVIOUS
  <2>7. Ends(h, entries, n)
    BY <2>2, <2>3, <2>4, <2>6 DEF Ends
  <2> QED
    BY <2>5, <2>7
<1> HIDE DEF Has
<1>3. T = {}
  <2>1. T \in SUBSET (0 .. N) /\ 0 \notin T
    BY <1>1
  <2>2. \A n \in 1 .. N : n \in T => n - 1 \in T
    BY <1>2
  <2>3. N \in Nat
    OBVIOUS
  <2> HIDE DEF T, N
  <2> QED
    BY <2>1, <2>2, <2>3, Upwards
<1>4. PICK g : Ends(g, entries, N) /\ \A k \in 0 .. N : g[k] \in Nat
  BY <1>3 DEF T, Has
<1> DEFINE step(h) == [k \in 0 .. N |-> IF k = 0 THEN 0 ELSE h[k - 1] + EntrySize(entries[k])]
           r == [k \in 0 .. N |-> g[k]]
<1>5. r = step(r)
  <2>0. r[0] = 0 /\ \A k \in 1 .. N : r[k] = g[k] /\ r[k - 1] = g[k - 1]
    BY <1>4 DEF Ends
  <2>1. ASSUME NEW k \in 0 .. N
        PROVE  r[k] = IF k = 0 THEN 0 ELSE r[k - 1] + EntrySize(entries[k])
    <3> HIDE DEF r
    <3>1. CASE k = 0
      BY <2>0, <3>1
    <3>2. CASE k # 0
      <4>1. k \in 1 .. N
        BY <3>2
      <4> QED
        BY <2>0, <4>1, <3>2, <1>4 DEF Ends
    <3> QED
      BY <3>1, <3>2
  <2> QED
    BY <2>1
<1> DEFINE ends == CHOOSE h : h = step(h)
<1>6. ends = step(ends)
  BY <1>5
<1>7. SdtRead(entries) =
        SubSeq(entries, 1, Cardinality({k \in DOMAIN entries : ends[k - 1] + 11 < ends[N]}))
  BY DEF SdtRead
<1> HIDE DEF ends
<1>8. Ends(ends, entries, N)
  <2>1. DOMAIN ends = 0 .. N
    BY <1>6
  <2>2. \A k \in 0 .. N : ends[k] = IF k = 0 THEN 0 ELSE ends[k - 1] + EntrySize(entries[k])
    BY <1>6
  <2>3. 0 \in 0 .. N /\ \A k \in 1 .. N : k \in 0 .. N /\ k # 0
    OBVIOUS
  <2>4. ends[0] = 0
    BY <2>2, <2>3
  <2>5. \A k \in 1 .. N : ends[k] = ends[k - 1] + EntrySize(entries[k])
    BY <2>2, <2>3
  <2> QED
    BY <2>1, <2>4, <2>5 DEF Ends
<1>9. \A k \in 0 .. N : ends[k] \in Nat
  <2> DEFINE B == {n \in 0 .. N : ends[n] \notin Nat}
  <2>1. B \in SUBSET (0 .. N) /\ 0 \notin B
    BY <1>8 DEF Ends
  <2>2. \A n \in 1 .. N : n \in B => n - 1 \in B
    <3>1. \A n \in 1 .. N : ends[n] = ends[n - 1] + EntrySize(entries[n]) /\ n - 1 \in 0 .. N
      BY <1>8 DEF Ends
    <3> QED
      BY <1>0, <3>1
  <2>3. N \in Nat
    OBVIOUS
  <2>4. B = {}
    <3> HIDE DEF B, N
    <3> QED
      BY <2>1, <2>2, <2>3, Upwards
  <2> QED
    BY <2>4
<1> QED
  BY <1>7, <1>8, <1>9

\* A section that ends with an entry of twelve bytes or more is read to its end
LEMMA SdtReadsAll ==
  ASSUME NEW entries, IsSeq(entries), \A k \in DOMAIN entries : entries[k].size \in Nat,
         entries # <<>> => EntrySize(Last(entries)) >= 12
  PROVE  SdtRead(entries) = entries
<1> DEFINE N == Len(entries)
<1>1. N \in Nat /\ DOMAIN entries = 1 .. N /\ (entries = <<>> <=> N = 0)
  BY SeqIs
<1>2. PICK g : /\ Ends(g, entries, N) /\ \A k \in 0 .. N : g[k] \in Nat
               /\ SdtRead(entries) =
                    SubSeq(entries, 1, Cardinality({k \in DOMAIN entries : g[k - 1] + 11 < g[N]}))
  BY <1>1, EndsEquation
<1> HIDE DEF N
<1>3. \A k \in 1 .. N : EntrySize(entries[k]) \in Nat /\ g[k] = g[k - 1] + EntrySize(entries[k])
  <2>1. \A k \in 1 .. N : g[k] = g[k - 1] + EntrySize(entries[k])
    BY <1>2 DEF Ends
  <2>2. \A k \in 1 .. N : EntrySize(entries[k]) \in Nat
    BY <1>1 DEF EntrySize
  <2> QED
    BY <2>1, <2>2
<1>4. ASSUME N # 0
      PROVE  \A k \in 1 .. N : g[k - 1] + 11 < g[N]
  <2> DEFINE B == {n \in 0 .. N - 1 : ~(g[N - 1 - n] <= g[N - 1])}
             M == N - 1
  <2>1. M \in Nat
    BY <1>1, <1>4
  <2>2. B \in SUBSET (0 .. M) /\ 0 \notin B
    <3>1. N - 1 - 0 = N - 1 /\ N - 1 \in 0 .. N
      BY <1>1, <2>1
    <3>2. g[N - 1] <= g[N - 1]
      BY <1>2, <3>1
    <3> QED
      BY <3>1, <3>2
  <2>3. ASSUME NEW n \in 1 .. M, n \in B PROVE n - 1 \in B
    <3>1. /\ N - n \in 1 .. N /\ N - n \in 0 .. N /\ N - 1 \in 0 .. N /\ N - 1 - n \in 0 .. N
          /\ (N - n) - 1 = N - 1 - n /\ N - 1 - (n - 1) = N - n
      BY <1>1, <2>1, <2>3
    <3>2. g[N - n] = g[N - 1 - n] + EntrySize(entries[N - n])
      BY <1>3, <3>1
    <3>3. g[N - 1 - n] <= g[N - n]
      BY <1>2, <1>3, <3>1, <3>2
    <3>4. ~(g[N - n] <= g[N - 1])
      BY <1>2, <2>3, <3>1, <3>3
    <3> QED
      BY <3>1, <3>4, <2>1
  <2>4. B = {}
    <3> HIDE DEF B, M
    <3> QED
      BY <2>1, <2>2, <2>3, Upwards
  <2>5. g[N] >= g[N - 1] + 12
    <3>1. Last(entries) = entries[N] /\ N \in 1 .. N
      BY <1>1, <1>4 DEF Last, N
    <3> QED
      BY <1>1, <1>2, <1>3, <1>4, <3>1
  <2>6. ASSUME NEW k \in 1 .. N PROVE g[k - 1] + 11 < g[N]
    <3>1. N - k \in 0 .. N - 1 /\ N - 1 - (N - k) = k - 1
      BY <1>1
    <3>2. g[k - 1] <= g[N - 1]
      BY <2>4, <3>1
    <3>3. g[k - 1] \in Nat /\ g[N - 1] \in Nat /\ g[N] \in Nat
      BY <1>1, <1>2, <1>4
    <3> QED
      BY <2>5, <3>2, <3>3
  <2> QED
    BY <2>6
<1>5. {k \in DOMAIN entries : g[k - 1] + 11 < g[N]} = 1 .. N
  <2>1. CASE N = 0
    BY <1>1, <2>1
  <2>2. CASE N # 0
    BY <1>1, <1>4, <2>2
  <2> QED
    BY <2>1, <2>2
<1>6. Cardinality(1 .. N) = N
  BY <1>1, FS_Interval
<1>7. SdtRead(entries) = SubSeq(entries, 1, N)
  BY <1>2, <1>5, <1>6
<1> DEFINE s == SubSeq(entries, 1, N)
<1>8. IsSeq(s) /\ Len(s) = N /\ \A k \in 1 .. N : s[k] = entries[k]
  BY <1>1, FirstsAre DEF N
<1> HIDE DEF s
<1>9. entries = s
  BY <1>1, <1>8, SameSeq DEF N
<1> QED
  BY <1>7, <1>9 DEF s

\* What the loops make of a programme and its entries in the SDT
ReadService(m, pmt, p) ==
  Described(Scanned(p, m, pmt), Those(Flat(m.sdt), LAMBDA e : e.sid = p.sid))

\* The tables of an air
LEMMA AirTables ==
  ASSUME AirAssumption, air \in Airs, NEW m \in air.muxes
  PROVE  /\ IsSeq(m.pat) /\ Len(m.pat) > 0 /\ \A k \in DOMAIN m.pat : IsSeq(m.pat[k])
         /\ \A k \in DOMAIN m.pat : \A j \in DOMAIN m.pat[k] : m.pat[k][j].sid # 0 =>
              m.pat[k][j].pmtid \in DOMAIN m.pmt /\ m.pmt[m.pat[k][j].pmtid] # <<>>
         /\ \A pid \in DOMAIN m.pmt :
              /\ IsSeq(m.pmt[pid])
              /\ \A k \in DOMAIN m.pmt[pid] :
                   IsSeq(m.pmt[pid][k]) /\ \A j \in DOMAIN m.pmt[pid][k] : IsSeq(m.pmt[pid][k][j].streams)
         /\ IsSeq(m.sdt)
         /\ \A k \in DOMAIN m.sdt :
              /\ IsSeq(m.sdt[k])
              /\ \A j \in DOMAIN m.sdt[k] : m.sdt[k][j].size \in Nat /\ IsSeq(m.sdt[k][j].descriptors)
         /\ IsSeq(m.nit)
         /\ \A k \in DOMAIN m.nit :
              IsSeq(m.nit[k]) /\ \A j \in DOMAIN m.nit[k] : IsSeq(m.nit[k][j].descriptors)
BY DEF AirAssumption

\* The programmes of a multiplex whose PAT is one section
LEMMA ProgramsAre ==
  ASSUME AirAssumption, air \in Airs, NEW m \in air.muxes
  PROVE  /\ IsSeq(Programs(m))
         /\ \A k \in DOMAIN Programs(m) : Programs(m)[k].sid # 0 /\
              \E j \in DOMAIN m.pat[1] : Programs(m)[k] = m.pat[1][j]
         /\ Len(m.pat) = 1 => ProgramsOf(m) = Programs(m)
         /\ \A k \in DOMAIN Programs(m) :
              Programs(m)[k].pmtid \in DOMAIN m.pmt /\ m.pmt[Programs(m)[k].pmtid] # <<>>
<1> DEFINE s == m.pat[1]
           K == {j \in DOMAIN s : s[j].sid # 0}
           ps == Picked(s, K)
<1>0. 1 \in DOMAIN m.pat
  <2>1. IsSeq(m.pat) /\ Len(m.pat) > 0
    BY AirTables
  <2>2. DOMAIN m.pat = 1 .. Len(m.pat) /\ Len(m.pat) \in Nat
    BY <2>1, SeqIs
  <2> QED
    BY <2>1, <2>2
<1>1. IsSeq(s) /\ \A j \in DOMAIN s : s[j].sid # 0 =>
          s[j].pmtid \in DOMAIN m.pmt /\ m.pmt[s[j].pmtid] # <<>>
  BY <1>0, AirTables
<1>2. Programs(m) = ps
  BY DEF Programs, Those
<1>3. ASSUME Len(m.pat) = 1 PROVE ProgramsOf(m) = Programs(m)
  <2>1. Flat(m.pat) = s
    BY <1>0, <1>3, AirTables, FlatOne
  <2> QED
    BY <2>1 DEF Programs, ProgramsOf
<1> HIDE DEF s, K
<1> DEFINE S == DOMAIN Picked(s, K)
           T == K \cap DOMAIN s
<1>4. PICK f \in Bijection(S, T) : \A j \in S : Picked(s, K)[j] = s[f[j]]
  BY <1>1, PickedIs
<1>5. f \in [S -> T]
  <2> HIDE DEF S, T
  <2> QED
    BY <1>4, Fun_BijectionProperties
<1>11. \A j \in K : s[j].sid # 0
  BY DEF K
<1>6. ASSUME NEW k \in DOMAIN ps PROVE ps[k].sid # 0 /\ \E j \in DOMAIN s : ps[k] = s[j]
  <2>1. k \in S /\ f[k] \in K /\ f[k] \in DOMAIN s /\ ps[k] = s[f[k]]
    BY <1>4, <1>5
  <2> HIDE DEF ps, S
  <2> QED
    BY <1>11, <2>1
<1>7. IsSeq(ps)
  BY <1>1, PickedIs
<1> HIDE DEF ps
<1>8. ASSUME NEW k \in DOMAIN ps PROVE ps[k].pmtid \in DOMAIN m.pmt /\ m.pmt[ps[k].pmtid] # <<>>
  BY <1>1, <1>6
<1> QED
  BY <1>2, <1>3, <1>6, <1>7, <1>8 DEF s

\* The PAT is one section
LEMMA PatIsOne ==
  ASSUME AirAssumption, air \in Airs, NEW m \in air.muxes, ~Odd(m)
  PROVE  Len(m.pat) = 1
<1>1. Len(m.pat) \in Nat /\ Len(m.pat) > 0
  BY AirTables, SeqIs
<1>2. ~(Len(m.pat) > 1)
  BY DEF Odd
<1> DEFINE n == Len(m.pat)
<1>3. n \in Nat /\ n > 0 /\ ~(n > 1)
  BY <1>1, <1>2
<1> HIDE DEF n
<1>4. n = 1
  BY <1>3
<1> QED
  BY <1>4 DEF n

\* The entries of the SDT are read
LEMMA SdtIsRead ==
  ASSUME AirAssumption, air \in Airs, NEW m \in air.muxes, ~Odd(m)
  PROVE  IsSeq(Flat(m.sdt)) /\ Flat(Map(SdtRead, m.sdt)) = Flat(m.sdt)
<1> DEFINE read == [k \in DOMAIN m.sdt |-> SdtRead(m.sdt[k])]
           s == m.sdt
<1>1. IsSeq(s) /\ \A k \in DOMAIN s :
        IsSeq(s[k]) /\ \A j \in DOMAIN s[k] : s[k][j].size \in Nat /\ IsSeq(s[k][j].descriptors)
  BY AirTables
<1>2. \A k \in DOMAIN s : SdtRead(s[k]) = s[k]
  <2> SUFFICES ASSUME NEW k \in DOMAIN s PROVE SdtRead(s[k]) = s[k]
    OBVIOUS
  <2>1. s[k] # <<>> => ~(EntrySize(Last(s[k])) < 12)
    BY DEF Odd, ToSet
  <2>2. s[k] # <<>> => EntrySize(Last(s[k])) \in Nat
    <3> SUFFICES ASSUME s[k] # <<>> PROVE EntrySize(Last(s[k])) \in Nat
      OBVIOUS
    <3> DEFINE t == s[k]
    <3>1. DOMAIN t = 1 .. Len(t) /\ Len(t) \in Nat /\ Len(t) # 0
      BY <1>1, SeqIs
    <3>2. Last(t) = t[Len(t)] /\ Len(t) \in DOMAIN t
      BY <3>1 DEF Last
    <3>3. Last(t).size \in Nat
      BY <1>1, <3>2
    <3> QED
      BY <3>3 DEF EntrySize
  <2>3. s[k] # <<>> => EntrySize(Last(s[k])) >= 12
    BY <2>1, <2>2
  <2> QED
    BY <1>1, <2>3, SdtReadsAll
<1>3. read = [k \in DOMAIN s |-> s[k]]
  BY <1>2
<1>4. s = [k \in DOMAIN s |-> s[k]]
  <2> DEFINE t == [k \in DOMAIN s |-> s[k]]
  <2>1. t = [k \in DOMAIN s |-> t[k]] /\ DOMAIN t = DOMAIN s /\ \A k \in DOMAIN s : s[k] = t[k]
    OBVIOUS
  <2> HIDE DEF t, s
  <2>2. IsSeq(t) /\ Len(t) = Len(s)
    BY <1>1, <2>1, FunIs
  <2>3. s = t
    BY <1>1, <2>1, <2>2, SameSeq
  <2> QED
    BY <2>3 DEF t
<1>5. Map(SdtRead, s) = <<>> \o s
  BY <1>3, <1>4 DEF Map
<1>6. <<>> \o s = s
  <2> HIDE DEF s
  <2> QED
    BY <1>1, <1>4, FunIs
<1> QED
  BY <1>1, <1>5, <1>6, FlatElements

\* The tables of a programme leave its number
LEMMA ScannedSid ==
  ASSUME NEW m, NEW pmt, NEW p
  PROVE  Scanned(p, m, pmt).sid = p.sid
<1>1. NewService(p).sid = p.sid
  BY DEF NewService
<1> DEFINE sections == m.pmt[p.pmtid][pmt[p.pmtid]]
           new == NewService(p)
           with == WithPmt(new, sections)
<1>2. with.sid = p.sid
  <2> DEFINE stream(s) == [type |-> streamTypeToString(s.code), pid |-> s.pid]
             each(s) == Map(stream, s.streams) \o <<[type |-> "programMapTable", pid |-> new.pmtid]>>
             streams == Flat(Map(each, sections))
             pcr == IF sections = <<>> THEN new.pcr ELSE Last(sections).pcr
  <2>1. with = [new EXCEPT !.streams = streams, !.pcr = pcr]
    BY Zenon DEF WithPmt, NewService
  <2>2. DOMAIN new = {"name", "sid", "pmtid", "streams", "pcr", "status", "scrambled", "provider", "type"}
    BY DEF NewService
  <2> HIDE DEF new, with, streams, pcr
  <2>3. with.sid = new.sid
    BY <2>1, <2>2
  <2> QED
    BY <1>1, <2>3 DEF new
<1> QED
  BY <1>1, <1>2 DEF Scanned

\* The fields of a service
Fields(name, sid, pmtid, streams, pcr, status, scrambled, provider, type) ==
  [name |-> name, sid |-> sid, pmtid |-> pmtid, streams |-> streams, pcr |-> pcr,
   status |-> status, scrambled |-> scrambled, provider |-> provider, type |-> type]

\* The services of one SDT and PMT are what the standards mean
LEMMA ServiceIsTrue ==
  ASSUME AirAssumption, air \in Airs, NEW m \in air.muxes, late = {}, Standard(m), ~Odd(m),
         NEW pmt \in FirstPmts(m), NEW i \in DOMAIN Programs(m)
  PROVE  ReadService(m, pmt, Programs(m)[i]) = TrueService(m, Programs(m)[i])
<1> DEFINE p == Programs(m)[i]
           E == Flat(m.sdt)
           tables == m.pmt[p.pmtid]
           section == tables[1][1]
           stream(s) == [type |-> streamTypeToString(s.code), pid |-> s.pid]
           streams == Map(stream, section.streams) \o <<[type |-> "programMapTable", pid |-> p.pmtid]>>
<1>0. Len(m.pat) = 1
  BY PatIsOne
<1>1. p \in ToSet(ProgramsOf(m)) /\ p.pmtid \in DOMAIN m.pmt /\ tables # <<>>
  BY <1>0, ProgramsAre DEF ToSet
<1>2. IsSeq(tables) /\ Len(tables) = 1 /\ 1 \in DOMAIN tables /\ DOMAIN tables = {1}
  <2>1. IsSeq(tables) /\ ~(Len(tables) > 1)
    BY <1>1, AirTables DEF Odd
  <2>2. Len(tables) \in Nat /\ DOMAIN tables = 1 .. Len(tables) /\ Len(tables) # 0
    BY <1>1, <2>1, SeqIs
  <2> DEFINE n == Len(tables)
  <2>4. n \in Nat /\ n # 0 /\ ~(n > 1)
    BY <2>1, <2>2
  <2>3. Len(tables) = 1
    <3> HIDE DEF n
    <3>1. n = 1
      BY SMTT(30), <2>4
    <3> QED
      BY <3>1 DEF n
  <2> QED
    BY <2>1, <2>2, <2>3
<1>3. IsSeq(tables[1]) /\ Len(tables[1]) = 1 /\ IsSeq(section.streams) /\ section.sid = p.sid
      /\ DOMAIN tables[1] = {1}
  <2>1. IsSeq(tables[1])
    BY <1>1, <1>2, AirTables
  <2>2. Len(tables[1]) = 1
    BY <1>1, <1>2 DEF Standard, ToSet
  <2>3. DOMAIN tables[1] = {1}
    BY <2>1, <2>2, SeqIs
  <2>4. IsSeq(section.streams)
    BY <1>1, <1>2, <2>3, AirTables
  <2>5. section.sid = p.sid
    <3>1. Once(tables, LAMBDA t : t[1].sid = p.sid)
      BY <1>1 DEF Standard
    <3> QED
      BY <1>2, <3>1 DEF Once
  <2> QED
    BY <2>1, <2>2, <2>3, <2>4, <2>5
<1>4. pmt[p.pmtid] = 1
  BY <1>1, <1>2 DEF FirstPmts
<1>5. section = CHOOSE s \in UNION {ToSet(t) : t \in ToSet(tables)} : s.sid = p.sid
  <2>1. UNION {ToSet(t) : t \in ToSet(tables)} = {section}
    <3>1. ToSet(tables) = {tables[1]} /\ ToSet(tables[1]) = {section}
      BY Zenon, <1>2, <1>3 DEF ToSet
    <3> QED
      BY <3>1
  <2> QED
    BY Zenon, <1>3, <2>1
<1>6. Scanned(p, m, pmt) =
        Fields(<<>>, p.sid, p.pmtid, streams, section.pcr, "", FALSE, "", "")
  <2>1. Timely("PMT")
    BY DEF Timely
  <2> DEFINE table == tables[1]
             each(s) == Map(stream, s.streams) \o <<[type |-> "programMapTable", pid |-> p.pmtid]>>
             all == [k \in DOMAIN table |-> each(table[k])]
  <2>2. Scanned(p, m, pmt) = WithPmt(NewService(p), table)
    BY <1>4, <2>1 DEF Scanned
  <2>3. NewService(p).pmtid = p.pmtid
    BY DEF NewService
  <2>4. IsSeq(all) /\ Len(all) = 1 /\ <<>> \o all = all /\ all[1] = streams
    <3>1. all[1] = streams
      BY Zenon, <1>3
    <3>2. all = [k \in DOMAIN table |-> all[k]]
      BY Zenon
    <3> HIDE DEF all
    <3>3. IsSeq(all) /\ Len(all) = Len(table) /\ <<>> \o all = all
      BY Zenon, <1>3, <3>2, FunIs
    <3> QED
      BY Zenon, <1>3, <3>1, <3>3
  <2>5. IsSeq(streams)
    <3> DEFINE g == [k \in DOMAIN section.streams |-> stream(section.streams[k])]
               one == <<[type |-> "programMapTable", pid |-> p.pmtid]>>
    <3>1. g = [k \in DOMAIN section.streams |-> g[k]]
      BY Zenon
    <3>2. IsSeq(g) /\ <<>> \o g = g
      <4> HIDE DEF g
      <4> QED
        BY Zenon, <1>3, <3>1, FunIs
    <3>3. IsSeq(one)
      BY OneIs
    <3>4. streams = (<<>> \o g) \o one
      BY DEF Map
    <3>5. IsSeq(g \o one)
      <4> HIDE DEF g, one
      <4> QED
        BY <3>2, <3>3, ConcatIs
    <3>6. streams = g \o one
      <4> HIDE DEF g, one
      <4> QED
        BY Zenon, <3>2, <3>4
    <3> HIDE DEF g, one, streams
    <3> QED
      BY <3>5, <3>6
  <2>6. Map(each, table) = all
    <3>1. Map(each, table) = <<>> \o all
      BY DEF Map
    <3> QED
      BY Zenon, <2>4, <3>1
  <2>7. Flat(Map(each, table)) = streams
    <3> HIDE DEF all, streams, each
    <3> QED
      BY <2>4, <2>5, <2>6, FlatOne
  <2>8. table # <<>> /\ Last(table) = section
    <3>1. Last(table) = table[1]
      BY Zenon, <1>3 DEF Last
    <3>2. IsSeq(table) /\ Len(table) = 1
      BY Zenon, <1>3
    <3>3. table # <<>>
      <4> HIDE DEF table
      <4>1. Len(table) # 0
        BY <3>2
      <4> QED
        BY <3>2, <4>1, SeqIs
    <3> QED
      BY <3>1, <3>3
  <2>9. WithPmt(NewService(p), table) =
          [NewService(p) EXCEPT !.streams = streams, !.pcr = section.pcr]
    BY Zenon, <2>3, <2>7, <2>8 DEF WithPmt, Map
  <2> DEFINE sid == p.sid
             pid == p.pmtid
             pcr == section.pcr
             none == <<>>
             empty == ""
             no == FALSE
             zero == 0
             before == Fields(none, sid, pid, none, zero, empty, no, empty, empty)
             with == [before EXCEPT !.streams = streams]
  <2>10. NewService(p) = before
    BY DEF NewService, Fields
  <2> HIDE DEF streams, section, p, sid, pid, pcr, none, empty, no, zero
  <2>11. with = Fields(none, sid, pid, streams, zero, empty, no, empty, empty)
    BY DEF Fields
  <2>12. [with EXCEPT !.pcr = pcr] = Fields(none, sid, pid, streams, pcr, empty, no, empty, empty)
    <3> HIDE DEF with
    <3> QED
      BY <2>11 DEF Fields
  <2> HIDE DEF before
  <2>13. [before EXCEPT !.streams = streams, !.pcr = pcr] = [with EXCEPT !.pcr = pcr]
    OBVIOUS
  <2>14. Scanned(p, m, pmt) = Fields(none, sid, pid, streams, pcr, empty, no, empty, empty)
    BY <2>2, <2>9, <2>10, <2>12, <2>13 DEF pcr
  <2> QED
    BY Zenon, <2>14 DEF sid, pid, pcr, none, empty, no, zero
<1> DEFINE of == {k \in DOMAIN E : E[k].sid = p.sid}
<1>7. IsSeq(E) /\ Flat(Map(SdtRead, m.sdt)) = E
  BY SdtIsRead
<1>8. PICK e \in DOMAIN E : \A j \in DOMAIN E : E[j].sid = p.sid <=> j = e
  <2>1. Once(E, LAMBDA x : x.sid = p.sid)
    BY <1>1 DEF Standard
  <2> HIDE DEF E, p
  <2> QED
    BY <2>1 DEF Once
<1> DEFINE entry == E[e]
           ds == entry.descriptors
<1>9. entry = CHOOSE x \in ToSet(E) : x.sid = p.sid
  BY <1>8 DEF ToSet
<1>10. Those(E, LAMBDA x : x.sid = p.sid) = <<entry>>
  <2>1. of = {e} /\ of \cap DOMAIN E = {e}
    BY <1>8
  <2>2. Those(E, LAMBDA x : x.sid = p.sid) = Picked(E, of)
    BY DEF Those
  <2> HIDE DEF E, of
  <2> QED
    BY <1>7, <1>8, <2>1, <2>2, PickedOne
<1>11. IsSeq(ds) /\ Descriptors(ds) = ds
  <2>1. \E a \in DOMAIN m.sdt : \E b \in DOMAIN m.sdt[a] : entry = m.sdt[a][b]
    <3>1. IsSeq(m.sdt) /\ \A k \in DOMAIN m.sdt : IsSeq(m.sdt[k])
      BY AirTables
    <3> QED
      BY <3>1, <1>8, FlatElements
  <2>2. IsSeq(ds)
    BY <2>1, AirTables
  <2>3. Descriptors(ds) = ds
    BY <1>8 DEF Odd, ToSet
  <2> QED
    BY <2>2, <2>3
<1>12. PICK d \in DOMAIN ds : \A j \in DOMAIN ds : ds[j].tag = ServiceTag <=> j = d
  <2>1. Once(ds, LAMBDA x : x.tag = ServiceTag)
    BY <1>1, <1>8 DEF Standard, ToSet
  <2> HIDE DEF ds
  <2> QED
    BY <2>1 DEF Once
<1> DEFINE named == ds[d]
<1>13. named = CHOOSE x \in ToSet(ds) : x.tag = ServiceTag
  BY <1>12 DEF ToSet
<1>14. Those(ds, LAMBDA x : x.tag = ServiceTag) = <<named>>
  <2> DEFINE K == {k \in DOMAIN ds : ds[k].tag = ServiceTag}
  <2>1. K = {d} /\ K \cap DOMAIN ds = {d}
    BY <1>12
  <2>2. Those(ds, LAMBDA x : x.tag = ServiceTag) = Picked(ds, K)
    BY DEF Those
  <2> HIDE DEF ds, K
  <2> QED
    BY <1>11, <1>12, <2>1, <2>2, PickedOne
<1> DEFINE scanned == Scanned(p, m, pmt)
           taken(x) == Descriptors(x.descriptors)
           one == <<entry>>
           names == Those(Flat(Map(taken, one)), LAMBDA x : x.tag = ServiceTag)
<1>15. names = <<named>>
  <2> DEFINE g == [k \in DOMAIN one |-> taken(one[k])]
  <2>1. IsSeq(one) /\ DOMAIN one = {1} /\ one[1] = entry
    BY OneIs
  <2>2. g = [k \in DOMAIN one |-> g[k]] /\ g[1] = ds
    BY <1>11, <2>1
  <2>3. Map(taken, one) = <<>> \o g
    BY DEF Map
  <2>4. IsSeq(g) /\ Len(g) = 1 /\ <<>> \o g = g
    <3>1. Len(one) = 1
      BY OneIs
    <3> HIDE DEF g, one
    <3> QED
      BY <2>1, <2>2, <3>1, FunIs
  <2>5. Flat(g) = ds
    <3> HIDE DEF g, ds
    <3> QED
      BY <1>11, <2>2, <2>4, FlatOne
  <2>6. Flat(Map(taken, one)) = ds
    BY <2>3, <2>4, <2>5
  <2> HIDE DEF ds, one, taken
  <2> QED
    BY <1>14, <2>6
<1>16. names # <<>> /\ Last(names) = named /\ one # <<>> /\ Last(one) = entry
  <2> HIDE DEF named, entry, names
  <2> QED
    BY <1>15, OneIs
<1>17. ReadService(m, pmt, p) = Described(scanned, one)
  <2>1. Those(Flat(m.sdt), LAMBDA x : x.sid = p.sid) = one
    BY <1>10
  <2> HIDE DEF p, one
  <2> QED
    BY <2>1 DEF ReadService
<1> DEFINE state == [scanned EXCEPT !.status = statusToString(entry.status),
                                    !.scrambled = entry.scrambled]
<1>18. Described(scanned, one) =
         [state EXCEPT !.type = typeToString(named.type), !.provider = named.provider,
                       !.name = named.name]
  <2> HIDE DEF scanned, entry, named
  <2> QED
    BY <1>16 DEF Described
<1> DEFINE sid == p.sid
           pid == p.pmtid
           pcr == section.pcr
           status == statusToString(entry.status)
           scrambled == entry.scrambled
           provider == named.provider
           type == typeToString(named.type)
           name == named.name
           none == <<>>
           empty == ""
           no == FALSE
           true == Fields(name, sid, pid, streams, pcr, status, scrambled, provider, type)
<1>19. [state EXCEPT !.type = type, !.provider = provider, !.name = name] = true
  <2>1. scanned = Fields(none, sid, pid, streams, pcr, empty, no, empty, empty)
    BY Zenon, <1>6
  <2> DEFINE b1 == [scanned EXCEPT !.status = status]
             b2 == [b1 EXCEPT !.scrambled = scrambled]
             b3 == [b2 EXCEPT !.type = type]
             b4 == [b3 EXCEPT !.provider = provider]
  <2> HIDE DEF scanned, p, section, streams, entry, named, sid, pid, pcr, status, scrambled, provider,
               type, name, none, empty, no
  <2>2. b1 = Fields(none, sid, pid, streams, pcr, status, no, empty, empty)
    BY <2>1 DEF Fields
  <2>3. state = b2
    BY DEF status, scrambled
  <2> HIDE DEF b1, state
  <2>4. b2 = Fields(none, sid, pid, streams, pcr, status, scrambled, empty, empty)
    BY <2>2 DEF Fields
  <2> HIDE DEF b2
  <2>5. b3 = Fields(none, sid, pid, streams, pcr, status, scrambled, empty, type)
    BY <2>4 DEF Fields
  <2> HIDE DEF b3
  <2>6. b4 = Fields(none, sid, pid, streams, pcr, status, scrambled, provider, type)
    BY <2>5 DEF Fields
  <2> HIDE DEF b4
  <2>7. [b4 EXCEPT !.name = name] = true
    BY <2>6 DEF Fields
  <2>8. [state EXCEPT !.type = type, !.provider = provider, !.name = name] = [b4 EXCEPT !.name = name]
    BY <2>3 DEF b4, b3
  <2> QED
    BY <2>7, <2>8
<1>20. TrueService(m, p) = true
  BY Zenon, <1>5, <1>9, <1>13 DEF TrueService, Fields
<1>21. [state EXCEPT !.type = typeToString(named.type), !.provider = named.provider,
                     !.name = named.name] = true
  <2> HIDE DEF state, true
  <2> QED
    BY <1>19 DEF type, provider, name
<1>22. ReadService(m, pmt, p) = TrueService(m, p)
  <2> HIDE DEF scanned, p, one, state, true
  <2> QED
    BY Zenon, <1>17, <1>18, <1>20, <1>21
<1> QED
  BY <1>22

\* The services of a transponder are those its tables describe
LEMMA ServicesAreTrue ==
  ASSUME AirAssumption, air \in Airs, NEW m \in air.muxes, late = {}, Standard(m), ~Odd(m),
         NEW pmt \in FirstPmts(m)
  PROVE  ServicesOf(m, pmt) = Truth(m)
<1> DEFINE ps == Programs(m)
           one(p) == Scanned(p, m, pmt)
           scanned == [k \in DOMAIN ps |-> one(ps[k])]
           E == Flat(Map(SdtRead, m.sdt))
           of(k) == Those(E, LAMBDA e : e.sid = scanned[k].sid)
           services == [k \in DOMAIN ps |-> Described(scanned[k], of(k))]
           service(p) == TrueService(m, p)
           true == [k \in DOMAIN ps |-> service(ps[k])]
<1>1. IsSeq(ps) /\ ProgramsOf(m) = ps
  <2>1. Len(m.pat) = 1
    BY PatIsOne
  <2> QED
    BY <2>1, ProgramsAre
<1>2. E = Flat(m.sdt)
  BY SdtIsRead
<1>3. scanned = <<>> \o scanned /\ IsSeq(scanned) /\ DOMAIN scanned = DOMAIN ps
  <2>1. scanned = [k \in DOMAIN ps |-> scanned[k]]
    OBVIOUS
  <2> HIDE DEF scanned, ps
  <2> QED
    BY <1>1, <2>1, FunIs
<1>4. Map(one, ps) = scanned
  BY <1>3 DEF Map
<1>5. \A k \in DOMAIN ps : scanned[k].sid = ps[k].sid
  BY ScannedSid
<1>6. \A j, k \in DOMAIN ps : ps[j].sid = ps[k].sid => j = k
  <2> DEFINE all == ProgramsOf(m)
  <2>1. \A p \in ToSet(all) : Once(all, LAMBDA q : q.sid = p.sid)
    BY DEF Standard
  <2>2. \A p \in ToSet(all) : \E i \in DOMAIN all : \A j \in DOMAIN all : all[j].sid = p.sid <=> j = i
    BY <2>1 DEF Once
  <2> HIDE DEF all
  <2>3. \A j, k \in DOMAIN all : all[j].sid = all[k].sid => j = k
    BY <2>2 DEF ToSet
  <2> HIDE DEF ps
  <2> QED
    BY <1>1, <2>3 DEF all
<1>7. WithSdt(scanned, m) = services
  <2>1. Timely("SDT")
    BY DEF Timely
  <2>2. WithSdt(scanned, m) = WithEntries(scanned, E)
    BY <2>1 DEF WithSdt
  <2>3. \A k \in DOMAIN ps : \A j \in 1 .. k - 1 : scanned[j].sid # scanned[k].sid
    <3> SUFFICES ASSUME NEW k \in DOMAIN ps, NEW j \in 1 .. k - 1
                 PROVE  scanned[j].sid # scanned[k].sid
      OBVIOUS
    <3>1. j \in DOMAIN ps /\ j # k
      <4> HIDE DEF ps
      <4> QED
        BY <1>1, SeqIs
    <3> QED
      BY <1>5, <1>6, <3>1
  <2> DEFINE first(k) == \A j \in 1 .. k - 1 : scanned[j].sid # scanned[k].sid
             with == [k \in DOMAIN scanned |-> IF first(k) THEN Described(scanned[k], of(k)) ELSE scanned[k]]
  <2>4. WithEntries(scanned, E) = with
    <3> HIDE DEF scanned, E
    <3> QED
      BY DEF WithEntries
  <2>5. with = services
    BY <1>3, <2>3
  <2> QED
    BY <2>2, <2>4, <2>5
<1>8. \A k \in DOMAIN ps : services[k] = ReadService(m, pmt, ps[k])
  <2> SUFFICES ASSUME NEW k \in DOMAIN ps PROVE services[k] = ReadService(m, pmt, ps[k])
    OBVIOUS
  <2> DEFINE p == ps[k]
             mine(sid) == Picked(E, {j \in DOMAIN E : E[j].sid = sid})
  <2>1. scanned[k].sid = p.sid /\ scanned[k] = Scanned(p, m, pmt)
    BY <1>5
  <2>2. of(k) = mine(scanned[k].sid)
    BY DEF Those
  <2>3. ReadService(m, pmt, p) = Described(Scanned(p, m, pmt), mine(p.sid))
    BY <1>2 DEF ReadService, Those
  <2>4. services[k] = Described(scanned[k], of(k))
    OBVIOUS
  <2> HIDE DEF mine, of, scanned, services, p
  <2>5. services[k] = ReadService(m, pmt, p)
    BY <2>1, <2>2, <2>3, <2>4
  <2> QED
    BY <2>5 DEF p
<1>9. \A k \in DOMAIN ps : services[k] = TrueService(m, ps[k])
  BY <1>8, ServiceIsTrue
<1>10. services = true
  BY <1>9
<1>11. Truth(m) = <<>> \o true
  BY <1>1 DEF Truth, Map
<1>12. <<>> \o true = true
  <2>1. true = [k \in DOMAIN ps |-> true[k]]
    OBVIOUS
  <2> HIDE DEF true, ps
  <2> QED
    BY <1>1, <2>1, FunIs
<1>13. ServicesOf(m, pmt) = WithSdt(scanned, m)
  BY <1>4 DEF ServicesOf
<1> QED
  BY <1>7, <1>10, <1>11, <1>12, <1>13

-------------------------------------------------------------------------------
(* Addresses that nobody else gets *)

\* The transponders that are found, that are to be tried once more, or whose NIT is being
\* read, and the one that is tried for a NIT. No other object gets the address of one of
\* these, and what waits in the frames is at addresses of its own.
Held == ToSet(found) \cup ToSet(initial) \cup Ats(stack)
Tried == IF pc = "tables" /\ stack # <<>> THEN {cur.at} ELSE {}
HeldInv ==
  /\ Held \cap dangling = {} /\ Tried \cap dangling = {} /\ Held \cap Tried = {}
  /\ \A p \in Waiting(stack) : Address(stack, p) \notin Held \cup Tried \cup dangling
  /\ \A p, q \in Waiting(stack) : Address(stack, p) = Address(stack, q) => p = q

\* Who is held is on the heap
LEMMA HeldAre ==
  ASSUME ScanInv
  PROVE  \A a \in Held : a \in 1 .. Places /\ heap[a] # Nobody
<1>1. \A k \in DOMAIN stack : stack[k].at \in Tracked
  BY DEF ScanInv, StackInv, AreFrames, Tracked
<1>2. Held \subseteq Tracked
  BY <1>1 DEF ScanInv, HeapInv, Tracked, Held, Ats
<1> QED
  BY <1>2 DEF ScanInv, HeapInv

\* When no scanNit is running, nothing waits
LEMMA HeldAlone ==
  ASSUME stack' = <<>>, (ToSet(found') \cup ToSet(initial')) \cap dangling' = {}
  PROVE  HeldInv'
<1>1. DOMAIN <<>> = {}
  BY EmptyIsSeq, SeqIs
<1>2. Waiting(stack') = {} /\ Ats(stack') = {}
  BY <1>1 DEF Waiting, Ats
<1> QED
  BY <1>2 DEF HeldInv, Held, Tried

\* A list begins
LEMMA StartListHolds ==
  ASSUME ScanInv, HeldInv, ScanAssumption, AirAssumption, StartList
  PROVE  HeldInv'
<1> DEFINE new == ListObjects
           places == NewPlaces(Len(new), FALSE)
<1>1. /\ pc = "list" /\ list < Len(ListsOf(front)) /\ HasRoom(Len(new), FALSE)
      /\ initial' = initial \o places
      /\ UNCHANGED <<stack, dangling, found>>
  BY DEF StartList, ListObjects
<1>2. IsSeq(new)
  BY <1>1, ListObjectsAre DEF ScanInv
<1>3. Len(new) \in Nat
  <2> HIDE DEF new
  <2> QED
    BY <1>2, SeqIs
<1> HIDE DEF new
<1>4. IsSeq(places) /\ \A a \in ToSet(places) : heap[a] = Nobody
  BY <1>1, <1>3, FreedAre, NewAre DEF ScanAssumption, ScanInv
<1> HIDE DEF places
<1>5. ToSet(initial') \subseteq ToSet(initial) \cup ToSet(places)
  BY <1>1, <1>4, ConcatSet DEF ScanInv, HeapInv
<1>6. \A a \in ToSet(places) : a \notin dangling
  BY <1>4, FreedAre DEF ScanInv
<1>7. stack' = <<>>
  BY <1>1 DEF ScanInv, ControlInv
<1>8. (ToSet(found') \cup ToSet(initial')) \cap dangling' = {}
  BY <1>1, <1>5, <1>6 DEF HeldInv, Held
<1> QED
  BY <1>7, <1>8, HeldAlone

\* The frontend's lists are the same, and no scanNit is running
LEMMA OutsideHolds ==
  ASSUME ScanInv, HeldInv, ScanInitial \/ EndList \/ InitialReturn \/ EndFrontend \/ WriteFile
  PROVE  HeldInv'
<1>1. CASE ScanInitial \/ EndList \/ WriteFile
  <2>1. UNCHANGED <<found, initial, dangling, stack>> /\ pc \in {"initial", "write"}
    BY <1>1 DEF ScanInitial, EndList, WriteFile, heapvars
  <2>2. stack' = <<>>
    BY <2>1 DEF ScanInv, ControlInv
  <2>3. (ToSet(found') \cup ToSet(initial')) \cap dangling' = {}
    BY <2>1 DEF HeldInv, Held
  <2> QED
    BY <2>2, <2>3, HeldAlone
<1>2. CASE EndFrontend
  <2>1. dangling' = {} /\ UNCHANGED stack /\ pc = "list"
    BY Zenon, <1>2 DEF EndFrontend
  <2>2. stack' = <<>>
    BY <2>1 DEF ScanInv, ControlInv
  <2> QED
    BY <2>1, <2>2, HeldAlone
<1>3. CASE InitialReturn
  <2>1. /\ Len(stack) = 1 /\ stack' = <<>> /\ UNCHANGED <<initial, dangling>>
        /\ found' = found \/ found' = Append(found, Top.at)
    BY <1>3 DEF InitialReturn
  <2>2. 1 \in DOMAIN stack
    BY <2>1, SeqIs DEF ScanInv, StackInv, AreFrames
  <2>3. Top.at \in Held
    BY <2>1, <2>2 DEF Top, Held, Ats
  <2>4. ToSet(found') \subseteq Held
    <3>1. IsSeq(found)
      BY DEF ScanInv, HeapInv
    <3>2. CASE found' = found
      BY <3>2 DEF Held
    <3>3. CASE found' = Append(found, Top.at)
      <4>1. ToSet(found') = ToSet(found) \cup {Top.at}
        BY <3>1, <3>3, AppendSet
      <4> QED
        BY <2>3, <4>1 DEF Held
    <3> QED
      BY <2>1, <3>2, <3>3
  <2>5. (ToSet(found') \cup ToSet(initial')) \cap dangling' = {}
    BY <2>1, <2>4 DEF HeldInv, Held
  <2> QED
    BY <2>1, <2>5, HeldAlone
<1> QED
  BY <1>1, <1>2, <1>3

\* A transponder is refused
LEMMA ScanRefusedHolds ==
  ASSUME ScanInv, HeldInv, ScanRefused
  PROVE  HeldInv'
<1>1. /\ pc = "tables" /\ pc' = "nit"
      /\ IF stack = <<>>
         THEN stack' = <<[at |-> cur.at, rest |-> <<>>]>> /\ UNCHANGED <<heap, dangling>>
         ELSE Delete(cur.at) /\ UNCHANGED stack
      /\ UNCHANGED <<initial, cur, found>>
  BY DEF ScanRefused
<1>2. cur.at \in ToSet(IF stack = <<>> THEN initial ELSE known)
  BY <1>1 DEF ScanInv, ControlInv
<1>3. Tried' = {}
  BY <1>1 DEF Tried
<1>4. CASE stack = <<>>
  <2> DEFINE f == [at |-> cur.at, rest |-> <<>>]
  <2>1. stack' = <<f>> /\ f.at = cur.at /\ f.rest = <<>>
    BY <1>1, <1>4
  <2> HIDE DEF f
  <2>2. DOMAIN <<f>> = {1} /\ <<f>>[1] = f /\ DOMAIN <<>> = {}
    BY OneIs, EmptyIsSeq, SeqIs
  <2>3. Waiting(stack') = {} /\ Ats(stack') = {cur.at}
    BY <2>1, <2>2 DEF Waiting, Ats
  <2>4. Held' \subseteq Held
    BY <1>1, <1>2, <1>4, <2>3 DEF Held
  <2> QED
    BY <1>1, <1>3, <1>4, <2>3, <2>4 DEF HeldInv
<1>5. CASE stack # <<>>
  <2>1. dangling' = dangling \cup {cur.at} /\ stack' = stack
    BY <1>1, <1>2, <1>5 DEF Delete
  <2>2. Held' = Held /\ Tried = {cur.at}
    BY <1>1, <1>5, <2>1 DEF Held, Tried
  <2> QED
    BY <1>3, <2>1, <2>2 DEF HeldInv
<1> QED
  BY <1>4, <1>5

\* The tables are read
LEMMA ScanTablesHolds ==
  ASSUME ScanInv, HeldInv, ScanAssumption, AirAssumption, ScanTables
  PROVE  HeldInv'
<1> DEFINE new == Additional(cur.mux)
<1>1. PICK reuse \in BOOLEAN :
          LET places == NewPlaces(Len(new), reuse)
          IN /\ HasRoom(Len(new), reuse)
             /\ dangling' = dangling \ ToSet(places)
             /\ stack' = Append(stack, [at |-> cur.at, rest |-> places])
  BY DEF ScanTables
<1> DEFINE places == NewPlaces(Len(new), reuse)
<1>2. /\ HasRoom(Len(new), reuse) /\ dangling' = dangling \ ToSet(places)
      /\ stack' = Append(stack, [at |-> cur.at, rest |-> places])
  BY <1>1
<1>3. pc = "tables" /\ pc' = "nit" /\ UNCHANGED <<initial, cur, found>>
  BY DEF ScanTables
<1>4. cur.mux \in air.muxes /\ cur.at \in ToSet(IF stack = <<>> THEN initial ELSE known)
  BY <1>3 DEF ScanInv, ControlInv
<1>5. IsSeq(new)
  BY <1>4, AdditionalAre DEF ScanInv, StateInv
<1> HIDE DEF new
<1>6. Len(new) \in Nat /\ DOMAIN new = 1 .. Len(new)
  BY <1>5, SeqIs
<1>7. /\ IsSeq(places) /\ DOMAIN places = 1 .. Len(new)
      /\ \A a \in ToSet(places) : a \in 1 .. Places /\ (heap[a] = Nobody \/ a \in dangling)
      /\ \A j, k \in DOMAIN places : places[j] = places[k] => j = k
  BY <1>2, <1>6, FreedAre, NewAre DEF ScanAssumption, ScanInv
<1> HIDE DEF places
<1>8. \A a \in ToSet(places) :
         a \in 1 .. Places /\ (a \in ToSet(known) \/ (heap[a] = Nobody /\ a \notin ToSet(initial)))
  BY <1>7 DEF ScanInv, HeapInv, Tracked
<1> DEFINE at == cur.at
           frames == Append(stack, [at |-> at, rest |-> places])
<1>9. /\ Ats(frames) = Ats(stack) \cup {cur.at}
      /\ \A p \in Waiting(frames) :
           (p \in Waiting(stack) /\ Address(frames, p) = Address(stack, p)) \/
           Address(frames, p) \in ToSet(places)
      /\ \A p, q \in Waiting(frames) :
           Address(frames, p) = Address(frames, q) /\ Address(frames, p) \in ToSet(places) =>
             p = q \/ \E r \in Waiting(stack) : Address(stack, r) = Address(frames, p)
  <2>1. StackInv /\ IsSeq(places) /\ at \in ToSet(IF stack = <<>> THEN initial ELSE known)
    BY <1>4, <1>7 DEF ScanInv
  <2>2. \A j, k \in DOMAIN places : places[j] = places[k] => j = k
    BY <1>7
  <2> HIDE DEF at
  <2>3. /\ Ats(frames) = Ats(stack) \cup {at}
        /\ \A p \in Waiting(frames) :
             (p \in Waiting(stack) /\ Address(frames, p) = Address(stack, p)) \/
             Address(frames, p) \in ToSet(places)
        /\ \A p, q \in Waiting(frames) :
             Address(frames, p) = Address(frames, q) /\ Address(frames, p) \in ToSet(places) =>
               p = q \/ \E r \in Waiting(stack) : Address(stack, r) = Address(frames, p)
    BY <1>8, <2>1, <2>2, AppendFrameIs
  <2> QED
    BY <2>3 DEF at
<1>10. stack' = frames
  BY <1>2
<1> HIDE DEF frames
<1>11. cur.at \notin dangling /\ cur.at \in 1 .. Places /\ heap[cur.at] # Nobody
  <2>1. CASE stack = <<>>
    BY <1>4, <2>1, HeldAre DEF HeldInv, Held
  <2>2. CASE stack # <<>>
    BY <1>3, <1>4, <2>2 DEF HeldInv, Tried, ScanInv, HeapInv, Tracked
  <2> QED
    BY <2>1, <2>2
<1>12. Held' = Held \cup {cur.at} /\ Tried' = {}
  BY <1>3, <1>9, <1>10 DEF Held, Tried
<1>13. ToSet(places) \cap (Held \cup {cur.at}) = {}
  BY <1>7, <1>11, HeldAre DEF HeldInv
<1>14. ASSUME NEW r \in Waiting(stack)
       PROVE  /\ Address(stack, r) \notin ToSet(places) /\ Address(stack, r) \notin Held \cup {cur.at} \cup dangling
  <2>1. heap[Address(stack, r)] # Nobody
    BY DEF ScanInv, StackInv, Sound
  <2>2. Address(stack, r) \notin Held \cup Tried \cup dangling
    BY DEF HeldInv
  <2>3. stack # <<>>
    BY EmptyIsSeq, SeqIs DEF Waiting
  <2>4. Tried = {cur.at}
    BY <1>3, <2>3 DEF Tried
  <2> QED
    BY <1>7, <2>1, <2>2, <2>4
<1>15. \A p \in Waiting(frames) : Address(frames, p) \notin Held \cup {cur.at} \cup dangling'
  BY <1>2, <1>9, <1>13, <1>14
<1>16. ASSUME NEW p \in Waiting(frames), NEW q \in Waiting(frames), Address(frames, p) = Address(frames, q)
       PROVE  p = q
  <2>1. CASE Address(frames, p) \in ToSet(places)
    BY <1>9, <1>14, <1>16, <2>1
  <2>2. CASE Address(frames, p) \notin ToSet(places)
    BY <1>9, <1>16, <2>2 DEF HeldInv
  <2> QED
    BY <2>1, <2>2
<1>17. (Held \cup {cur.at}) \cap dangling' = {}
  BY <1>2, <1>11 DEF HeldInv
<1> QED
  BY <1>10, <1>12, <1>15, <1>16, <1>17 DEF HeldInv

\* A transponder of a NIT is known, or is tried
LEMMA NitHolds ==
  ASSUME ScanInv, HeldInv, NitKnown \/ NitTune
  PROVE  HeldInv'
<1> DEFINE a == Head(Top.rest)
           frames == NextOfNit
           n == Len(stack)
<1>1. /\ pc = "nit" /\ Top.rest # <<>> /\ stack' = frames
      /\ UNCHANGED <<initial, found>>
      /\ \/ dangling' \subseteq dangling \cup {a} /\ pc' = pc
         \/ dangling' = dangling /\ pc' = "tables" /\ Tunes(a) /\ Tune(a)
  BY DEF NitKnown, NitTune, Delete
<1>2. stack # <<>>
  BY <1>1 DEF ScanInv, ControlInv
<1>3. /\ Address(stack, <<n, 1>>) = a /\ frames # <<>> /\ Sound(stack, <<n, 1>>)
      /\ Ats(frames) = Ats(stack) /\ <<n, 1>> \in Waiting(stack)
  BY <1>1, <1>2, NextOfNitIs DEF ScanInv
<1>4. PICK g \in [Waiting(frames) -> Waiting(stack) \ {<<n, 1>>}] :
         /\ \A p, q \in Waiting(frames) : g[p] = g[q] => p = q
         /\ \A p \in Waiting(frames) : Address(frames, p) = Address(stack, g[p])
  BY <1>1, <1>2, NextOfNitIs DEF ScanInv
<1> HIDE DEF a, frames, n
<1>5. Held' = Held /\ Tried = {}
  BY <1>1, <1>3 DEF Held, Tried
<1>6. a \notin Held \cup dangling /\ a \in 1 .. Places /\ heap[a] # Nobody
  BY <1>3 DEF HeldInv, Sound
<1>7. ASSUME NEW p \in Waiting(frames)
      PROVE  Address(frames, p) \notin Held \cup dangling \cup {a}
  <2>1. g[p] \in Waiting(stack) /\ g[p] # <<n, 1>> /\ Address(frames, p) = Address(stack, g[p])
    BY <1>4
  <2> QED
    BY <1>3, <2>1 DEF HeldInv
<1>8. ASSUME NEW p \in Waiting(frames), NEW q \in Waiting(frames), Address(frames, p) = Address(frames, q)
      PROVE  p = q
  <2>1. g[p] \in Waiting(stack) /\ g[q] \in Waiting(stack) /\ Address(stack, g[p]) = Address(stack, g[q])
    BY <1>4, <1>8
  <2>2. g[p] = g[q]
    BY <2>1 DEF HeldInv
  <2> QED
    BY <1>4, <2>2
<1>9. CASE dangling' \subseteq dangling \cup {a} /\ pc' = pc
  <2>1. Tried' = {}
    BY <1>1, <1>9 DEF Tried
  <2>2. Held \cap dangling' = {}
    BY <1>6, <1>9 DEF HeldInv
  <2>3. \A p \in Waiting(frames) : Address(frames, p) \notin Held \cup dangling'
    BY <1>7, <1>9
  <2> QED
    BY <1>1, <1>5, <1>8, <2>1, <2>2, <2>3 DEF HeldInv
<1>10. CASE dangling' = dangling /\ pc' = "tables" /\ Tunes(a) /\ Tune(a)
  <2>1. cur'.at = a
    BY <1>6, <1>10, TuneKeeps DEF ScanInv, StateInv
  <2>2. Tried' = {a}
    BY <1>1, <1>3, <1>10, <2>1 DEF Tried
  <2> QED
    BY <1>1, <1>5, <1>6, <1>7, <1>8, <1>10, <2>2 DEF HeldInv
<1> QED
  BY <1>1, <1>9, <1>10

\* A scanNit returns to the one around it
LEMMA NitReturnHolds ==
  ASSUME ScanInv, HeldInv, NitReturn
  PROVE  HeldInv'
<1>1. /\ pc = "nit" /\ pc' = pc /\ Len(stack) > 1
      /\ found' = Append(found, Top.at) /\ stack' = Front(stack) /\ UNCHANGED <<initial, dangling>>
  BY DEF NitReturn
<1> DEFINE frames == Front(stack)
<1>2. /\ Ats(stack) = Ats(frames) \cup {Top.at}
      /\ \A p \in Waiting(frames) : p \in Waiting(stack) /\ Address(frames, p) = Address(stack, p)
  BY <1>1, FrontIs DEF ScanInv
<1>3. ToSet(found') = ToSet(found) \cup {Top.at}
  BY <1>1, AppendSet DEF ScanInv, HeapInv
<1> HIDE DEF frames
<1>4. stack' = frames
  BY <1>1 DEF frames
<1>5. Held' = Held /\ Tried' = {} /\ Tried = {}
  BY <1>1, <1>2, <1>3, <1>4 DEF Held, Tried
<1> QED
  BY <1>1, <1>2, <1>4, <1>5 DEF HeldInv

\* The addresses stay apart in every step
LEMMA HeldNext ==
  ASSUME ScanAssumption, AirAssumption, ScanInv, HeldInv, [Next]_vars
  PROVE  HeldInv'
<1>1. CASE UNCHANGED vars \/ TableTorn
  BY <1>1 DEF vars, heapvars, TableTorn, HeldInv, Held, Tried
<1>2. CASE Next /\ ~TableTorn
  BY <1>2, StartListHolds, OutsideHolds, ScanRefusedHolds, ScanTablesHolds, NitHolds, NitReturnHolds
     DEF Next
<1> QED
  BY <1>1, <1>2

\* What is held keeps its addresses in every behaviour
LEMMA HeldInvariant == Spec => []HeldInv
<1>1. Init => HeldInv
  <2>1. DOMAIN <<>> = {}
    BY EmptyIsSeq, SeqIs
  <2> QED
    BY <2>1 DEF Init, HeldInv, Held, Tried, Waiting, Ats, ToSet
<1>2. ScanInv /\ HeldInv /\ [Next]_vars => HeldInv'
  BY ScanAssumption, AirAssumption, HeldNext
<1> QED
  BY <1>1, <1>2, ScanInvariant, PTL DEF Spec

-------------------------------------------------------------------------------
(* The services of the transponders *)

\* The multiplexes that keep to the standards and that the parsers can take, and what
\* says of a transponder that it has the services of these.
Regular == {m \in air.muxes : Standard(m) /\ ~Odd(m)}
Exact(muxes, t) == \A m \in muxes : m.tsid = t.tsid => t.services = Truth(m)

\* The multiplexes stay what they are
LEMMA RegularKept == air' = air => Regular' = Regular
<1> SUFFICES ASSUME air' = air PROVE Regular' = Regular
  OBVIOUS
<1>1. ASSUME NEW m PROVE Standard(m)' <=> Standard(m)
  BY DEF Standard, Once
<1> QED
  BY <1>1 DEF Regular

\* The frontends of the device are those of the hardware
Frontend(fe) ==
  fe = [type |-> fe.type, name |-> fe.name, transponders |-> fe.transponders, sats |-> fe.sats]
IsDevice(d) ==
  /\ d = [a \in DOMAIN Hardware |-> d[a]]
  /\ \A a \in DOMAIN Hardware :
       /\ d[a] = [id |-> d[a].id, frontends |-> d[a].frontends]
       /\ d[a].frontends = [f \in DOMAIN Hardware[a].frontends |-> d[a].frontends[f]]
       /\ \A f \in DOMAIN Hardware[a].frontends : Frontend(d[a].frontends[f])

\* A transponder of the lists that nothing is read for has no tsid. What is found, and what
\* a scanNit is running for, has the services of its multiplex.
ListsExact ==
  /\ \A a \in ToSet(initial) : heap[a].tsid = -1 \/ Exact(Regular, heap[a])
  /\ \A a \in ToSet(found) \cup Ats(stack) : Exact(Regular, heap[a])
DeviceExact ==
  \A a \in DOMAIN Hardware : \A f \in DOMAIN Hardware[a].frontends :
    \A t \in ToSet(device[a].frontends[f].transponders) : Exact(Regular, t)
ExactInv == IsDevice(device) /\ (late = {} => ListsExact /\ DeviceExact)

\* A list begins: what is held stays where it is
LEMMA StartListHeap ==
  ASSUME ScanInv, HeldInv, ScanAssumption, AirAssumption, StartList
  PROVE  \A a \in Held : heap'[a] = heap[a]
<1> DEFINE new == ListObjects
           places == NewPlaces(Len(new), FALSE)
<1>1. list < Len(ListsOf(front)) /\ HasRoom(Len(new), FALSE) /\ heap' = Placed(new, places)
  BY DEF StartList, ListObjects
<1>2. IsSeq(new) /\ \A k \in DOMAIN new : Object(new[k])
  BY <1>1, ListObjectsAre DEF ScanInv
<1>3. Len(new) \in Nat /\ DOMAIN new = 1 .. Len(new)
  <2> HIDE DEF new
  <2> QED
    BY <1>2, SeqIs
<1> HIDE DEF new
<1>4. DOMAIN places = 1 .. Len(new) /\ \A a \in ToSet(places) : heap[a] = Nobody
  BY <1>1, <1>3, FreedAre, NewAre DEF ScanAssumption, ScanInv
<1> HIDE DEF places
<1>5. \A a \in 1 .. Places : a \notin ToSet(places) => Placed(new, places)[a] = heap[a]
  BY <1>2, <1>3, <1>4, PlacedIs
<1> QED
  BY <1>1, <1>4, <1>5, HeldAre

\* A scanNit returns: the lists and the frames have no other addresses after it
LEMMA ReturnLists ==
  ASSUME ScanInv, NitReturn \/ InitialReturn
  PROVE  ToSet(found') \cup Ats(stack') \subseteq ToSet(found) \cup Ats(stack)
<1>1. /\ pc = "nit"
      /\ found' = found \/ found' = Append(found, Top.at)
      /\ \/ stack' = <<>>
         \/ Len(stack) > 1 /\ stack' = Front(stack)
  BY DEF NitReturn, InitialReturn
<1>2. Top.at \in Ats(stack)
  <2>1. stack # <<>> /\ IsSeq(stack)
    BY <1>1 DEF ScanInv, ControlInv, StackInv, AreFrames
  <2>2. Len(stack) \in DOMAIN stack
    BY <2>1, SeqIs
  <2> QED
    BY <2>2 DEF Top, Ats
<1>3. ToSet(found') \subseteq ToSet(found) \cup Ats(stack)
  <2>1. IsSeq(found)
    BY DEF ScanInv, HeapInv
  <2>2. CASE found' = found
    BY <2>2
  <2>3. CASE found' = Append(found, Top.at)
    BY <1>2, <2>1, <2>3, AppendSet
  <2> QED
    BY <1>1, <2>2, <2>3
<1>4. Ats(stack') \subseteq Ats(stack)
  <2>1. CASE stack' = <<>>
    BY <2>1, EmptyIsSeq, SeqIs DEF Ats
  <2>2. CASE Len(stack) > 1 /\ stack' = Front(stack)
    <3>1. Ats(stack) = Ats(Front(stack)) \cup {Top.at}
      BY <2>2, FrontIs DEF ScanInv
    <3> QED
      BY <2>2, <3>1
  <2> QED
    BY <1>1, <2>1, <2>2
<1> QED
  BY <1>3, <1>4

\* The tables are read: a scanNit begins for their transponder
LEMMA ScanTablesAts ==
  ASSUME ScanInv, ScanAssumption, AirAssumption, ScanTables
  PROVE  Ats(stack') = Ats(stack) \cup {cur.at}
<1> DEFINE new == Additional(cur.mux)
<1>1. PICK reuse \in BOOLEAN :
          LET places == NewPlaces(Len(new), reuse)
          IN HasRoom(Len(new), reuse) /\ stack' = Append(stack, [at |-> cur.at, rest |-> places])
  BY DEF ScanTables
<1> DEFINE places == NewPlaces(Len(new), reuse)
<1>2. HasRoom(Len(new), reuse) /\ stack' = Append(stack, [at |-> cur.at, rest |-> places])
  BY <1>1
<1>3. cur.mux \in air.muxes /\ cur.at \in ToSet(IF stack = <<>> THEN initial ELSE known)
  BY DEF ScanTables, ScanInv, ControlInv
<1>4. IsSeq(new)
  BY <1>3, AdditionalAre DEF ScanInv, StateInv
<1> HIDE DEF new
<1>5. Len(new) \in Nat
  BY <1>4, SeqIs
<1>6. /\ IsSeq(places)
      /\ \A a \in ToSet(places) : a \in 1 .. Places /\ (heap[a] = Nobody \/ a \in dangling)
      /\ \A j, k \in DOMAIN places : places[j] = places[k] => j = k
  BY <1>2, <1>5, FreedAre, NewAre DEF ScanAssumption, ScanInv
<1> HIDE DEF places
<1> DEFINE at == cur.at
           frames == Append(stack, [at |-> at, rest |-> places])
<1>7. StackInv /\ IsSeq(places) /\ at \in ToSet(IF stack = <<>> THEN initial ELSE known)
  BY <1>3, <1>6 DEF ScanInv
<1>8. /\ \A a \in ToSet(places) : a \in 1 .. Places /\
           (a \in ToSet(known) \/ (heap[a] = Nobody /\ a \notin ToSet(initial)))
      /\ \A j, k \in DOMAIN places : places[j] = places[k] => j = k
  BY <1>6 DEF ScanInv, HeapInv, Tracked
<1> HIDE DEF at
<1>9. Ats(frames) = Ats(stack) \cup {at}
  BY <1>7, <1>8, AppendFrameIs
<1> QED
  BY <1>2, <1>9 DEF at

\* What is held keeps its services
LEMMA ListsKept ==
  ASSUME ListsExact, air' = air,
         \A a \in Held : heap'[a].tsid = heap[a].tsid /\ heap'[a].services = heap[a].services,
         ToSet(initial') \subseteq ToSet(initial),
         ToSet(found') \cup Ats(stack') \subseteq ToSet(found) \cup Ats(stack)
  PROVE  ListsExact'
<1>1. Regular' = Regular
  BY RegularKept
<1>2. ASSUME NEW a \in ToSet(initial') PROVE heap'[a].tsid = -1 \/ Exact(Regular, heap'[a])
  <2>1. a \in Held /\ (heap[a].tsid = -1 \/ Exact(Regular, heap[a]))
    BY DEF Held, ListsExact
  <2> QED
    BY <2>1 DEF Exact
<1>3. ASSUME NEW a \in ToSet(found') \cup Ats(stack') PROVE Exact(Regular, heap'[a])
  <2>1. a \in Held /\ Exact(Regular, heap[a])
    BY DEF Held, ListsExact
  <2> QED
    BY <2>1 DEF Exact
<1> QED
  BY <1>1, <1>2, <1>3 DEF ListsExact

\* A list begins: the new objects have no tsid
LEMMA StartListExact ==
  ASSUME ScanInv, HeldInv, ScanAssumption, AirAssumption, ListsExact, StartList
  PROVE  ListsExact'
<1> DEFINE new == ListObjects
           places == NewPlaces(Len(new), FALSE)
<1>1. /\ list < Len(ListsOf(front)) /\ HasRoom(Len(new), FALSE)
      /\ heap' = Placed(new, places) /\ initial' = initial \o places
      /\ UNCHANGED <<stack, found>> /\ air' = air
  BY DEF StartList, ListObjects, airvars
<1>2. IsSeq(new) /\ \A k \in DOMAIN new : Object(new[k]) /\ new[k].tsid = -1
  BY <1>1, ListObjectsAre DEF ScanInv
<1>3. Len(new) \in Nat /\ DOMAIN new = 1 .. Len(new)
  <2> HIDE DEF new
  <2> QED
    BY <1>2, SeqIs
<1> HIDE DEF new
<1>4. /\ IsSeq(places) /\ DOMAIN places = 1 .. Len(new)
      /\ \A a \in ToSet(places) : a \in 1 .. Places /\ heap[a] = Nobody
  BY <1>1, <1>3, FreedAre, NewAre DEF ScanAssumption, ScanInv
<1> HIDE DEF places
<1>5. /\ \A a \in 1 .. Places : a \notin ToSet(places) => Placed(new, places)[a] = heap[a]
      /\ \A a \in 1 .. Places : a \in ToSet(places) =>
           \E k \in DOMAIN new : Placed(new, places)[a] = new[k]
  BY <1>2, <1>3, <1>4, PlacedIs
<1>6. ToSet(initial') \subseteq ToSet(initial) \cup ToSet(places)
  BY <1>1, <1>4, ConcatSet DEF ScanInv, HeapInv
<1>7. \A a \in Held : heap'[a] = heap[a]
  BY <1>1, <1>4, <1>5, HeldAre
<1>8. \A a \in ToSet(places) : heap'[a].tsid = -1
  BY <1>1, <1>2, <1>4, <1>5
<1>9. Regular' = Regular
  BY <1>1, RegularKept
<1>10. ASSUME NEW a \in ToSet(initial') PROVE heap'[a].tsid = -1 \/ Exact(Regular, heap'[a])
  <2>1. CASE a \in ToSet(places)
    BY <1>8, <2>1
  <2>2. CASE a \in ToSet(initial)
    BY <1>7, <2>2 DEF Held, ListsExact
  <2> QED
    BY <1>6, <2>1, <2>2
<1>11. ASSUME NEW a \in ToSet(found') \cup Ats(stack') PROVE Exact(Regular, heap'[a])
  <2>1. a \in ToSet(found) \cup Ats(stack)
    BY <1>1 DEF Ats
  <2> QED
    BY <1>7, <2>1 DEF Held, ListsExact
<1> QED
  BY <1>9, <1>10, <1>11 DEF ListsExact

\* The transponder whose tables are read has the services of its multiplex
LEMMA ServicesRead ==
  ASSUME AirAssumption, air \in Airs, NEW m \in air.muxes, late = {}, NEW pmt \in FirstPmts(m),
         NEW o, o.tsid = m.tsid, o.services = ServicesOf(m, pmt)
  PROVE  Exact(Regular, o)
<1> SUFFICES ASSUME NEW r \in Regular, r.tsid = o.tsid PROVE o.services = Truth(r)
  BY DEF Exact
<1>1. r \in air.muxes /\ Standard(r) /\ ~Odd(r)
  BY DEF Regular
<1>2. m = r
  BY <1>1 DEF Standard
<1> QED
  BY <1>1, <1>2, ServicesAreTrue

\* The tables are read
LEMMA ScanTablesExact ==
  ASSUME ScanInv, HeldInv, ScanAssumption, AirAssumption, late = {}, ListsExact, ScanTables
  PROVE  ListsExact'
<1> DEFINE new == Additional(cur.mux)
<1>1. PICK pmt \in FirstPmts(cur.mux), reuse \in BOOLEAN :
          LET places == NewPlaces(Len(new), reuse)
          IN /\ HasRoom(Len(new), reuse)
             /\ heap' = [Placed(new, places) EXCEPT ![cur.at].tsid = cur.mux.tsid,
                                                    ![cur.at].services = ServicesOf(cur.mux, pmt)]
             /\ stack' = Append(stack, [at |-> cur.at, rest |-> places])
  BY DEF ScanTables
<1> DEFINE services == ServicesOf(cur.mux, pmt)
           places == NewPlaces(Len(new), reuse)
           before == Placed(new, places)
<1>2. /\ HasRoom(Len(new), reuse)
      /\ heap' = [before EXCEPT ![cur.at].tsid = cur.mux.tsid, ![cur.at].services = services]
      /\ stack' = Append(stack, [at |-> cur.at, rest |-> places])
  BY <1>1
<1> HIDE DEF services
<1>3. pc = "tables" /\ UNCHANGED <<initial, found>> /\ air' = air
  BY DEF ScanTables, airvars
<1>4. cur.mux \in air.muxes /\ cur.at \in ToSet(IF stack = <<>> THEN initial ELSE known)
  BY <1>3 DEF ScanInv, ControlInv
<1>5. IsSeq(new) /\ \A k \in DOMAIN new : Object(new[k])
  BY <1>4, AdditionalAre DEF ScanInv, StateInv
<1> HIDE DEF new
<1>6. Len(new) \in Nat /\ DOMAIN new = 1 .. Len(new)
  BY <1>5, SeqIs
<1>7. /\ IsSeq(places) /\ DOMAIN places = 1 .. Len(new)
      /\ \A a \in ToSet(places) : a \in 1 .. Places /\ (heap[a] = Nobody \/ a \in dangling)
      /\ \A j, k \in DOMAIN places : places[j] = places[k] => j = k
  BY <1>2, <1>6, FreedAre, NewAre DEF ScanAssumption, ScanInv
<1> HIDE DEF places
<1>8. /\ before = [a \in 1 .. Places |-> before[a]]
      /\ \A a \in 1 .. Places : a \notin ToSet(places) => before[a] = heap[a]
  BY <1>5, <1>6, <1>7, PlacedIs
<1> HIDE DEF before
<1>9. cur.at \notin dangling /\ cur.at \in 1 .. Places /\ heap[cur.at] # Nobody
  <2>1. CASE stack = <<>>
    BY <1>4, <2>1, HeldAre DEF HeldInv, Held
  <2>2. CASE stack # <<>>
    BY <1>3, <1>4, <2>2 DEF HeldInv, Tried, ScanInv, HeapInv, Tracked
  <2> QED
    BY <2>1, <2>2
<1>10. before[cur.at] = heap[cur.at] /\ Object(heap[cur.at])
  BY <1>7, <1>8, <1>9 DEF ScanInv, HeapInv
<1>11. /\ \A a \in 1 .. Places : a # cur.at => heap'[a] = before[a]
       /\ heap'[cur.at].tsid = cur.mux.tsid /\ heap'[cur.at].services = services
  <2> DEFINE at == cur.at
             old == before[at]
             tsid == cur.mux.tsid
             k == old.kind
             f == old.freq
             s == old.services
             g == old.tuning
             mid == [old EXCEPT !.tsid = tsid]
  <2>1. old = [kind |-> k, freq |-> f, tsid |-> old.tsid, services |-> s, tuning |-> g]
    BY <1>10 DEF Object
  <2>2. heap' = [before EXCEPT ![at] = [mid EXCEPT !.services = services]]
    BY <1>2, <1>8, <1>9
  <2>3. at \in 1 .. Places
    BY <1>9
  <2> HIDE DEF at, tsid, k, f, s, g, old
  <2>4. mid = [kind |-> k, freq |-> f, tsid |-> tsid, services |-> s, tuning |-> g]
    BY <2>1
  <2> HIDE DEF mid
  <2>5. [mid EXCEPT !.services = services].tsid = tsid /\ [mid EXCEPT !.services = services].services = services
    BY <2>4
  <2> QED
    BY <1>8, <2>2, <2>3, <2>5 DEF at, tsid
<1>12. Exact(Regular, heap'[cur.at])
  BY <1>4, <1>11, ServicesRead DEF ScanInv, StateInv, services
<1>13. \A a \in Held : a = cur.at \/ heap'[a] = heap[a]
  <2>1. \A a \in Held : a \in 1 .. Places /\ a \notin ToSet(places)
    BY <1>7, HeldAre DEF HeldInv
  <2> QED
    BY <1>8, <1>11, <2>1
<1>14. Ats(stack') = Ats(stack) \cup {cur.at}
  BY ScanTablesAts
<1>15. Regular' = Regular
  BY <1>3, RegularKept
<1>16. ASSUME NEW a \in ToSet(initial) PROVE heap'[a].tsid = -1 \/ Exact(Regular, heap'[a])
  BY <1>12, <1>13 DEF Held, ListsExact
<1>17. ASSUME NEW a \in ToSet(found) \cup Ats(stack) \cup {cur.at} PROVE Exact(Regular, heap'[a])
  BY <1>12, <1>13 DEF Held, ListsExact
<1> QED
  BY <1>3, <1>14, <1>15, <1>16, <1>17 DEF ListsExact

Put(d, i, j, fe) == [d EXCEPT ![i].frontends[j] = fe]

\* A frontend is another one, and the others stay
LEMMA PutFrontend ==
  ASSUME NEW d, IsDevice(d), NEW i \in DOMAIN Hardware, NEW j \in DOMAIN Hardware[i].frontends,
         NEW fe, Frontend(fe)
  PROVE  /\ IsDevice(Put(d, i, j, fe))
         /\ \A a \in DOMAIN Hardware : Put(d, i, j, fe)[a].id = d[a].id
         /\ \A a \in DOMAIN Hardware : \A f \in DOMAIN Hardware[a].frontends :
              Put(d, i, j, fe)[a].frontends[f] = IF a = i /\ f = j THEN fe ELSE d[a].frontends[f]
<1> DEFINE fs == d[i].frontends
           fs2 == [fs EXCEPT ![j] = fe]
           ad == d[i]
           ad2 == [ad EXCEPT !.frontends = fs2]
           e == [d EXCEPT ![i] = ad2]
<1>1. Put(d, i, j, fe) = e
  BY DEF Put
<1>2. /\ fs = [f \in DOMAIN Hardware[i].frontends |-> fs[f]]
      /\ ad = [id |-> ad.id, frontends |-> ad.frontends]
      /\ d = [a \in DOMAIN Hardware |-> d[a]]
  BY DEF IsDevice
<1>4. /\ fs2 = [f \in DOMAIN Hardware[i].frontends |-> fs2[f]]
      /\ fs2[j] = fe /\ \A f \in DOMAIN Hardware[i].frontends : f # j => fs2[f] = fs[f]
  <2> HIDE DEF fs
  <2> QED
    BY <1>2
<1> HIDE DEF fs2
<1>5. ad2 = [id |-> ad2.id, frontends |-> ad2.frontends] /\ ad2.frontends = fs2 /\ ad2.id = ad.id
  <2> HIDE DEF ad
  <2> QED
    BY <1>2
<1> HIDE DEF ad2
<1>6. /\ e = [a \in DOMAIN Hardware |-> e[a]]
      /\ e[i] = ad2 /\ \A a \in DOMAIN Hardware : a # i => e[a] = d[a]
  BY <1>2
<1> HIDE DEF e
<1>7. ASSUME NEW a \in DOMAIN Hardware, NEW f \in DOMAIN Hardware[a].frontends
      PROVE  e[a].frontends[f] = IF a = i /\ f = j THEN fe ELSE d[a].frontends[f]
  BY <1>4, <1>5, <1>6
<1>8. IsDevice(e)
  <2>1. ASSUME NEW a \in DOMAIN Hardware
        PROVE  /\ e[a] = [id |-> e[a].id, frontends |-> e[a].frontends]
               /\ e[a].frontends = [f \in DOMAIN Hardware[a].frontends |-> e[a].frontends[f]]
    <3>1. CASE a = i
      BY <1>4, <1>5, <1>6, <3>1
    <3>2. CASE a # i
      BY <1>6, <3>2 DEF IsDevice
    <3> QED
      BY <3>1, <3>2
  <2>2. ASSUME NEW a \in DOMAIN Hardware, NEW f \in DOMAIN Hardware[a].frontends
        PROVE  Frontend(e[a].frontends[f])
    <3>1. Frontend(d[a].frontends[f])
      BY DEF IsDevice
    <3> QED
      BY <1>7, <3>1
  <2> QED
    BY <1>6, <2>1, <2>2 DEF IsDevice
<1>9. \A a \in DOMAIN Hardware : e[a].id = d[a].id
  BY <1>5, <1>6
<1> QED
  BY <1>1, <1>7, <1>8, <1>9

\* What detectAdapters makes of the hardware: no frontend has a transponder
LEMMA DetectedIs ==
  ASSUME ScanAssumption
  PROVE  LET d == detectAdapters(Hardware, {})
         IN /\ IsDevice(d)
            /\ \A a \in DOMAIN Hardware : d[a].id = Hardware[a].id
            /\ \A a \in DOMAIN Hardware : \A f \in DOMAIN Hardware[a].frontends :
                 /\ d[a].frontends[f].type = Hardware[a].frontends[f].type
                 /\ d[a].frontends[f].name = Hardware[a].frontends[f].name
                 /\ d[a].frontends[f].transponders = <<>> /\ d[a].frontends[f].sats = <<>>
<1> DEFINE new(f) == [type |-> f.type, name |-> f.name, transponders |-> <<>>, sats |-> <<>>]
           there(a) == Those(a.frontends, LAMBDA f : f.node \notin {})
           adapter(a) == [id |-> a.id, frontends |-> Map(new, there(a))]
           d == [a \in DOMAIN Hardware |-> adapter(Hardware[a])]
<1>1. d = <<>> \o d
  <2>1. IsSeq(Hardware) /\ d = [a \in DOMAIN Hardware |-> d[a]]
    BY Zenon DEF ScanAssumption
  <2> HIDE DEF d
  <2> QED
    BY <2>1, FunIs
<1>2. detectAdapters(Hardware, {}) = d
  <2>1. detectAdapters(Hardware, {}) = Map(adapter, Hardware)
    BY Zenon DEF detectAdapters
  <2>2. Map(adapter, Hardware) = <<>> \o d
    BY DEF Map
  <2> HIDE DEF d, adapter
  <2> QED
    BY <1>1, <2>1, <2>2
<1>3. ASSUME NEW a \in DOMAIN Hardware
      PROVE  adapter(Hardware[a]) =
               [id |-> Hardware[a].id,
                frontends |-> [f \in DOMAIN Hardware[a].frontends |-> new(Hardware[a].frontends[f])]]
  <2> DEFINE s == Hardware[a].frontends
             K == {k \in DOMAIN s : s[k].node \notin {}}
             g == [f \in DOMAIN s |-> new(s[f])]
  <2>1. there(Hardware[a]) = Picked(s, K)
    BY DEF Those
  <2>2. IsSeq(s) /\ DOMAIN s \subseteq K
    BY DEF ScanAssumption
  <2>3. Picked(s, K) = s
    <3> HIDE DEF s, K
    <3> QED
      BY <2>2, PickedAll
  <2>4. <<>> \o g = g
    <3>1. g = [f \in DOMAIN s |-> g[f]]
      OBVIOUS
    <3> HIDE DEF g, s
    <3> QED
      BY <2>2, <3>1, FunIs
  <2>5. Map(new, s) = g
    <3>1. Map(new, s) = <<>> \o g
      BY DEF Map
    <3> QED
      BY Zenon, <2>4, <3>1
  <2> QED
    BY Zenon, <2>1, <2>3, <2>5
<1> HIDE DEF adapter
<1>4. /\ d = [a \in DOMAIN Hardware |-> d[a]]
      /\ \A a \in DOMAIN Hardware :
           d[a] = [id |-> Hardware[a].id,
                   frontends |-> [f \in DOMAIN Hardware[a].frontends |-> new(Hardware[a].frontends[f])]]
  BY <1>3
<1> HIDE DEF d
<1>5. ASSUME NEW a \in DOMAIN Hardware
      PROVE  /\ d[a] = [id |-> d[a].id, frontends |-> d[a].frontends] /\ d[a].id = Hardware[a].id
             /\ d[a].frontends = [f \in DOMAIN Hardware[a].frontends |-> d[a].frontends[f]]
             /\ \A f \in DOMAIN Hardware[a].frontends : d[a].frontends[f] = new(Hardware[a].frontends[f])
  <2> HIDE DEF new
  <2> QED
    BY <1>4
<1>6. ASSUME NEW a \in DOMAIN Hardware, NEW f \in DOMAIN Hardware[a].frontends
      PROVE  /\ Frontend(d[a].frontends[f])
             /\ d[a].frontends[f].type = Hardware[a].frontends[f].type
             /\ d[a].frontends[f].name = Hardware[a].frontends[f].name
             /\ d[a].frontends[f].transponders = <<>> /\ d[a].frontends[f].sats = <<>>
  <2> DEFINE x == d[a].frontends[f]
             y == Hardware[a].frontends[f]
             none == <<>>
  <2>1. x = [type |-> y.type, name |-> y.name, transponders |-> none, sats |-> none]
    BY <1>5
  <2> HIDE DEF x, y, none
  <2>2. Frontend(x) /\ x.type = y.type /\ x.name = y.name /\ x.transponders = none /\ x.sats = none
    BY <2>1 DEF Frontend
  <2> QED
    BY <2>2 DEF x, y, none
<1>7. IsDevice(d)
  BY <1>4, <1>5, <1>6 DEF IsDevice
<1> QED
  BY <1>2, <1>5, <1>6, <1>7

\* A frontend has done: what was found is in the device, and the other frontends stay
LEMMA EndFrontendDevice ==
  ASSUME ScanInv, ScanAssumption, IsDevice(device), EndFrontend
  PROVE  LET i == Frontends[front][1]
             j == Frontends[front][2]
         IN /\ i \in DOMAIN Hardware /\ j \in DOMAIN Hardware[i].frontends
            /\ IsDevice(device') /\ \A a \in DOMAIN Hardware : device'[a].id = device[a].id
            /\ device'[i].frontends[j].type = device[i].frontends[j].type
            /\ device'[i].frontends[j].name = device[i].frontends[j].name
            /\ device'[i].frontends[j].transponders = Map(Result, found)
            /\ device'[i].frontends[j].sats = Satellites
            /\ \A a \in DOMAIN Hardware : \A f \in DOMAIN Hardware[a].frontends :
                 a # i \/ f # j => device'[a].frontends[f] = device[a].frontends[f]
<1> DEFINE i == Frontends[front][1]
           j == Frontends[front][2]
           ts == Map(Result, found)
           fe == device[i].frontends[j]
           fe1 == [fe EXCEPT !.transponders = ts]
           fe2 == [fe1 EXCEPT !.sats = Satellites]
           mid == Put(device, i, j, fe1)
<1>1. device' = [device EXCEPT ![i].frontends[j].transponders = ts,
                               ![i].frontends[j].sats = Satellites]
  BY Zenon DEF EndFrontend
<1>2. i \in DOMAIN Hardware /\ j \in DOMAIN Hardware[i].frontends
  <2>1. front \in DOMAIN Frontends
    BY FrontendsAre, SeqIs DEF ScanInv, StateInv
  <2> QED
    BY <2>1, FrontendsAre
<1>3. Frontend(fe)
  BY <1>2 DEF IsDevice
<1> HIDE DEF i, j, ts
<1>4. /\ fe1.type = fe.type /\ fe1.name = fe.name /\ fe1.transponders = ts /\ Frontend(fe1)
  <2> HIDE DEF fe
  <2> QED
    BY <1>3 DEF Frontend
<1>5. /\ mid[i].frontends[j] = fe1 /\ IsDevice(mid) /\ \A a \in DOMAIN Hardware : mid[a].id = device[a].id
      /\ \A a \in DOMAIN Hardware : \A f \in DOMAIN Hardware[a].frontends :
           a # i \/ f # j => mid[a].frontends[f] = device[a].frontends[f]
  <2> HIDE DEF fe1
  <2> QED
    BY <1>2, <1>4, PutFrontend
<1>6. /\ fe2.type = fe1.type /\ fe2.name = fe1.name /\ fe2.transponders = ts
      /\ fe2.sats = Satellites /\ Frontend(fe2)
  <2> HIDE DEF fe1
  <2> QED
    BY <1>4 DEF Frontend
<1>7. device' = Put(mid, i, j, fe2)
  <2>1. mid = [device EXCEPT ![i].frontends[j].transponders = ts]
    BY DEF Put
  <2>2. device' = [mid EXCEPT ![i].frontends[j].sats = Satellites]
    BY Zenon, <1>1, <2>1
  <2> HIDE DEF mid, fe1
  <2> QED
    BY <1>5, <2>2 DEF Put
<1> HIDE DEF fe1, fe2, mid, fe
<1>8. /\ IsDevice(device') /\ \A a \in DOMAIN Hardware : device'[a].id = mid[a].id
      /\ device'[i].frontends[j] = fe2
      /\ \A a \in DOMAIN Hardware : \A f \in DOMAIN Hardware[a].frontends :
           a # i \/ f # j => device'[a].frontends[f] = mid[a].frontends[f]
  BY <1>2, <1>5, <1>6, <1>7, PutFrontend
<1> QED
  BY ZenonT(60), <1>2, <1>4, <1>5, <1>6, <1>8 DEF i, j, ts, fe

\* What was found has the services of its multiplex
LEMMA EndFrontendExact ==
  ASSUME ScanInv, ScanAssumption, ExactInv, EndFrontend
  PROVE  ExactInv'
<1> DEFINE i == Frontends[front][1]
           j == Frontends[front][2]
           ts == Map(Result, found)
<1>1. pc = "list" /\ found' = <<>> /\ initial' = <<>> /\ UNCHANGED <<air, late, stack>>
  BY Zenon DEF EndFrontend, airvars
<1>2. /\ IsDevice(device') /\ device'[i].frontends[j].transponders = ts
      /\ \A a \in DOMAIN Hardware : \A f \in DOMAIN Hardware[a].frontends :
           a # i \/ f # j => device'[a].frontends[f] = device[a].frontends[f]
  BY EndFrontendDevice DEF ExactInv
<1> HIDE DEF i, j, ts
<1>3. ASSUME late = {} PROVE ListsExact' /\ DeviceExact'
  <2>1. Regular' = Regular
    BY <1>1, RegularKept
  <2>2. ListsExact'
    <3>1. stack' = <<>>
      BY <1>1 DEF ScanInv, ControlInv
    <3>2. DOMAIN <<>> = {}
      BY EmptyIsSeq, SeqIs
    <3>3. Ats(stack)' = {} /\ ToSet(found') = {} /\ ToSet(initial') = {}
      BY <1>1, <3>1, <3>2 DEF Ats, ToSet
    <3> QED
      BY <3>3 DEF ListsExact
  <2>3. ASSUME NEW t \in ToSet(ts) PROVE Exact(Regular, t)
    <3> DEFINE r == [k \in DOMAIN found |-> Result(found[k])]
    <3>1. ts = r
      <4>1. ts = <<>> \o r
        BY DEF ts, Map
      <4>2. IsSeq(found) /\ r = [k \in DOMAIN found |-> r[k]]
        BY DEF ScanInv, HeapInv
      <4> HIDE DEF r
      <4> QED
        BY <4>1, <4>2, FunIs
    <3>2. PICK k \in DOMAIN found : t = Result(found[k])
      BY <3>1 DEF ToSet
    <3>3. t.tsid = heap[found[k]].tsid /\ t.services = heap[found[k]].services
      BY <3>2 DEF Result
    <3>4. Exact(Regular, heap[found[k]])
      BY <1>3 DEF ExactInv, ListsExact, ToSet
    <3> QED
      BY <3>3, <3>4 DEF Exact
  <2>4. ASSUME NEW a \in DOMAIN Hardware, NEW f \in DOMAIN Hardware[a].frontends,
               NEW t \in ToSet(device'[a].frontends[f].transponders)
        PROVE  Exact(Regular, t)
    BY <1>2, <1>3, <2>3 DEF ExactInv, DeviceExact
  <2> QED
    BY <2>1, <2>2, <2>4 DEF DeviceExact
<1> QED
  BY <1>1, <1>2, <1>3 DEF ExactInv

\* The next initial transponder is tuned to, or left, or the list ends
LEMMA OutsideExact ==
  ASSUME ScanInv, HeldInv, ListsExact, ScanInitial \/ EndList \/ WriteFile \/ TableTorn
  PROVE  ListsExact'
<1>1. UNCHANGED <<air, found, initial, stack>>
  BY DEF ScanInitial, EndList, WriteFile, TableTorn, airvars, heapvars
<1>2. CASE heap' = heap
  BY <1>1, <1>2, ListsKept DEF Ats
<1>3. CASE heap' # heap
  <2> DEFINE a == Head(queue)
  <2>1. queue # <<>> /\ Tune(a)
    BY <1>3 DEF ScanInitial, EndList, WriteFile, TableTorn, heapvars
  <2>2. a \in 1 .. Places /\ heap[a] # Nobody
    BY <2>1, TailIs, ToSetIs DEF ScanInv, HeapInv, Tracked
  <2> HIDE DEF a
  <2>3. Same(heap, heap')
    BY <2>1, <2>2, TuneKeeps DEF ScanInv, StateInv
  <2>4. \A b \in Held : heap'[b].tsid = heap[b].tsid /\ heap'[b].services = heap[b].services
    BY <2>3, HeldAre DEF Same
  <2> QED
    BY <1>1, <2>4, ListsKept DEF Ats
<1> QED
  BY <1>2, <1>3

\* A transponder is refused: only one that is read already can be
LEMMA ScanRefusedExact ==
  ASSUME ScanInv, HeldInv, late = {}, ListsExact, ScanRefused
  PROVE  ListsExact'
<1>1. /\ pc = "tables" /\ Refused(heap[cur.at]) /\ UNCHANGED <<air, found, initial>>
      /\ IF stack = <<>>
         THEN stack' = <<[at |-> cur.at, rest |-> <<>>]>> /\ UNCHANGED heap
         ELSE Delete(cur.at) /\ UNCHANGED stack
  BY DEF ScanRefused, airvars
<1>2. cur.at \in ToSet(IF stack = <<>> THEN initial ELSE known)
  BY <1>1 DEF ScanInv, ControlInv
<1>3. CASE stack = <<>>
  <2> DEFINE f == [at |-> cur.at, rest |-> <<>>]
  <2>1. stack' = <<f>> /\ f.at = cur.at /\ heap' = heap
    BY <1>1, <1>3
  <2> HIDE DEF f
  <2>2. Ats(stack') = {cur.at}
    BY <2>1, OneIs DEF Ats
  <2>3. heap[cur.at].tsid # -1
    BY <1>1 DEF Refused, Timely
  <2>4. Exact(Regular, heap[cur.at])
    BY <1>2, <1>3, <2>3 DEF ListsExact
  <2>5. Regular' = Regular
    BY <1>1, RegularKept
  <2>6. \A a \in ToSet(found) \cup {cur.at} : Exact(Regular, heap[a])
    BY <2>4 DEF ListsExact
  <2>7. \A a \in ToSet(initial) : heap[a].tsid = -1 \/ Exact(Regular, heap[a])
    BY DEF ListsExact
  <2> QED
    BY <1>1, <2>1, <2>2, <2>5, <2>6, <2>7 DEF ListsExact
<1>4. CASE stack # <<>>
  <2>1. heap' = heap /\ stack' = stack
    BY <1>1, <1>2, <1>4 DEF Delete
  <2> QED
    BY <1>1, <2>1, ListsKept DEF Ats
<1> QED
  BY <1>3, <1>4

\* A transponder of a NIT is known, or is tried
LEMMA NitExact ==
  ASSUME ScanInv, HeldInv, ListsExact, NitKnown \/ NitTune
  PROVE  ListsExact'
<1> DEFINE a == Head(Top.rest)
           frames == NextOfNit
           n == Len(stack)
<1>1. /\ pc = "nit" /\ Top.rest # <<>> /\ stack' = frames
      /\ UNCHANGED <<air, initial, found>>
      /\ heap' = heap \/ heap' = [heap EXCEPT ![a] = Nobody] \/ Tune(a)
  BY DEF NitKnown, NitTune, Delete, airvars
<1>2. stack # <<>>
  BY <1>1 DEF ScanInv, ControlInv
<1>3. /\ Address(stack, <<n, 1>>) = a /\ Sound(stack, <<n, 1>>)
      /\ Ats(frames) = Ats(stack) /\ <<n, 1>> \in Waiting(stack)
  BY <1>1, <1>2, NextOfNitIs DEF ScanInv
<1> HIDE DEF a, frames, n
<1>4. a \notin Held /\ a \in 1 .. Places /\ heap[a] # Nobody
  BY <1>3 DEF HeldInv, Sound
<1>5. ASSUME NEW b \in Held
      PROVE  heap'[b].tsid = heap[b].tsid /\ heap'[b].services = heap[b].services
  <2>1. b \in 1 .. Places /\ b # a
    BY <1>4, HeldAre
  <2>2. CASE heap' = heap
    BY <2>2
  <2>3. CASE heap' = [heap EXCEPT ![a] = Nobody]
    <3>1. heap = [c \in 1 .. Places |-> heap[c]]
      BY DEF ScanInv, HeapInv
    <3>2. heap'[b] = heap[b]
      BY <2>1, <2>3, <3>1
    <3> QED
      BY <3>2
  <2>4. CASE Tune(a)
    <3>1. Same(heap, heap')
      BY <1>4, <2>4, TuneKeeps DEF ScanInv, StateInv
    <3> QED
      BY <2>1, <3>1 DEF Same
  <2> QED
    BY <1>1, <2>2, <2>3, <2>4
<1>6. Ats(stack') = Ats(stack)
  BY <1>1, <1>3
<1> QED
  BY <1>1, <1>5, <1>6, ListsKept DEF Ats

\* A scanNit returns: its transponder may be found
LEMMA ReturnExact ==
  ASSUME ScanInv, HeldInv, ListsExact, NitReturn \/ InitialReturn
  PROVE  ListsExact'
<1>1. UNCHANGED <<air, heap, initial>>
  BY DEF NitReturn, InitialReturn, airvars
<1>2. Ats(stack)' = Ats(stack')
  BY DEF Ats
<1> QED
  BY <1>1, <1>2, ReturnLists, ListsKept

\* The device stays, and so does what it has of the multiplexes
LEMMA DeviceKept ==
  ASSUME ExactInv, UNCHANGED <<air, late, device>>, late = {} => ListsExact'
  PROVE  ExactInv'
<1>1. Regular' = Regular
  BY RegularKept
<1> QED
  BY <1>1 DEF ExactInv, DeviceExact

\* The services stay those of the multiplexes in every step
LEMMA ExactNext ==
  ASSUME ScanAssumption, AirAssumption, ScanInv, HeldInv, ExactInv, [Next]_vars
  PROVE  ExactInv'
<1>1. CASE EndFrontend
  BY <1>1, EndFrontendExact
<1>2. CASE (UNCHANGED vars) \/ (Next /\ ~EndFrontend)
  <2>1. UNCHANGED <<air, late, device>>
    BY Zenon, <1>2 DEF Next, vars, airvars, filevars, StartList, ScanInitial, EndList, ScanRefused, ScanTables,
                TableTorn, NitKnown, NitTune, NitReturn, InitialReturn, WriteFile
  <2>2. ASSUME late = {} PROVE ListsExact'
    <3>1. ListsExact
      BY <2>2 DEF ExactInv
    <3>2. CASE UNCHANGED vars
      BY <3>1, <3>2, ListsKept DEF vars, airvars, heapvars, Ats
    <3>3. CASE Next /\ ~EndFrontend
      BY <2>2, <3>1, <3>3, StartListExact, OutsideExact, ScanRefusedExact, ScanTablesExact,
         NitExact, ReturnExact DEF Next
    <3> QED
      BY <1>2, <3>2, <3>3
  <2> QED
    BY <2>1, <2>2, DeviceKept
<1> QED
  BY <1>1, <1>2

\* No frontend has a transponder at first
LEMMA ExactInit ==
  ASSUME ScanAssumption, Init
  PROVE  ExactInv
<1>1. DOMAIN <<>> = {}
  BY EmptyIsSeq, SeqIs
<1>2. IsDevice(device) /\ DeviceExact
  BY <1>1, DetectedIs DEF Init, DeviceExact, ToSet
<1>3. ListsExact
  BY <1>1 DEF Init, ListsExact, Ats, ToSet
<1> QED
  BY <1>2, <1>3 DEF ExactInv

\* The inductive invariant of the services
LEMMA ExactInvariant == Spec => []ExactInv
<1>1. Init => ExactInv
  BY ScanAssumption, ExactInit
<1>2. ScanInv /\ HeldInv /\ ExactInv /\ [Next]_vars => ExactInv'
  BY ScanAssumption, AirAssumption, ExactNext
<1> QED
  BY <1>1, <1>2, ScanInvariant, HeldInvariant, PTL DEF Spec

\* The services of a transponder that was found are those that the tables of its
\* multiplex describe, for every air, whichever lists and NITs led to it, however often it
\* was met, and whatever was deleted and got its place in between (dvb/Frontend.cpp,
\* scanTransponder, scanPatPmt, scanSdt and scanNit).
THEOREM ServicesAreExact == Spec => []ServicesExact
<1>1. ScanAssumption /\ ExactInv => ServicesExact
  <2> SUFFICES ASSUME ScanAssumption, ExactInv, late = {}, NEW n \in DOMAIN Frontends,
                      NEW t \in ToSet(Scanner(n).transponders), NEW m \in air.muxes,
                      m.tsid = t.tsid, Standard(m), ~Odd(m)
               PROVE  t.services = Truth(m)
    BY DEF ServicesExact
  <2>1. PICK a \in DOMAIN Hardware : \E f \in DOMAIN Hardware[a].frontends : Frontends[n] = <<a, f>>
    BY FrontendsAre
  <2>2. PICK f \in DOMAIN Hardware[a].frontends : Frontends[n] = <<a, f>>
    BY <2>1
  <2>3. Exact(Regular, t)
    BY <2>2 DEF Scanner, ExactInv, DeviceExact
  <2>4. m \in Regular
    BY DEF Regular
  <2> QED
    BY <2>3, <2>4 DEF Exact
<1> QED
  BY <1>1, ScanAssumption, ExactInvariant, PTL

-------------------------------------------------------------------------------
(* The objects that the file can hold *)

\* The descriptors that are looked at
LEMMA DescriptorsAre ==
  ASSUME NEW all, IsSeq(all)
  PROVE  IsSeq(Descriptors(all))
<1> DEFINE ds == Descriptors(all)
           unknown == {k \in DOMAIN all : all[k].tag \notin KnownTags}
           stop == CHOOSE k \in unknown : \A j \in unknown : k <= j
<1>1. CASE unknown = {}
  <2>1. ds = all
    BY <1>1 DEF Descriptors
  <2> QED
    BY <2>1
<1>2. CASE unknown # {}
  <2>1. Len(all) \in Nat /\ DOMAIN all = 1 .. Len(all)
    BY SeqIs
  <2>2. unknown \in SUBSET Nat
    BY <2>1
  <2>3. \E k \in unknown : \A j \in unknown : k <= j
    <3> HIDE DEF unknown
    <3> QED
      BY <1>2, <2>2, LeastNatural
  <2>4. stop \in unknown
    BY <2>3
  <2>5. stop - 1 \in Nat /\ stop - 1 <= Len(all)
    BY <2>1, <2>4
  <2>6. ds = SubSeq(all, 1, stop - 1)
    BY <1>2 DEF Descriptors
  <2> HIDE DEF stop
  <2> QED
    BY <2>5, <2>6, FirstsAre
<1> QED
  BY <1>1, <1>2

\* What the ...FromString return, when it is defined
LEMMA FromStringIs ==
  ASSUME NEW table, NEW text, FromString(table, text) # Undefined
  PROVE  FromString(table, text) \in DOMAIN table
<1>1. CASE \E v \in DOMAIN table : table[v] = text
  BY <1>1 DEF FromString
<1>2. CASE ~\E v \in DOMAIN table : table[v] = text
  BY <1>2 DEF FromString
<1> QED
  BY <1>1, <1>2

\* The parameters of a terrestrial transponder from their texts
TerrestrialOf(a, b, c, d, e, f, g) ==
  [bandwidth |-> bandwidthFromString(a), code_rate_HP |-> coderateFromString(b),
   code_rate_LP |-> coderateFromString(c), constellation |-> modulationFromString(d),
   transmission_mode |-> transmitModeFromString(e), guard_interval |-> guard_intervalFromString(f),
   hierarchy_information |-> hierarchyFromString(g)]

\* When they are all defined, they can be written
LEMMA TerrestrialIs ==
  ASSUME NEW a, NEW b, NEW c, NEW d, NEW e, NEW f, NEW g,
         \A p \in DOMAIN TerrestrialOf(a, b, c, d, e, f, g) :
           TerrestrialOf(a, b, c, d, e, f, g)[p] # Undefined
  PROVE  WellTerrestrial(TerrestrialOf(a, b, c, d, e, f, g))
<1> DEFINE t == TerrestrialOf(a, b, c, d, e, f, g)
<1>1. /\ t = [bandwidth |-> t.bandwidth, code_rate_HP |-> t.code_rate_HP, code_rate_LP |-> t.code_rate_LP,
          constellation |-> t.constellation, transmission_mode |-> t.transmission_mode,
          guard_interval |-> t.guard_interval, hierarchy_information |-> t.hierarchy_information]
      /\ DOMAIN t = {"bandwidth", "code_rate_HP", "code_rate_LP", "constellation",
                     "transmission_mode", "guard_interval", "hierarchy_information"}
  BY DEF TerrestrialOf
<1>2. /\ t.bandwidth = FromString(bandwidthToString, a)
      /\ t.code_rate_HP = FromString(coderateToString, b)
      /\ t.code_rate_LP = FromString(coderateToString, c)
      /\ t.constellation = FromString(modulationToString, d)
      /\ t.transmission_mode = FromString(transmitModeToString, e)
      /\ t.guard_interval = FromString(guard_intervalToString, f)
      /\ t.hierarchy_information = FromString(hierarchyToString, g)
  BY DEF TerrestrialOf, bandwidthFromString, coderateFromString, modulationFromString,
         transmitModeFromString, guard_intervalFromString, hierarchyFromString
<1> HIDE DEF t
<1>3. \A p \in DOMAIN t : t[p] # Undefined
  BY DEF t
<1>4. /\ t.bandwidth # Undefined /\ t.code_rate_HP # Undefined /\ t.code_rate_LP # Undefined
      /\ t.constellation # Undefined /\ t.transmission_mode # Undefined
      /\ t.guard_interval # Undefined /\ t.hierarchy_information # Undefined
  BY <1>1, <1>3
<1>5. t.bandwidth \in DOMAIN bandwidthToString
  BY <1>2, <1>4, FromStringIs
<1>6. t.code_rate_HP \in DOMAIN coderateToString /\ t.code_rate_LP \in DOMAIN coderateToString
  BY <1>2, <1>4, FromStringIs
<1>7. t.constellation \in DOMAIN modulationToString
  BY <1>2, <1>4, FromStringIs
<1>8. t.transmission_mode \in DOMAIN transmitModeToString
  BY <1>2, <1>4, FromStringIs
<1>9. t.guard_interval \in DOMAIN guard_intervalToString
  BY <1>2, <1>4, FromStringIs
<1>10. t.hierarchy_information \in DOMAIN hierarchyToString
  BY <1>2, <1>4, FromStringIs
<1>11. WellTerrestrial(t)
  BY <1>1, <1>5, <1>6, <1>7, <1>8, <1>9, <1>10 DEF WellTerrestrial
<1> QED
  BY <1>11 DEF t

\* An object that the files can hold, and a new one
WellObject(o) ==
  WellServices(o.services) /\ (o.kind = "terrestrial" => WellTerrestrial(o.tuning))

\* A new one has no services
LEMMA NewIsWell ==
  ASSUME NEW o, o.services = <<>>, o.kind = "terrestrial" => WellTerrestrial(o.tuning)
  PROVE  WellObject(o)
<1> DEFINE none == <<>>
<1>1. IsSeq(none) /\ DOMAIN none = {}
  BY EmptyIsSeq, SeqIs
<1> HIDE DEF none
<1>2. WellServices(none)
  BY <1>1 DEF WellServices
<1>3. o.services = none
  BY DEF none
<1> QED
  BY <1>2, <1>3 DEF WellObject

\* The objects of a line and of a descriptor
LEMMA LineIsWell ==
  ASSUME NEW line, Defined(initTransponder(line))
  PROVE  WellObject(initTransponder(line))
<1> DEFINE o == initTransponder(line)
           t == TerrestrialOf(line[3], line[4], line[5], line[6], line[7], line[8], line[9])
<1>1. o.services = <<>> /\ (o.kind = "terrestrial" => o.tuning = t)
  <2>1. CASE line[1] = "S"
    BY Zenon, <2>1 DEF initTransponder
  <2>2. CASE line[1] # "S"
    <3>1. o.tuning = t /\ o.services = <<>>
      BY <2>2 DEF initTransponder, TerrestrialOf
    <3> QED
      BY <3>1
  <2> QED
    BY <2>1, <2>2
<1> HIDE DEF o
<1>2. ASSUME o.kind = "terrestrial" PROVE WellTerrestrial(o.tuning)
  <2>1. \A p \in DOMAIN o.tuning : o.tuning[p] # Undefined
    BY <1>2 DEF Defined, o
  <2>2. \A p \in DOMAIN t : t[p] # Undefined
    <3> HIDE DEF t
    <3> QED
      BY <1>1, <1>2, <2>1
  <2>3. WellTerrestrial(t)
    BY <2>2, TerrestrialIs
  <2> HIDE DEF t
  <2> QED
    BY <1>1, <1>2, <2>3
<1>3. WellObject(o)
  BY <1>1, <1>2, NewIsWell
<1> QED
  BY <1>3 DEF o

\* The new objects of a list
LEMMA ListObjectsAreWell ==
  ASSUME StateInv, ScanAssumption, AirAssumption, TextAssumption, list < Len(ListsOf(front))
  PROVE  \A k \in DOMAIN ListObjects : WellObject(ListObjects[k])
<1> DEFINE lines == ListsOf(front)[list + 1]
           K == {k \in DOMAIN lines : ValidLine(lines[k])}
           valid == Picked(lines, K)
           f == [k \in DOMAIN valid |-> initTransponder(valid[k])]
<1>0. front \in DOMAIN Frontends /\ air \in Airs
  BY FrontendsAre, SeqIs DEF StateInv
<1>1. IsSeq(lines) /\ list + 1 \in DOMAIN ListsOf(front)
  <2>2. /\ IsSeq(ListsOf(front))
        /\ \A l \in DOMAIN ListsOf(front) : IsSeq(ListsOf(front)[l])
    BY <1>0 DEF AirAssumption, ListsOf
  <2>3. list + 1 \in DOMAIN ListsOf(front)
    <3>1. Len(ListsOf(front)) \in Nat /\ DOMAIN ListsOf(front) = 1 .. Len(ListsOf(front))
      BY <2>2, SeqIs
    <3> QED
      BY <3>1 DEF StateInv
  <2> QED
    BY <2>2, <2>3
<1>2. ListObjects = <<>> \o f
  <2>1. Those(lines, ValidLine) = valid
    BY DEF Those
  <2> QED
    BY <2>1 DEF ListObjects, Map
<1>6. ASSUME NEW l \in DOMAIN lines, ValidLine(lines[l]) PROVE Defined(initTransponder(lines[l]))
  <2> DEFINE line == lines[l]
  <2>1. line[1] = "T" /\ Len(line) >= 9 => Defined(initTransponder(line))
    BY <1>0, <1>1 DEF TextAssumption, ListsOf
  <2>2. CASE line[1] = "S"
    <3> HIDE DEF line
    <3>1. initTransponder(line).kind = "sat"
      BY Zenon, <2>2 DEF initTransponder
    <3>2. Defined(initTransponder(line))
      BY <3>1 DEF Defined
    <3> QED
      BY <3>2 DEF line
  <2>3. CASE line[1] # "S"
    <3>1. line[1] = "T" /\ Len(line) >= 9
      BY <1>6, <2>3 DEF ValidLine
    <3> QED
      BY <2>1, <3>1
  <2> QED
    BY <2>2, <2>3
<1> HIDE DEF lines
<1>3. IsSeq(valid)
  BY <1>1, PickedIs
<1>7. ASSUME NEW k \in DOMAIN valid PROVE WellObject(initTransponder(valid[k]))
  <2> DEFINE S == DOMAIN Picked(lines, K)
             T == K \cap DOMAIN lines
  <2> HIDE DEF K
  <2>1. PICK g \in Bijection(S, T) : \A j \in S : Picked(lines, K)[j] = lines[g[j]]
    BY <1>1, PickedIs
  <2>2. g[k] \in T /\ valid[k] = lines[g[k]]
    <3>1. g \in [S -> T]
      BY Fun_IsBij DEF Bijection, Injection
    <3> QED
      BY <2>1, <3>1
  <2>3. g[k] \in DOMAIN lines /\ ValidLine(lines[g[k]])
    BY <2>2 DEF K
  <2>4. Defined(initTransponder(valid[k]))
    BY <1>6, <2>2, <2>3
  <2> HIDE DEF valid
  <2> QED
    BY <2>4, LineIsWell
<1> HIDE DEF valid
<1>4. f = [k \in DOMAIN valid |-> f[k]]
  OBVIOUS
<1>5. IsSeq(f) /\ <<>> \o f = f
  <2> HIDE DEF f
  <2> QED
    BY <1>3, <1>4, FunIs
<1>8. \A k \in DOMAIN f : WellObject(f[k])
  BY <1>7
<1> QED
  BY <1>2, <1>5, <1>8

\* What scanNit makes of a descriptor
LEMMA DeliveredAreWell ==
  ASSUME NEW ts, IsSeq(ts.descriptors), NEW k \in DOMAIN Delivered(ts), Defined(Delivered(ts)[k])
  PROVE  WellObject(Delivered(ts)[k])
<1> DEFINE ds == Descriptors(ts.descriptors)
           delivery == Those(ds, LAMBDA d : d.tag \in {SatelliteTag, TerrestrialTag})
           sat(d) ==
             [kind |-> "sat", freq |-> SatFrequency(d), tsid |-> ts.tsid, services |-> <<>>,
              tuning |-> [satPosition |-> d.position, satNum |-> InvalidSatNum,
                          symbolRate |-> SatSymbolRate(d),
                          polarization |-> polarization(d.polarization)]]
           g(d) == TerrestrialOf(bandwidth(d.bandwidth), codeRate(d.codeRateHP), codeRate(d.codeRateLP),
                     constellation(d.constellation), transmissionMode(d.transmissionMode),
                     guardInterval(d.guardInterval), hierarchyInformation(d.hierarchy))
           terrestrial(d) ==
             [kind |-> "terrestrial", freq |-> d.frequency * 10, tsid |-> ts.tsid, services |-> <<>>,
              tuning |-> g(d)]
           made(d) == IF d.tag = SatelliteTag THEN sat(d) ELSE terrestrial(d)
           f == [j \in DOMAIN delivery |-> made(delivery[j])]
           o == Delivered(ts)[k]
<1>1. Delivered(ts) = <<>> \o f
  BY DEF Delivered, Map, TerrestrialOf
<1>2. IsSeq(delivery)
  <2>1. IsSeq(Delivered(ts))
    BY DeliveredAre
  <2> DEFINE K == {j \in DOMAIN ds : ds[j].tag \in {SatelliteTag, TerrestrialTag}}
  <2>2. delivery = Picked(ds, K)
    BY DEF Those
  <2>3. IsSeq(ds)
    BY DescriptorsAre
  <2> HIDE DEF K, ds
  <2>4. IsSeq(Picked(ds, K))
    BY <2>3, PickedIs
  <2> QED
    BY <2>2, <2>4
<1> HIDE DEF ds, delivery, made
<1>3. f = [j \in DOMAIN delivery |-> f[j]]
  OBVIOUS
<1>4. <<>> \o f = f /\ DOMAIN f = DOMAIN delivery
  <2> HIDE DEF f
  <2> QED
    BY <1>2, <1>3, FunIs
<1>5. k \in DOMAIN delivery /\ o = made(delivery[k])
  BY <1>1, <1>4
<1> DEFINE d == delivery[k]
<1> HIDE DEF f, o, d
<1>6. o.services = <<>> /\ (o.kind = "terrestrial" => o.tuning = g(d))
  <2>1. o = made(d)
    BY <1>5 DEF d
  <2> HIDE DEF g
  <2>2. CASE d.tag = SatelliteTag
    <3>1. o = sat(d)
      BY <2>1, <2>2 DEF made
    <3> QED
      BY <3>1
  <2>3. CASE d.tag # SatelliteTag
    <3>1. o = terrestrial(d)
      BY <2>1, <2>3 DEF made
    <3> QED
      BY <3>1
  <2> QED
    BY <2>2, <2>3
<1>7. ASSUME o.kind = "terrestrial" PROVE WellTerrestrial(o.tuning)
  <2>1. \A p \in DOMAIN o.tuning : o.tuning[p] # Undefined
    BY <1>7 DEF Defined, o
  <2> DEFINE t == g(d)
  <2>2. \A p \in DOMAIN t : t[p] # Undefined
    <3> HIDE DEF t
    <3>1. o.tuning = t
      BY <1>6, <1>7 DEF t
    <3> QED
      BY <2>1, <3>1
  <2>3. WellTerrestrial(t)
    BY <2>2, TerrestrialIs
  <2> QED
    BY <1>6, <1>7, <2>3
<1>8. WellObject(o)
  BY <1>6, <1>7, NewIsWell
<1> QED
  BY <1>8 DEF o

\* The new objects of a NIT
LEMMA AdditionalAreWell ==
  ASSUME AirAssumption, TextAssumption, NEW m \in air.muxes, air \in Airs
  PROVE  \A k \in DOMAIN Additional(m) : WellObject(Additional(m)[k])
<1>1. CASE ~Timely("NIT")
  <2>1. Additional(m) = <<>> /\ DOMAIN <<>> = {}
    BY <1>1, EmptyIsSeq, SeqIs DEF Additional
  <2> QED
    BY <2>1
<1>2. CASE Timely("NIT")
  <2> DEFINE streams == Flat(m.nit)
             each == [k \in DOMAIN streams |-> Delivered(streams[k])]
  <2>1. IsSeq(m.nit) /\ \A k \in DOMAIN m.nit :
          IsSeq(m.nit[k]) /\ \A j \in DOMAIN m.nit[k] : IsSeq(m.nit[k][j].descriptors)
    BY DEF AirAssumption
  <2>2. IsSeq(streams) /\ \A k \in DOMAIN streams : IsSeq(streams[k].descriptors)

          /\ \A i \in DOMAIN Delivered(streams[k]) : Defined(Delivered(streams[k])[i])
    <3>1. /\ IsSeq(streams)
          /\ \A j \in DOMAIN streams :
               \E i \in DOMAIN m.nit : \E k \in DOMAIN m.nit[i] : streams[j] = m.nit[i][k]
      BY <2>1, FlatElements
    <3>2. \A i \in DOMAIN m.nit : \A k \in DOMAIN m.nit[i] :
            \A j \in DOMAIN Delivered(m.nit[i][k]) : Defined(Delivered(m.nit[i][k])[j])
      BY DEF TextAssumption
    <3>3. ASSUME NEW j \in DOMAIN streams
          PROVE  /\ IsSeq(streams[j].descriptors)
                 /\ \A i \in DOMAIN Delivered(streams[j]) : Defined(Delivered(streams[j])[i])
      <4>1. PICK i \in DOMAIN m.nit : \E k \in DOMAIN m.nit[i] : streams[j] = m.nit[i][k]
        BY <3>1
      <4>2. PICK k \in DOMAIN m.nit[i] : streams[j] = m.nit[i][k]
        BY <4>1
      <4> HIDE DEF streams
      <4>3. IsSeq(m.nit[i][k].descriptors)
        BY <2>1
      <4>4. \A l \in DOMAIN Delivered(m.nit[i][k]) : Defined(Delivered(m.nit[i][k])[l])
        BY <3>2
      <4> QED
        BY <4>2, <4>3, <4>4
    <3> HIDE DEF streams
    <3> QED
      BY <3>1, <3>3
  <2>3. Map(Delivered, streams) = <<>> \o each
    BY DEF Map
  <2>4. \A i \in DOMAIN each :
          IsSeq(each[i]) /\ \A k \in DOMAIN each[i] : WellObject(each[i][k])
    BY <2>2, DeliveredAre, DeliveredAreWell
  <2>5. each = [k \in DOMAIN streams |-> each[k]]
    OBVIOUS
  <2> HIDE DEF streams, each
  <2>6. IsSeq(each) /\ <<>> \o each = each
    BY <2>2, <2>5, FunIs
  <2> DEFINE all == Flat(each)
             init(t) == IF t.kind = "sat"
                        THEN [t EXCEPT !.tuning.satNum = getSatNum(t.tuning.satPosition)] ELSE t
             made == [k \in DOMAIN all |-> init(all[k])]
  <2>7. IsSeq(all) /\ \A k \in DOMAIN all : WellObject(all[k]) /\ Object(all[k])
    <3>1. /\ IsSeq(all)
          /\ \A j \in DOMAIN all :
               \E i \in DOMAIN each : \E k \in DOMAIN each[i] : all[j] = each[i][k]
      BY <2>4, <2>6, FlatElements
    <3>2. \A i \in DOMAIN each : \A k \in DOMAIN each[i] : Object(each[i][k])
      BY <2>2, DeliveredAre DEF each
    <3> QED
      BY <2>4, <3>1, <3>2
  <2>8. Additional(m) = <<>> \o made
    BY <1>2, <2>3, <2>6 DEF Additional, Map, streams
  <2>9. ASSUME NEW t, WellObject(t), Object(t) PROVE WellObject(init(t))
    <3>1. CASE t.kind # "sat"
      BY <2>9, <3>1
    <3>2. CASE t.kind = "sat"
      <4> DEFINE n == getSatNum(t.tuning.satPosition)
                 q == [t.tuning EXCEPT !.satNum = n]
                 u == [t EXCEPT !.tuning = q]
      <4>1. init(t) = u
        BY <3>2
      <4> HIDE DEF q
      <4>2. u.services = t.services /\ u.kind = "sat"
        BY <2>9, <3>2 DEF Object
      <4> HIDE DEF u
      <4>3. WellObject(u)
        BY <2>9, <4>2 DEF WellObject
      <4> QED
        BY <4>1, <4>3
    <3> QED
      BY <3>1, <3>2
  <2> HIDE DEF all, init
  <2>10. \A k \in DOMAIN made : WellObject(made[k])
    BY <2>7, <2>9
  <2>11. made = [k \in DOMAIN all |-> made[k]]
    OBVIOUS
  <2> HIDE DEF made
  <2>12. <<>> \o made = made
    BY <2>7, <2>11, FunIs
  <2> QED
    BY <2>8, <2>10, <2>12
<1> QED
  BY <1>1, <1>2

\* What Picked returns are elements
LEMMA PickedElements ==
  ASSUME NEW s, IsSeq(s), NEW K
  PROVE  \A j \in DOMAIN Picked(s, K) : \E k \in DOMAIN s : Picked(s, K)[j] = s[k]
<1> DEFINE S == DOMAIN Picked(s, K)
           T == K \cap DOMAIN s
<1>1. PICK g \in Bijection(S, T) : \A j \in S : Picked(s, K)[j] = s[g[j]]
  BY PickedIs
<1>2. g \in [S -> T]
  BY DEF Bijection, Injection
<1>3. ASSUME NEW j \in S PROVE \E k \in DOMAIN s : Picked(s, K)[j] = s[k]
  <2>1. g[j] \in DOMAIN s /\ Picked(s, K)[j] = s[g[j]]
    BY <1>1, <1>2
  <2> QED
    BY <2>1
<1> QED
  BY <1>3

\* The state of a service, its names, and its streams are replaced
LEMMA WellWith ==
  ASSUME NEW s, WellService(s), NEW x, NEW y, NEW z, NEW flag \in BOOLEAN, NEW ss, IsSeq(ss),
         \A k \in DOMAIN ss : WellStream(ss[k])
  PROVE  /\ WellService([s EXCEPT !.status = x, !.scrambled = flag])
         /\ WellService([s EXCEPT !.type = x, !.provider = y, !.name = z])
         /\ WellService([s EXCEPT !.streams = ss, !.pcr = x])
<1>1. s = [name |-> s.name, sid |-> s.sid, pmtid |-> s.pmtid, streams |-> s.streams, pcr |-> s.pcr,
           status |-> s.status, scrambled |-> s.scrambled, provider |-> s.provider, type |-> s.type]
  BY DEF WellService
<1>2. DOMAIN s = {"name", "sid", "pmtid", "streams", "pcr", "status", "scrambled", "provider", "type"}
  BY <1>1
<1>3. ASSUME NEW u,
             u = [name |-> u.name, sid |-> u.sid, pmtid |-> u.pmtid, streams |-> u.streams, pcr |-> u.pcr,
                  status |-> u.status, scrambled |-> u.scrambled, provider |-> u.provider, type |-> u.type],
             u.streams = s.streams \/ u.streams = ss, u.scrambled = s.scrambled \/ u.scrambled = flag
      PROVE  WellService(u)
  <2>1. IsSeq(u.streams) /\ \A k \in DOMAIN u.streams : WellStream(u.streams[k])
    <3>1. CASE u.streams = s.streams
      BY <3>1 DEF WellService
    <3>2. CASE u.streams = ss
      BY <3>2
    <3> QED
      BY <1>3, <3>1, <3>2
  <2>2. u.scrambled \in BOOLEAN
    BY <1>3 DEF WellService
  <2> QED
    BY <1>3, <2>1, <2>2 DEF WellService
<1>4. ASSUME NEW a, NEW f, f \in DOMAIN s
      PROVE  LET u == [s EXCEPT ![f] = a]
             IN DOMAIN u = DOMAIN s /\ \A g \in DOMAIN s : u[g] = IF g = f THEN a ELSE s[g]
  BY <1>4
<1>5. ASSUME NEW u,
             u = [g \in DOMAIN s |-> u[g]]
      PROVE  u = [name |-> u.name, sid |-> u.sid, pmtid |-> u.pmtid, streams |-> u.streams, pcr |-> u.pcr,
                  status |-> u.status, scrambled |-> u.scrambled, provider |-> u.provider, type |-> u.type]
  BY <1>2, <1>5
<1>6. WellService([s EXCEPT !.status = x, !.scrambled = flag])
  <2> DEFINE u == [s EXCEPT !.status = x, !.scrambled = flag]
  <2>1. u = [g \in DOMAIN s |-> u[g]] /\ u.streams = s.streams /\ u.scrambled = flag
    BY <1>2
  <2> HIDE DEF u
  <2>2. WellService(u)
    BY <1>3, <1>5, <2>1
  <2> QED
    BY <2>2 DEF u
<1>7. WellService([s EXCEPT !.type = x, !.provider = y, !.name = z])
  <2> DEFINE u == [s EXCEPT !.type = x, !.provider = y, !.name = z]
  <2>1. u = [g \in DOMAIN s |-> u[g]] /\ u.streams = s.streams /\ u.scrambled = s.scrambled
    BY <1>2
  <2> HIDE DEF u
  <2>2. WellService(u)
    BY <1>3, <1>5, <2>1
  <2> QED
    BY <2>2 DEF u
<1>8. WellService([s EXCEPT !.streams = ss, !.pcr = x])
  <2> DEFINE u == [s EXCEPT !.streams = ss, !.pcr = x]
  <2>1. u = [g \in DOMAIN s |-> u[g]] /\ u.streams = ss /\ u.scrambled = s.scrambled
    BY <1>2
  <2> HIDE DEF u
  <2>2. WellService(u)
    BY <1>3, <1>5, <2>1
  <2> QED
    BY <2>2 DEF u
<1> QED
  BY <1>6, <1>7, <1>8

\* The entries of an SDT
WellEntries(entries) ==
  IsSeq(entries) /\ \A k \in DOMAIN entries : entries[k].scrambled \in BOOLEAN

\* A service is well after its entries are read
LEMMA DescribedIsWell ==
  ASSUME NEW s, WellService(s), NEW entries, WellEntries(entries)
  PROVE  WellService(Described(s, entries))
<1> DEFINE taken(e) == Descriptors(e.descriptors)
           names == Those(Flat(Map(taken, entries)), LAMBDA d : d.tag = ServiceTag)
           state == IF entries = <<>> THEN s
                    ELSE [s EXCEPT !.status = statusToString(Last(entries).status),
                                   !.scrambled = Last(entries).scrambled]
           named == [state EXCEPT !.type = typeToString(Last(names).type),
                                  !.provider = Last(names).provider, !.name = Last(names).name]
           none == <<>>
<1>1. Described(s, entries) = IF names = <<>> THEN state ELSE named
  BY DEF Described
<1>2. IsSeq(none) /\ \A k \in DOMAIN none : WellStream(none[k])
  <2>1. IsSeq(none) /\ DOMAIN none = {}
    BY EmptyIsSeq, SeqIs
  <2> HIDE DEF none
  <2> QED
    BY <2>1
<1> HIDE DEF none
<1>3. WellService(state)
  <2>1. CASE entries = <<>>
    BY <2>1
  <2>2. CASE entries # <<>>
    <3> DEFINE flag == Last(entries).scrambled
               x == statusToString(Last(entries).status)
    <3>1. flag \in BOOLEAN
      <4>1. IsSeq(entries)
        BY DEF WellEntries
      <4>2. Len(entries) \in Nat /\ DOMAIN entries = 1 .. Len(entries) /\ Len(entries) # 0
        BY <2>2, <4>1, SeqIs
      <4>3. Len(entries) \in DOMAIN entries
        BY <4>2
      <4> QED
        BY <4>3 DEF WellEntries, Last
    <3>2. state = [s EXCEPT !.status = x, !.scrambled = flag]
      BY <2>2
    <3> HIDE DEF flag, x, state
    <3>3. WellService([s EXCEPT !.status = x, !.scrambled = flag])
      BY Zenon, <1>2, <3>1, WellWith
    <3> QED
      BY <3>2, <3>3
  <2> QED
    BY <2>1, <2>2
<1> HIDE DEF state
<1>4. WellService(named)
  <2> DEFINE x == typeToString(Last(names).type)
             y == Last(names).provider
             z == Last(names).name
             flag == FALSE
  <2>1. named = [state EXCEPT !.type = x, !.provider = y, !.name = z] /\ flag \in BOOLEAN
    OBVIOUS
  <2> HIDE DEF x, y, z, named, flag
  <2>2. WellService([state EXCEPT !.type = x, !.provider = y, !.name = z])
    BY Zenon, <1>2, <1>3, <2>1, WellWith
  <2> QED
    BY <2>1, <2>2
<1> HIDE DEF named, names
<1> QED
  BY <1>1, <1>3, <1>4

\* The streams of a PMT
StreamsOf(sections, pid) ==
  LET stream(s) == [type |-> streamTypeToString(s.code), pid |-> s.pid]
      streams(section) == Map(stream, section.streams) \o <<[type |-> "programMapTable", pid |-> pid]>>
  IN Flat(Map(streams, sections))

\* The streams of a PMT can be written
LEMMA StreamsAre ==
  ASSUME NEW sections, IsSeq(sections), \A k \in DOMAIN sections : IsSeq(sections[k].streams), NEW pid
  PROVE  /\ IsSeq(StreamsOf(sections, pid))
         /\ \A k \in DOMAIN StreamsOf(sections, pid) : WellStream(StreamsOf(sections, pid)[k])
<1> DEFINE stream(s) == [type |-> streamTypeToString(s.code), pid |-> s.pid]
           last == [type |-> "programMapTable", pid |-> pid]
           streams(section) == Map(stream, section.streams) \o <<last>>
           each == [k \in DOMAIN sections |-> streams(sections[k])]
           ss == Flat(Map(streams, sections))
<1>1. ASSUME NEW k \in DOMAIN sections
      PROVE  IsSeq(streams(sections[k])) /\ \A j \in DOMAIN streams(sections[k]) : WellStream(streams(sections[k])[j])
  <2> DEFINE given == sections[k].streams
             g == [j \in DOMAIN given |-> stream(given[j])]
             one == <<last>>
             all == g \o one
  <2>0. IsSeq(given)
    OBVIOUS
  <2> HIDE DEF given
  <2>1. g = [j \in DOMAIN given |-> g[j]] /\ \A j \in DOMAIN g : WellStream(g[j])
    BY DEF WellStream
  <2> HIDE DEF stream, g
  <2>2. IsSeq(g) /\ <<>> \o g = g
    BY <2>0, <2>1, FunIs
  <2>3. IsSeq(one) /\ \A j \in DOMAIN one : WellStream(one[j])
    <3>1. WellStream(last)
      BY DEF WellStream
    <3> HIDE DEF last
    <3>2. IsSeq(one) /\ DOMAIN one = {1} /\ one[1] = last
      BY OneIs
    <3> HIDE DEF one
    <3> QED
      BY <3>1, <3>2
  <2>4. streams(sections[k]) = all
    <3>1. streams(sections[k]) = (<<>> \o g) \o one
      BY DEF Map, g, given
    <3> HIDE DEF one
    <3> QED
      BY <2>2, <3>1
  <2> HIDE DEF one
  <2>5. IsSeq(all)
    BY <2>2, <2>3, ConcatIs
  <2>6. ASSUME NEW j \in DOMAIN all PROVE WellStream(all[j])
    <3>1. \/ j \in DOMAIN g /\ all[j] = g[j]
          \/ j - Len(g) \in DOMAIN one /\ all[j] = one[j - Len(g)]
      <4>1. \A i \in DOMAIN g : all[i] = g[i]
        BY <2>2, <2>3, ConcatIs
      <4>2. j \in DOMAIN g \/ (j - Len(g) \in DOMAIN one /\ all[j] = one[j - Len(g)])
        BY <2>2, <2>3, ConcatIs
      <4> QED
        BY <4>1, <4>2
    <3> QED
      BY <2>1, <2>3, <3>1
  <2> HIDE DEF streams, all
  <2> QED
    BY <2>4, <2>5, <2>6
<1> HIDE DEF streams
<1>2. each = [k \in DOMAIN sections |-> each[k]]
      /\ \A k \in DOMAIN sections : each[k] = streams(sections[k])
  OBVIOUS
<1>3. Map(streams, sections) = <<>> \o each
  BY DEF Map
<1> HIDE DEF each
<1>4. IsSeq(each) /\ <<>> \o each = each /\ DOMAIN each = DOMAIN sections
  BY <1>2, FunIs
<1>5. \A k \in DOMAIN each : IsSeq(each[k]) /\ \A j \in DOMAIN each[k] : WellStream(each[k][j])
  BY <1>1, <1>2, <1>4
<1>6. ss = Flat(each)
  BY <1>3, <1>4
<1> HIDE DEF ss
<1>7. /\ IsSeq(Flat(each))
      /\ \A j \in DOMAIN Flat(each) :
           \E i \in DOMAIN each : \E k \in DOMAIN each[i] : Flat(each)[j] = each[i][k]
  BY <1>4, <1>5, FlatElements
<1>8. IsSeq(ss) /\ \A k \in DOMAIN ss : WellStream(ss[k])
  BY <1>5, <1>6, <1>7
<1>9. StreamsOf(sections, pid) = ss
  BY Zenon DEF StreamsOf, ss, streams
<1> QED
  BY <1>8, <1>9

\* A service of the PAT with its PMT
LEMMA ScannedIsWell ==
  ASSUME AirAssumption, air \in Airs, NEW m \in air.muxes, NEW pmt \in FirstPmts(m),
         NEW p, p.pmtid \in DOMAIN m.pmt
  PROVE  WellService(Scanned(p, m, pmt))
<1> DEFINE s == NewService(p)
           none == <<>>
           sections == m.pmt[p.pmtid][pmt[p.pmtid]]
<1>1. WellService(s)
  <2>1. IsSeq(none) /\ DOMAIN none = {}
    BY EmptyIsSeq, SeqIs
  <2> HIDE DEF none
  <2>2. IsSeq(none) /\ \A k \in DOMAIN none : WellStream(none[k])
    BY <2>1
  <2> DEFINE sid == p.sid
             pid == p.pmtid
             zero == 0
             empty == ""
             no == FALSE
  <2>3. s = Fields(none, sid, pid, none, zero, empty, no, empty, empty) /\ no = FALSE
    BY DEF NewService, Fields, none
  <2> HIDE DEF s, sid, pid, zero, empty, no
  <2>4. /\ s = [name |-> s.name, sid |-> s.sid, pmtid |-> s.pmtid, streams |-> s.streams, pcr |-> s.pcr,
                status |-> s.status, scrambled |-> s.scrambled, provider |-> s.provider, type |-> s.type]
        /\ s.streams = none /\ s.scrambled = no
    BY <2>3 DEF Fields
  <2> QED
    BY <2>2, <2>3, <2>4 DEF WellService
<1>2. IsSeq(sections) /\ \A k \in DOMAIN sections : IsSeq(sections[k].streams)
  <2>1. pmt[p.pmtid] \in DOMAIN m.pmt[p.pmtid]
    BY DEF FirstPmts
  <2> QED
    BY <2>1, AirTables
<1>3. WellService(WithPmt(s, sections))
  <2> HIDE DEF s, sections
  <2> DEFINE pid == s.pmtid
             ss == StreamsOf(sections, pid)
             pcr == IF sections = <<>> THEN s.pcr ELSE Last(sections).pcr
             flag == FALSE
  <2>1. IsSeq(ss) /\ \A k \in DOMAIN ss : WellStream(ss[k])
    <3> HIDE DEF pid
    <3> QED
      BY <1>2, StreamsAre
  <2>2. WithPmt(s, sections) = [s EXCEPT !.streams = ss, !.pcr = pcr]
    BY Zenon DEF WithPmt, StreamsOf
  <2>3. flag \in BOOLEAN
    OBVIOUS
  <2> HIDE DEF ss, pcr, flag
  <2>4. WellService([s EXCEPT !.streams = ss, !.pcr = pcr])
    BY Zenon, <1>1, <2>1, <2>3, WellWith
  <2> QED
    BY <2>2, <2>4
<1> QED
  BY <1>1, <1>3 DEF Scanned

\* The entries that are read of an SDT are some of its own
LEMMA SdtReadAre ==
  ASSUME NEW entries, WellEntries(entries), \A k \in DOMAIN entries : entries[k].size \in Nat
  PROVE  WellEntries(SdtRead(entries))
<1>1. IsSeq(entries) /\ Len(entries) \in Nat /\ DOMAIN entries = 1 .. Len(entries)
  BY SeqIs DEF WellEntries
<1>2. PICK g : SdtRead(entries) = SubSeq(entries, 1,
                 Cardinality({k \in DOMAIN entries : g[k - 1] + 11 < g[Len(entries)]}))
  BY <1>1, EndsEquation
<1> DEFINE S == {k \in DOMAIN entries : g[k - 1] + 11 < g[Len(entries)]}
           n == Cardinality(S)
           read == SubSeq(entries, 1, n)
<1>3. n \in Nat /\ n <= Len(entries)
  <2>1. IsFiniteSet(1 .. Len(entries)) /\ Cardinality(1 .. Len(entries)) = Len(entries)
    BY <1>1, FS_Interval
  <2>2. S \subseteq 1 .. Len(entries)
    BY <1>1
  <2> HIDE DEF S
  <2>3. IsFiniteSet(S) /\ Cardinality(S) <= Cardinality(1 .. Len(entries))
    BY <2>1, <2>2, FS_Subset
  <2> QED
    BY <2>1, <2>3, FS_CardinalityType
<1> HIDE DEF n
<1>4. IsSeq(read) /\ DOMAIN read = 1 .. n /\ \A k \in 1 .. n : k \in DOMAIN entries /\ read[k] = entries[k]
  <2>1. /\ IsSeq(read) /\ Len(read) = n
        /\ \A k \in 1 .. n : k \in DOMAIN entries /\ read[k] = entries[k]
    BY <1>1, <1>3, FirstsAre
  <2> HIDE DEF read
  <2> QED
    BY <2>1, SeqIs
<1>5. SdtRead(entries) = read
  BY <1>2 DEF n
<1> HIDE DEF read
<1> QED
  BY <1>4, <1>5 DEF WellEntries

\* All entries of an SDT
LEMMA SdtIsWell ==
  ASSUME AirAssumption, TextAssumption, air \in Airs, NEW m \in air.muxes
  PROVE  WellEntries(Flat(Map(SdtRead, m.sdt)))
<1> DEFINE each == [k \in DOMAIN m.sdt |-> SdtRead(m.sdt[k])]
<1>1. IsSeq(m.sdt)
  BY AirTables
<1>2. ASSUME NEW k \in DOMAIN m.sdt PROVE WellEntries(SdtRead(m.sdt[k]))
  <2> DEFINE section == m.sdt[k]
  <2>1. IsSeq(section) /\ \A j \in DOMAIN section : section[j].size \in Nat
    BY AirTables
  <2>2. \A j \in DOMAIN section : section[j].scrambled \in BOOLEAN
    BY DEF TextAssumption
  <2> HIDE DEF section
  <2>3. WellEntries(SdtRead(section))
    BY <2>1, <2>2, SdtReadAre DEF WellEntries
  <2> QED
    BY <2>3 DEF section
<1>3. each = [k \in DOMAIN m.sdt |-> each[k]] /\ \A k \in DOMAIN m.sdt : each[k] = SdtRead(m.sdt[k])
  OBVIOUS
<1>4. Map(SdtRead, m.sdt) = <<>> \o each
  BY DEF Map
<1> HIDE DEF each
<1>5. IsSeq(each) /\ <<>> \o each = each /\ DOMAIN each = DOMAIN m.sdt
  BY <1>1, <1>3, FunIs
<1>6. \A k \in DOMAIN each : WellEntries(each[k])
  BY <1>2, <1>3, <1>5
<1>7. \A k \in DOMAIN each : IsSeq(each[k])
  BY <1>6 DEF WellEntries
<1>8. /\ IsSeq(Flat(each))
      /\ \A j \in DOMAIN Flat(each) :
           \E i \in DOMAIN each : \E k \in DOMAIN each[i] : Flat(each)[j] = each[i][k]
  BY <1>5, <1>7, FlatElements
<1>9. WellEntries(Flat(each))
  BY <1>6, <1>8 DEF WellEntries
<1> QED
  BY <1>4, <1>5, <1>9

\* The services of a transponder whose tables are read
LEMMA ServicesAreWell ==
  ASSUME AirAssumption, TextAssumption, air \in Airs, NEW m \in air.muxes, NEW pmt \in FirstPmts(m)
  PROVE  WellServices(ServicesOf(m, pmt))
<1> DEFINE ps == Programs(m)
           one(p) == Scanned(p, m, pmt)
           scanned == [k \in DOMAIN ps |-> one(ps[k])]
           E == Flat(Map(SdtRead, m.sdt))
<1>1. IsSeq(ps) /\ \A k \in DOMAIN ps : ps[k].pmtid \in DOMAIN m.pmt
  BY ProgramsAre
<1>2. \A k \in DOMAIN ps : WellService(one(ps[k]))
  BY <1>1, ScannedIsWell
<1>3. <<>> \o scanned = scanned /\ IsSeq(scanned) /\ \A k \in DOMAIN scanned : WellService(scanned[k])
  <2>1. scanned = [k \in DOMAIN ps |-> scanned[k]] /\ \A k \in DOMAIN ps : scanned[k] = one(ps[k])
    OBVIOUS
  <2> HIDE DEF scanned, ps, one
  <2>2. IsSeq(scanned) /\ <<>> \o scanned = scanned /\ DOMAIN scanned = DOMAIN ps
    BY <1>1, <2>1, FunIs
  <2> QED
    BY <1>2, <2>1, <2>2
<1>4. ServicesOf(m, pmt) = WithSdt(scanned, m)
  BY <1>3 DEF ServicesOf, Map
<1> HIDE DEF scanned
<1>5. WithSdt(scanned, m) = IF Timely("SDT") THEN WithEntries(scanned, E) ELSE scanned
  BY DEF WithSdt
<1>6. WellEntries(E)
  BY SdtIsWell
<1> HIDE DEF E
<1> DEFINE first(k) == \A j \in 1 .. k - 1 : scanned[j].sid # scanned[k].sid
           of(k) == Those(E, LAMBDA e : e.sid = scanned[k].sid)
           with == [k \in DOMAIN scanned |-> IF first(k) THEN Described(scanned[k], of(k)) ELSE scanned[k]]
<1>7. WithEntries(scanned, E) = with
  BY DEF WithEntries
<1>8. ASSUME NEW k \in DOMAIN scanned PROVE WellService(Described(scanned[k], of(k)))
  <2> DEFINE K == {j \in DOMAIN E : E[j].sid = scanned[k].sid}
  <2>1. of(k) = Picked(E, K)
    BY DEF Those
  <2> HIDE DEF K, of
  <2>2. IsSeq(E)
    BY <1>6 DEF WellEntries
  <2>3. IsSeq(Picked(E, K))
    BY <2>2, PickedIs
  <2>4. \A j \in DOMAIN Picked(E, K) : \E i \in DOMAIN E : Picked(E, K)[j] = E[i]
    BY <2>2, PickedElements
  <2>5. WellEntries(Picked(E, K))
    BY <1>6, <2>3, <2>4 DEF WellEntries
  <2> QED
    BY <1>3, <2>1, <2>5, DescribedIsWell
<1>9. WellServices(with)
  <2> HIDE DEF first, of
  <2>1. \A k \in DOMAIN scanned : WellService(with[k])
    BY <1>3, <1>8
  <2>2. with = [k \in DOMAIN scanned |-> with[k]]
    OBVIOUS
  <2> HIDE DEF with
  <2>3. IsSeq(with) /\ DOMAIN with = DOMAIN scanned
    BY <1>3, <2>2, FunIs
  <2> QED
    BY <2>1, <2>3 DEF WellServices
<1>10. WellServices(scanned)
  BY <1>3 DEF WellServices
<1> QED
  BY <1>4, <1>5, <1>7, <1>9, <1>10

-------------------------------------------------------------------------------
(* What the steps do to the objects *)

\* Objects of the same kind, with the same services and terrestrial parameters
SameShape(o, u) ==
  /\ u.kind = o.kind /\ u.services = o.services
  /\ o.kind = "terrestrial" => u.tuning = o.tuning

\* Tuning keeps the kinds, and a terrestrial frontend knows of no satellite
LEMMA TuneKinds ==
  ASSUME HeapInv, NEW a \in 1 .. Places, heap[a] # Nobody, Tune(a)
  PROVE  /\ \A b \in 1 .. Places : SameShape(heap[b], heap'[b])
         /\ \A b \in 1 .. Places : heap[b] = Nobody => heap'[b] = Nobody
         /\ heap[a].kind = "terrestrial" => satnums' = satnums
<1>1. Object(heap[a])
  BY DEF HeapInv
<1>2. CASE heap[a].kind = "sat"
  <2>1. TuneSat(a)
    BY <1>2 DEF Tune
  <2>2. PICK i \in Locks(heap[a]) : heap' = [heap EXCEPT ![a].tuning.satNum = i]
    BY Zenon, <2>1 DEF TuneSat
  <2> DEFINE t == heap[a]
             k == t.kind
             f == t.freq
             n == t.tsid
             s == t.services
             g == t.tuning
             q == [g EXCEPT !.satNum = i]
             u == [t EXCEPT !.tuning = q]
  <2>3. heap' = [heap EXCEPT ![a] = u]
    BY <2>2
  <2>4. t = [kind |-> k, freq |-> f, tsid |-> n, services |-> s, tuning |-> g]
    BY <1>1 DEF Object
  <2>5. k = "sat" /\ s = t.services /\ k = t.kind
    BY <1>2
  <2> HIDE DEF q, k, f, n, s, g
  <2> HIDE DEF t
  <2>6. u.kind = k /\ u.services = s
    BY <2>4
  <2> HIDE DEF u
  <2>7. SameShape(heap[a], u)
    BY <2>5, <2>6 DEF SameShape, t
  <2>8. heap = [b \in 1 .. Places |-> heap[b]]
    BY DEF HeapInv
  <2>9. heap'[a] = u /\ \A b \in 1 .. Places : b # a => heap'[b] = heap[b]
    BY <2>3, <2>8
  <2>10. \A b \in 1 .. Places : SameShape(heap[b], heap'[b])
    BY <2>7, <2>9 DEF SameShape
  <2> QED
    BY <1>2, <2>9, <2>10
<1>3. CASE heap[a].kind # "sat"
  <2>1. heap' = heap /\ satnums' = satnums
    BY <1>3 DEF Tune, TuneTerrestrial
  <2> QED
    BY <2>1 DEF SameShape
<1> QED
  BY <1>2, <1>3

\* Every object is well
ObjectsWell == \A a \in 1 .. Places : heap[a] = Nobody \/ WellObject(heap[a])

\* An object of the same shape is as well
LEMMA ShapeIsWell ==
  ASSUME ObjectsWell, \A b \in 1 .. Places : SameShape(heap[b], heap'[b]),
         \A b \in 1 .. Places : heap[b] = Nobody => heap'[b] = Nobody
  PROVE  ObjectsWell'
  BY DEF ObjectsWell, SameShape, WellObject

\* New objects are well
LEMMA StartListWell ==
  ASSUME ScanInv, ScanAssumption, AirAssumption, TextAssumption, ObjectsWell, StartList
  PROVE  ObjectsWell'
<1> DEFINE new == ListObjects
           places == NewPlaces(Len(new), FALSE)
<1>1. list < Len(ListsOf(front)) /\ HasRoom(Len(new), FALSE) /\ heap' = Placed(new, places)
  BY DEF StartList, ListObjects
<1>2. IsSeq(new) /\ \A k \in DOMAIN new : Object(new[k]) /\ WellObject(new[k])
  BY <1>1, ListObjectsAre, ListObjectsAreWell DEF ScanInv
<1>3. Len(new) \in Nat /\ DOMAIN new = 1 .. Len(new)
  <2> HIDE DEF new
  <2> QED
    BY <1>2, SeqIs
<1> HIDE DEF new
<1>4. DOMAIN places = 1 .. Len(new)
  BY <1>1, <1>3, FreedAre, NewAre DEF ScanAssumption, ScanInv
<1> HIDE DEF places
<1>5. /\ \A a \in 1 .. Places : a \notin ToSet(places) => Placed(new, places)[a] = heap[a]
      /\ \A a \in 1 .. Places : a \in ToSet(places) =>
           \E k \in DOMAIN new : Placed(new, places)[a] = new[k]
  BY <1>2, <1>3, <1>4, PlacedIs
<1> QED
  BY <1>1, <1>2, <1>5 DEF ObjectsWell

\* So is the transponder whose tables are read
LEMMA ScanTablesWell ==
  ASSUME ScanInv, HeldInv, ScanAssumption, AirAssumption, TextAssumption, ObjectsWell, ScanTables
  PROVE  ObjectsWell' /\ \A a \in Held \cup {cur.at} : heap'[a].kind = heap[a].kind
<1> DEFINE new == Additional(cur.mux)
<1>1. PICK pmt \in FirstPmts(cur.mux), reuse \in BOOLEAN :
          LET places == NewPlaces(Len(new), reuse)
          IN /\ HasRoom(Len(new), reuse)
             /\ heap' = [Placed(new, places) EXCEPT ![cur.at].tsid = cur.mux.tsid,
                                                    ![cur.at].services = ServicesOf(cur.mux, pmt)]
  BY DEF ScanTables
<1> DEFINE services == ServicesOf(cur.mux, pmt)
           places == NewPlaces(Len(new), reuse)
           before == Placed(new, places)
<1>2. /\ HasRoom(Len(new), reuse)
      /\ heap' = [before EXCEPT ![cur.at].tsid = cur.mux.tsid, ![cur.at].services = services]
  BY <1>1
<1> HIDE DEF services
<1>3. pc = "tables"
  BY DEF ScanTables
<1>4. cur.mux \in air.muxes /\ cur.at \in ToSet(IF stack = <<>> THEN initial ELSE known)
  BY <1>3 DEF ScanInv, ControlInv
<1>5. IsSeq(new) /\ \A k \in DOMAIN new : Object(new[k]) /\ WellObject(new[k])
  BY <1>4, AdditionalAre, AdditionalAreWell DEF ScanInv, StateInv
<1> HIDE DEF new
<1>6. Len(new) \in Nat /\ DOMAIN new = 1 .. Len(new)
  BY <1>5, SeqIs
<1>7. /\ DOMAIN places = 1 .. Len(new)
      /\ \A a \in ToSet(places) : a \in 1 .. Places /\ (heap[a] = Nobody \/ a \in dangling)
  BY <1>2, <1>6, FreedAre, NewAre DEF ScanAssumption, ScanInv
<1> HIDE DEF places
<1>8. /\ before = [a \in 1 .. Places |-> before[a]]
      /\ \A a \in 1 .. Places : a \notin ToSet(places) => before[a] = heap[a]
      /\ \A a \in 1 .. Places : a \in ToSet(places) => \E k \in DOMAIN new : before[a] = new[k]
  BY <1>5, <1>6, <1>7, PlacedIs
<1> HIDE DEF before
<1>9. cur.at \notin dangling /\ cur.at \in 1 .. Places /\ heap[cur.at] # Nobody
  <2>1. CASE stack = <<>>
    BY <1>4, <2>1, HeldAre DEF HeldInv, Held
  <2>2. CASE stack # <<>>
    BY <1>3, <1>4, <2>2 DEF HeldInv, Tried, ScanInv, HeapInv, Tracked
  <2> QED
    BY <2>1, <2>2
<1>10. before[cur.at] = heap[cur.at] /\ Object(heap[cur.at])
  BY <1>7, <1>8, <1>9 DEF ScanInv, HeapInv
<1>11. /\ \A a \in 1 .. Places : a # cur.at => heap'[a] = before[a]
       /\ heap'[cur.at].kind = before[cur.at].kind /\ heap'[cur.at].tuning = before[cur.at].tuning
       /\ heap'[cur.at].services = services
  <2> DEFINE at == cur.at
             old == before[at]
             tsid == cur.mux.tsid
             k == old.kind
             f == old.freq
             s == old.services
             g == old.tuning
             mid == [old EXCEPT !.tsid = tsid]
             res == [mid EXCEPT !.services = services]
  <2>1. old = [kind |-> k, freq |-> f, tsid |-> old.tsid, services |-> s, tuning |-> g]
    BY <1>10 DEF Object
  <2>2. heap' = [before EXCEPT ![at] = res]
    BY <1>2, <1>8, <1>9
  <2>3. at \in 1 .. Places /\ k = before[at].kind /\ g = before[at].tuning
    BY <1>9
  <2> HIDE DEF at, tsid, k, f, s, g, old
  <2>4. mid = [kind |-> k, freq |-> f, tsid |-> tsid, services |-> s, tuning |-> g]
    BY <2>1
  <2> HIDE DEF mid
  <2>5. res.kind = k /\ res.services = services /\ res.tuning = g
    BY <2>4
  <2> HIDE DEF res
  <2>6. heap'[at] = res /\ \A a \in 1 .. Places : a # at => heap'[a] = before[a]
    BY <1>8, <2>2, <2>3
  <2> QED
    BY <2>3, <2>5, <2>6 DEF at
<1>12. WellObject(heap'[cur.at])
  <2>1. WellServices(services)
    BY <1>4, ServicesAreWell DEF ScanInv, StateInv, services
  <2>2. WellObject(heap[cur.at])
    BY <1>9 DEF ObjectsWell
  <2> QED
    BY <1>10, <1>11, <2>1, <2>2 DEF WellObject
<1>13. ObjectsWell'
  <2>1. ASSUME NEW a \in 1 .. Places, a # cur.at PROVE heap'[a] = Nobody \/ WellObject(heap'[a])
    BY <1>5, <1>8, <1>11, <2>1 DEF ObjectsWell
  <2> QED
    BY <1>12, <2>1 DEF ObjectsWell
<1>14. ASSUME NEW a \in Held \cup {cur.at} PROVE heap'[a].kind = heap[a].kind
  <2>1. CASE a = cur.at
    BY <1>10, <1>11, <2>1
  <2>2. CASE a # cur.at
    <3>1. a \in Held /\ a \in 1 .. Places /\ a \notin ToSet(places)
      BY <1>7, <2>2, HeldAre DEF HeldInv
    <3> QED
      BY <1>8, <1>11, <2>2, <3>1
  <2> QED
    BY <2>1, <2>2
<1> QED
  BY <1>13, <1>14

-------------------------------------------------------------------------------
(* The kinds of the transponders *)

\* What is found, and what a scanNit or the reading of tables is running for, is of the
\* kind of the frontend, and a terrestrial frontend has no satellites.
KindsKept ==
  /\ \A a \in ToSet(found) \cup Ats(stack) : heap[a].kind = Kind(front)
  /\ pc = "tables" => heap[cur.at].kind = Kind(front)
  /\ Kind(front) = "terrestrial" => DOMAIN satnums = {}

\* What is held keeps its kind
LEMMA KindsSame ==
  ASSUME KindsKept, front' = front,
         \A a \in Held : heap'[a].kind = heap[a].kind,
         ToSet(found') \cup Ats(stack') \subseteq ToSet(found) \cup Ats(stack),
         pc' = "tables" => heap'[cur'.at].kind = Kind(front),
         satnums' = satnums \/ Kind(front) # "terrestrial"
  PROVE  KindsKept'
<1>1. Kind(front)' = Kind(front) /\ Ats(stack)' = Ats(stack')
  BY DEF Kind, Ats
<1>2. ASSUME NEW a \in ToSet(found') \cup Ats(stack') PROVE heap'[a].kind = Kind(front)
  BY DEF KindsKept, Held
<1> QED
  BY <1>1, <1>2 DEF KindsKept

\* What the frontend tunes to is of its kind
LEMMA TuneKindsKept ==
  ASSUME ScanInv, KindsKept, NEW a \in 1 .. Places, heap[a] # Nobody, Tunes(a), Tune(a), front' = front,
         ToSet(found') \cup Ats(stack') \subseteq ToSet(found) \cup Ats(stack)
  PROVE  KindsKept'
<1>1. /\ cur'.at = a /\ heap'[a].kind = heap[a].kind
      /\ \A b \in Held : heap'[b].kind = heap[b].kind
      /\ heap[a].kind = "terrestrial" => satnums' = satnums
  BY TuneKeeps, TuneKinds, HeldAre DEF ScanInv, StateInv, SameShape
<1>2. heap[a].kind = Kind(front)
  BY DEF Tunes
<1> QED
  BY <1>1, <1>2, KindsSame

\* A list begins, and outside scanNit
LEMMA OutsideKinds ==
  ASSUME ScanInv, HeldInv, ScanAssumption, AirAssumption, KindsKept,
         StartList \/ ScanInitial \/ EndList \/ WriteFile \/ TableTorn
  PROVE  KindsKept'
<1>1. front' = front /\ found' = found /\ Ats(stack') = Ats(stack)
  BY DEF StartList, ScanInitial, EndList, WriteFile, TableTorn, heapvars
<1>2. CASE StartList
  <2>1. pc' = "initial" /\ satnums' = satnums
    BY <1>2 DEF StartList
  <2>2. \A a \in Held : heap'[a] = heap[a]
    BY <1>2, StartListHeap
  <2> QED
    BY <1>1, <2>1, <2>2, KindsSame
<1>3. CASE EndList \/ WriteFile \/ TableTorn
  <2>1. heap' = heap /\ satnums' = satnums /\ (pc' = "tables" => pc = "tables" /\ cur' = cur)
    BY <1>3 DEF EndList, WriteFile, TableTorn, heapvars
  <2>2. pc' = "tables" => heap'[cur'.at].kind = Kind(front)
    BY <2>1 DEF KindsKept
  <2> QED
    BY <1>1, <2>1, <2>2, KindsSame
<1>4. CASE ScanInitial
  <2> DEFINE a == Head(queue)
  <2>1. /\ queue # <<>> /\ pc = "initial"
        /\ \/ Tunes(a) /\ Tune(a)
           \/ UNCHANGED <<heap, satnums, pc>>
    BY <1>4 DEF ScanInitial
  <2>5. queue # <<>>
    BY <2>1
  <2>2. a \in 1 .. Places /\ heap[a] # Nobody
    <3>1. IsSeq(queue) /\ ToSet(queue) \subseteq Tracked
      BY DEF ScanInv, HeapInv, Tracked
    <3>2. a \in ToSet(queue)
      BY <2>5, <3>1, TailIs, ToSetIs
    <3> QED
      BY <3>1, <3>2 DEF ScanInv, HeapInv
  <2> HIDE DEF a
  <2>3. CASE Tunes(a) /\ Tune(a)
    BY <1>1, <2>2, <2>3, TuneKindsKept
  <2>4. CASE UNCHANGED <<heap, satnums, pc>>
    BY <1>1, <2>1, <2>4, KindsSame
  <2> QED
    BY <2>1, <2>3, <2>4
<1> QED
  BY <1>2, <1>3, <1>4

\* The tables are read, or refused
LEMMA TablesKinds ==
  ASSUME ScanInv, HeldInv, ScanAssumption, AirAssumption, TextAssumption, ObjectsWell, KindsKept,
         ScanRefused \/ ScanTables
  PROVE  KindsKept'
<1>1. pc = "tables" /\ pc' = "nit" /\ front' = front /\ found' = found /\ satnums' = satnums
  BY DEF ScanRefused, ScanTables
<1>2. heap[cur.at].kind = Kind(front)
  BY <1>1 DEF KindsKept
<1>3. Ats(stack') \subseteq Ats(stack) \cup {cur.at} /\ \A a \in Held \cup {cur.at} : heap'[a].kind = heap[a].kind
  <2>1. CASE ScanTables
    BY <2>1, ScanTablesAts, ScanTablesWell
  <2>2. CASE ScanRefused
    <3>1. cur.at \in ToSet(IF stack = <<>> THEN initial ELSE known)
      BY <1>1 DEF ScanInv, ControlInv
    <3>2. heap' = heap
      BY <2>2, <3>1 DEF ScanRefused, Delete
    <3>3. CASE stack = <<>>
      <4> DEFINE f == [at |-> cur.at, rest |-> <<>>]
      <4>1. stack' = <<f>> /\ f.at = cur.at
        BY <2>2, <3>3 DEF ScanRefused
      <4> HIDE DEF f
      <4>2. Ats(stack') = {cur.at}
        BY <4>1, OneIs DEF Ats
      <4> QED
        BY <3>2, <4>2
    <3>4. CASE stack # <<>>
      BY <2>2, <3>2, <3>4 DEF ScanRefused
    <3> QED
      BY <3>3, <3>4
  <2> QED
    BY <2>1, <2>2
<1>4. Kind(front)' = Kind(front) /\ Ats(stack)' = Ats(stack')
  BY <1>1 DEF Kind, Ats
<1>5. ASSUME NEW a \in ToSet(found) \cup Ats(stack') PROVE heap'[a].kind = Kind(front)
  BY <1>2, <1>3 DEF KindsKept, Held
<1> QED
  BY <1>1, <1>4, <1>5 DEF KindsKept

\* A transponder of a NIT is known, or is tried
LEMMA NitKinds ==
  ASSUME ScanInv, HeldInv, KindsKept, NitKnown \/ NitTune
  PROVE  KindsKept'
<1> DEFINE a == Head(Top.rest)
           frames == NextOfNit
           n == Len(stack)
<1>1. /\ pc = "nit" /\ Top.rest # <<>> /\ stack' = frames
      /\ found' = found /\ front' = front
      /\ \/ UNCHANGED <<satnums, pc>> /\ (heap' = heap \/ heap' = [heap EXCEPT ![a] = Nobody])
         \/ Tunes(a) /\ Tune(a)
  BY DEF NitKnown, NitTune, Delete
<1>2. stack # <<>>
  BY <1>1 DEF ScanInv, ControlInv
<1>3. /\ Address(stack, <<n, 1>>) = a /\ Sound(stack, <<n, 1>>)
      /\ Ats(frames) = Ats(stack) /\ <<n, 1>> \in Waiting(stack)
  BY <1>1, <1>2, NextOfNitIs DEF ScanInv
<1> HIDE DEF a, frames, n
<1>4. a \notin Held /\ a \in 1 .. Places /\ heap[a] # Nobody
  BY <1>3 DEF HeldInv, Sound
<1>5. ToSet(found') \cup Ats(stack') \subseteq ToSet(found) \cup Ats(stack)
  BY <1>1, <1>3
<1>6. CASE Tunes(a) /\ Tune(a)
  BY <1>1, <1>4, <1>5, <1>6, TuneKindsKept
<1>7. CASE UNCHANGED <<satnums, pc>> /\ (heap' = heap \/ heap' = [heap EXCEPT ![a] = Nobody])
  <2>1. ASSUME NEW b \in Held PROVE heap'[b].kind = heap[b].kind
    <3>1. b \in 1 .. Places /\ b # a
      BY <1>4, HeldAre
    <3>2. heap = [c \in 1 .. Places |-> heap[c]]
      BY DEF ScanInv, HeapInv
    <3>3. heap'[b] = heap[b]
      BY <1>7, <3>1, <3>2
    <3> QED
      BY <3>3
  <2> QED
    BY <1>1, <1>5, <1>7, <2>1, KindsSame
<1> QED
  BY <1>1, <1>6, <1>7

\* A scanNit returns, or a frontend has done
LEMMA ReturnKinds ==
  ASSUME ScanInv, HeldInv, KindsKept, NitReturn \/ InitialReturn \/ EndFrontend
  PROVE  KindsKept'
<1>1. CASE NitReturn \/ InitialReturn
  <2>1. pc' # "tables" /\ front' = front /\ heap' = heap /\ satnums' = satnums
    BY <1>1 DEF NitReturn, InitialReturn
  <2> QED
    BY <1>1, <2>1, ReturnLists, KindsSame
<1>2. CASE EndFrontend
  <2>1. pc = "list" /\ pc' # "tables" /\ found' = <<>> /\ satnums' = <<>> /\ stack' = stack
    BY Zenon, <1>2 DEF EndFrontend
  <2>2. stack' = <<>>
    BY <2>1 DEF ScanInv, ControlInv
  <2>3. DOMAIN <<>> = {}
    BY EmptyIsSeq, SeqIs
  <2>4. Ats(stack)' = {} /\ ToSet(found') = {} /\ DOMAIN satnums' = {}
    BY <2>1, <2>2, <2>3 DEF Ats, ToSet
  <2> QED
    BY <2>1, <2>4 DEF KindsKept
<1> QED
  BY <1>1, <1>2

-------------------------------------------------------------------------------
(* The device *)

\* The frontends of the device are those of the hardware, and what they have is written
\* without loss.
DeviceIs ==
  /\ IsDevice(device)
  /\ \A a \in DOMAIN Hardware : device[a].id = Hardware[a].id
  /\ \A a \in DOMAIN Hardware : \A f \in DOMAIN Hardware[a].frontends :
       /\ device[a].frontends[f].type = Hardware[a].frontends[f].type
       /\ device[a].frontends[f].name = Hardware[a].frontends[f].name
       /\ WellFrontend(device[a].frontends[f])

\* Of every element something is made
LEMMA MapIs ==
  ASSUME NEW s, IsSeq(s), NEW m, NEW r, m = <<>> \o r, r = [k \in DOMAIN s |-> r[k]]
  PROVE  m = r /\ IsSeq(m) /\ DOMAIN m = DOMAIN s
  BY FunIs

\* What was found can be written
LEMMA FoundAreWell ==
  ASSUME ScanInv, ObjectsWell, KindsKept
  PROVE  LET ts == Map(Result, found)
         IN IsSeq(ts) /\ \A k \in DOMAIN ts : WellTransponder(Type(front), ts[k])
<1> DEFINE ts == Map(Result, found)
           r == [k \in DOMAIN found |-> Result(found[k])]
<1>1. IsSeq(found)
  BY DEF ScanInv, HeapInv
<1>2. ts = r /\ IsSeq(ts) /\ DOMAIN ts = DOMAIN found
  <2>1. ts = <<>> \o r /\ r = [k \in DOMAIN found |-> r[k]]
    BY DEF Map
  <2> HIDE DEF ts, r
  <2> QED
    BY <1>1, <2>1, MapIs
<1>3. ASSUME NEW k \in DOMAIN found PROVE WellTransponder(Type(front), Result(found[k]))
  <2> DEFINE a == found[k]
             t == Result(a)
  <2>1. a \in ToSet(found)
    BY <1>1, ToSetIs
  <2>2. a \in 1 .. Places /\ heap[a] # Nobody
    BY <2>1 DEF ScanInv, HeapInv, Tracked
  <2>3. Object(heap[a]) /\ WellObject(heap[a]) /\ heap[a].kind = Kind(front)
    BY <2>1, <2>2 DEF ScanInv, HeapInv, ObjectsWell, KindsKept
  <2> HIDE DEF a
  <2>4. /\ t = [freq |-> t.freq, tsid |-> t.tsid, services |-> t.services, tuning |-> t.tuning]
        /\ t.services = heap[a].services /\ t.tuning = heap[a].tuning
    BY DEF Result
  <2> HIDE DEF t
  <2>5. WellServices(t.services)
    BY <2>3, <2>4 DEF WellObject
  <2>6. t = [freq |-> t.freq, tsid |-> t.tsid, services |-> t.services, tuning |-> t.tuning]
    BY <2>4
  <2>7. ASSUME Type(front) = DVBS PROVE WellTransponder(Type(front), t)
    <3>1. heap[a].kind = "sat"
      BY <2>3, <2>7 DEF Kind
    <3>2. WellSat(t.tuning)
      BY <2>3, <2>4, <3>1 DEF Object, WellSat
    <3> QED
      BY <2>5, <2>6, <2>7, <3>2 DEF WellTransponder
  <2>8. ASSUME Type(front) # DVBS PROVE WellTransponder(Type(front), t)
    <3>1. heap[a].kind = "terrestrial"
      BY <2>3, <2>8 DEF Kind
    <3>2. WellTerrestrial(t.tuning)
      BY <2>3, <2>4, <3>1 DEF WellObject
    <3> QED
      BY <2>5, <2>6, <2>8, <3>2 DEF WellTransponder
  <2> QED
    BY <2>7, <2>8 DEF t, a
<1> QED
  BY <1>2, <1>3

\* So can the map of the satellites, which only a frontend for satellites has
LEMMA SatellitesAreWell ==
  ASSUME TextAssumption, KindsKept
  PROVE  /\ IsSeq(Satellites) /\ \A k \in DOMAIN Satellites : WellSatellite(Satellites[k])
         /\ Type(front) # DVBS => Satellites = <<>>
<1> DEFINE K == {k \in DOMAIN Positions : Positions[k] \in DOMAIN satnums}
           has == Picked(Positions, K)
           sat(pos) == [pos |-> pos, num |-> satnums[pos]]
           r == [k \in DOMAIN has |-> sat(has[k])]
           none == <<>>
<1>1. IsSeq(Positions)
  BY DEF TextAssumption
<1>2. Satellites = <<>> \o r
  BY DEF Satellites, Those, Map
<1>3. IsSeq(has)
  <2> HIDE DEF K
  <2> QED
    BY <1>1, PickedIs
<1>4. r = [k \in DOMAIN has |-> r[k]] /\ \A k \in DOMAIN has : WellSatellite(r[k])
  BY DEF WellSatellite
<1>5. Type(front) # DVBS => has = none
  <2> SUFFICES ASSUME Type(front) # DVBS PROVE has = none
    OBVIOUS
  <2>1. DOMAIN satnums = {}
    BY DEF Kind, KindsKept
  <2>2. K \cap DOMAIN Positions = {}
    BY <2>1
  <2> HIDE DEF K
  <2> QED
    BY <1>1, <2>2, PickedNone
<1> HIDE DEF r, has
<1>6. Satellites = r /\ IsSeq(r) /\ DOMAIN r = DOMAIN has /\ Len(r) = Len(has)
  BY <1>2, <1>3, <1>4, FunIs
<1>7. has = none => r = none
  BY <1>3, <1>6, SeqIs
<1> QED
  BY <1>4, <1>5, <1>6, <1>7

\* A frontend has done
LEMMA EndFrontendWritten ==
  ASSUME ScanInv, ScanAssumption, TextAssumption, ObjectsWell, KindsKept, DeviceIs, EndFrontend
  PROVE  DeviceIs'
<1> DEFINE i == Frontends[front][1]
           j == Frontends[front][2]
           fe == device'[i].frontends[j]
<1>1. /\ i \in DOMAIN Hardware /\ j \in DOMAIN Hardware[i].frontends
      /\ IsDevice(device') /\ \A a \in DOMAIN Hardware : device'[a].id = device[a].id
      /\ fe.type = device[i].frontends[j].type /\ fe.name = device[i].frontends[j].name
      /\ fe.transponders = Map(Result, found) /\ fe.sats = Satellites
      /\ \A a \in DOMAIN Hardware : \A f \in DOMAIN Hardware[a].frontends :
           a # i \/ f # j => device'[a].frontends[f] = device[a].frontends[f]
  BY EndFrontendDevice DEF DeviceIs
<1>2. Type(front) = Hardware[i].frontends[j].type
  BY Zenon DEF Type
<1>3. fe.type = Type(front) /\ fe.name = Hardware[i].frontends[j].name
  BY Zenon, <1>1, <1>2 DEF DeviceIs
<1>4. Frontend(fe)
  BY Zenon, <1>1 DEF IsDevice
<1>5. WellFrontend(fe)
  <2> HIDE DEF fe
  <2>1. IsSeq(fe.transponders) /\ \A k \in DOMAIN fe.transponders : WellTransponder(fe.type, fe.transponders[k])
    BY <1>1, <1>3, FoundAreWell
  <2>2. /\ IsSeq(fe.sats) /\ \A k \in DOMAIN fe.sats : WellSatellite(fe.sats[k])
        /\ fe.type # DVBS => fe.sats = <<>>
    BY <1>1, <1>3, SatellitesAreWell
  <2> QED
    BY <1>4, <2>1, <2>2 DEF WellFrontend, Frontend
<1> HIDE DEF i, j
<1>6. ASSUME NEW a \in DOMAIN Hardware, NEW f \in DOMAIN Hardware[a].frontends
      PROVE  /\ device'[a].frontends[f].type = Hardware[a].frontends[f].type
             /\ device'[a].frontends[f].name = Hardware[a].frontends[f].name
             /\ WellFrontend(device'[a].frontends[f])
  <2>1. CASE a = i /\ f = j
    BY <1>2, <1>3, <1>5, <2>1
  <2>2. CASE ~(a = i /\ f = j)
    BY SMTT(30), <1>1, <2>2 DEF DeviceIs
  <2> QED
    BY <2>1, <2>2
<1> QED
  BY SMTT(30), <1>1, <1>6 DEF DeviceIs

\* The frontends have nothing at first
LEMMA DetectedAreWell ==
  ASSUME ScanAssumption, device = detectAdapters(Hardware, {})
  PROVE  DeviceIs
<1> DEFINE none == <<>>
<1>1. /\ IsDevice(device) /\ \A a \in DOMAIN Hardware : device[a].id = Hardware[a].id
      /\ \A a \in DOMAIN Hardware : \A f \in DOMAIN Hardware[a].frontends :
           /\ device[a].frontends[f].type = Hardware[a].frontends[f].type
           /\ device[a].frontends[f].name = Hardware[a].frontends[f].name
           /\ device[a].frontends[f].transponders = none /\ device[a].frontends[f].sats = none
  BY DetectedIs
<1>2. IsSeq(none) /\ DOMAIN none = {}
  BY EmptyIsSeq, SeqIs
<1>3. ASSUME NEW a \in DOMAIN Hardware, NEW f \in DOMAIN Hardware[a].frontends
      PROVE  WellFrontend(device[a].frontends[f])
  <2> DEFINE fe == device[a].frontends[f]
  <2>1. fe.transponders = none /\ fe.sats = none /\ Frontend(fe)
    BY <1>1 DEF IsDevice
  <2> HIDE DEF fe
  <2>2. fe.sats = <<>>
    BY <2>1
  <2> HIDE DEF none
  <2>3. WellFrontend(fe)
    BY <1>2, <2>1, <2>2 DEF WellFrontend, Frontend
  <2> QED
    BY <2>3 DEF fe
<1> QED
  BY <1>1, <1>3 DEF DeviceIs

-------------------------------------------------------------------------------
(* The file *)

\* The inductive invariant of the file
FileInv == ObjectsWell /\ KindsKept /\ DeviceIs /\ (pc = "done" => file = DeviceWriteXml(device))

\* A deleted object leaves the others as they are
LEMMA DeletedIsWell ==
  ASSUME ScanInv, ObjectsWell, NEW a, heap' = heap \/ heap' = [heap EXCEPT ![a] = Nobody]
  PROVE  ObjectsWell'
<1>1. heap = [b \in 1 .. Places |-> heap[b]]
  BY DEF ScanInv, HeapInv
<1> QED
  BY <1>1 DEF ObjectsWell

\* The objects of the other steps are well
LEMMA ObjectsNext ==
  ASSUME ScanInv, HeldInv, ScanAssumption, AirAssumption, TextAssumption, ObjectsWell, Next
  PROVE  ObjectsWell'
<1>1. CASE StartList \/ ScanTables
  BY <1>1, StartListWell, ScanTablesWell
<1>2. CASE EndFrontend
  <2>1. heap' = [a \in 1 .. Places |-> Nobody]
    BY Zenon, <1>2 DEF EndFrontend
  <2> QED
    BY <2>1 DEF ObjectsWell
<1>3. CASE EndList \/ TableTorn \/ NitReturn \/ InitialReturn \/ WriteFile
  <2>1. heap' = heap
    BY <1>3 DEF EndList, TableTorn, NitReturn, InitialReturn, WriteFile, heapvars
  <2> QED
    BY <2>1 DEF ObjectsWell
<1>4. CASE ScanRefused
  <2>1. heap' = heap \/ heap' = [heap EXCEPT ![cur.at] = Nobody]
    BY <1>4 DEF ScanRefused, Delete
  <2> QED
    BY <2>1, DeletedIsWell
<1>5. CASE ScanInitial
  <2> DEFINE a == Head(queue)
  <2>1. queue # <<>> /\ (Tune(a) \/ heap' = heap)
    BY <1>5 DEF ScanInitial
  <2>2. a \in 1 .. Places /\ heap[a] # Nobody
    <3>1. IsSeq(queue) /\ ToSet(queue) \subseteq Tracked
      BY DEF ScanInv, HeapInv, Tracked
    <3>2. a \in ToSet(queue)
      BY <2>1, <3>1, TailIs, ToSetIs
    <3> QED
      BY <3>1, <3>2 DEF ScanInv, HeapInv
  <2> HIDE DEF a
  <2>3. CASE Tune(a)
    BY <2>2, <2>3, TuneKinds, ShapeIsWell DEF ScanInv
  <2>4. CASE heap' = heap
    BY <2>4 DEF ObjectsWell
  <2> QED
    BY <2>1, <2>3, <2>4
<1>6. CASE NitKnown \/ NitTune
  <2> DEFINE a == Head(Top.rest)
             n == Len(stack)
  <2>1. /\ pc = "nit" /\ Top.rest # <<>>
        /\ heap' = heap \/ heap' = [heap EXCEPT ![a] = Nobody] \/ Tune(a)
    BY <1>6 DEF NitKnown, NitTune, Delete
  <2>2. stack # <<>>
    BY <2>1 DEF ScanInv, ControlInv
  <2>3. Address(stack, <<n, 1>>) = a /\ Sound(stack, <<n, 1>>)
    BY <2>1, <2>2, NextOfNitIs DEF ScanInv
  <2> HIDE DEF a, n
  <2>4. a \in 1 .. Places /\ heap[a] # Nobody
    BY <2>3 DEF Sound
  <2>5. CASE Tune(a)
    BY <2>4, <2>5, TuneKinds, ShapeIsWell DEF ScanInv
  <2>6. CASE heap' = heap \/ heap' = [heap EXCEPT ![a] = Nobody]
    BY <2>6, DeletedIsWell
  <2> QED
    BY <2>1, <2>5, <2>6
<1> QED
  BY <1>1, <1>2, <1>3, <1>4, <1>5, <1>6 DEF Next

\* The file is that of the device in every step
LEMMA FileNext ==
  ASSUME ScanAssumption, AirAssumption, TextAssumption, ScanInv, HeldInv, FileInv, [Next]_vars
  PROVE  FileInv'
<1>1. CASE UNCHANGED vars
  <2>1. UNCHANGED <<heap, found, stack, front, pc, cur, satnums, device, file>>
    BY <1>1 DEF vars, heapvars, filevars
  <2>2. KindsKept'
    <3>1. Kind(front)' = Kind(front) /\ Ats(stack)' = Ats(stack)
      BY <2>1 DEF Kind, Ats
    <3> QED
      BY <2>1, <3>1 DEF FileInv, KindsKept
  <2> QED
    BY <2>1, <2>2 DEF FileInv, ObjectsWell, DeviceIs
<1>2. CASE Next
  <2>1. ObjectsWell'
    BY <1>2, ObjectsNext DEF FileInv
  <2>2. KindsKept'
    BY <1>2, OutsideKinds, TablesKinds, NitKinds, ReturnKinds DEF Next, FileInv
  <2>3. DeviceIs'
    <3>1. CASE EndFrontend
      BY <3>1, EndFrontendWritten DEF FileInv
    <3>2. CASE ~EndFrontend
      <4>1. device' = device
        BY Zenon, <1>2, <3>2 DEF Next, filevars, StartList, ScanInitial, EndList, ScanRefused, ScanTables,
                          TableTorn, NitKnown, NitTune, NitReturn, InitialReturn, WriteFile
      <4> QED
        BY <4>1 DEF FileInv, DeviceIs
    <3> QED
      BY <3>1, <3>2
  <2>4. pc' = "done" => file' = DeviceWriteXml(device')
    <3>1. CASE WriteFile
      BY <3>1 DEF WriteFile
    <3>2. CASE ~WriteFile
      <4>1. pc' # "done"
        BY Zenon, <1>2, <3>2 DEF Next, StartList, ScanInitial, EndList, ScanRefused, ScanTables,
             TableTorn, NitKnown, NitTune, NitReturn, InitialReturn, EndFrontend
      <4> QED
        BY <4>1
    <3> QED
      BY <3>1, <3>2
  <2> QED
    BY <2>1, <2>2, <2>3, <2>4 DEF FileInv
<1> QED
  BY <1>1, <1>2

\* The inductive invariant holds in every behaviour
LEMMA FileInvariant == Spec => []FileInv
<1>1. ASSUME ScanAssumption, Init PROVE FileInv
  <2>1. DOMAIN <<>> = {}
    BY EmptyIsSeq, SeqIs
  <2>2. ObjectsWell
    BY <1>1 DEF Init, ObjectsWell
  <2>3. KindsKept
    BY <1>1, <2>1 DEF Init, KindsKept, Ats, ToSet
  <2> QED
    BY <1>1, <2>2, <2>3, DetectedAreWell DEF Init, FileInv
<1>2. Init => FileInv
  BY <1>1, ScanAssumption
<1>3. ScanInv /\ HeldInv /\ FileInv /\ [Next]_vars => FileInv'
  BY ScanAssumption, AirAssumption, TextAssumption, FileNext
<1> QED
  BY <1>2, <1>3, ScanInvariant, HeldInvariant, PTL DEF Spec

\* The adapters and frontends of a device are in sequences
LEMMA DeviceSeqs ==
  ASSUME ScanAssumption, NEW d, IsDevice(d)
  PROVE  /\ IsSeq(d) /\ Len(d) = Len(Hardware) /\ DOMAIN d = DOMAIN Hardware
         /\ \A a \in DOMAIN Hardware :
              /\ IsSeq(d[a].frontends) /\ Len(d[a].frontends) = Len(Hardware[a].frontends)
              /\ DOMAIN d[a].frontends = DOMAIN Hardware[a].frontends
<1>1. d = [a \in DOMAIN Hardware |-> d[a]] /\ IsSeq(Hardware)
  BY DEF IsDevice, ScanAssumption
<1>2. ASSUME NEW a \in DOMAIN Hardware
      PROVE  /\ IsSeq(d[a].frontends) /\ Len(d[a].frontends) = Len(Hardware[a].frontends)
             /\ DOMAIN d[a].frontends = DOMAIN Hardware[a].frontends
  <2> DEFINE fs == d[a].frontends
             hs == Hardware[a].frontends
  <2>1. fs = [f \in DOMAIN hs |-> fs[f]] /\ IsSeq(hs)
    BY DEF IsDevice, ScanAssumption
  <2> HIDE DEF fs, hs
  <2>2. IsSeq(fs) /\ Len(fs) = Len(hs) /\ DOMAIN fs = DOMAIN hs
    BY <2>1, FunIs
  <2> QED
    BY <2>2 DEF fs, hs
<1> QED
  BY <1>1, <1>2, FunIs

\* The device is written without loss, and the server's has nothing yet
LEMMA DevicesAreWell ==
  ASSUME ScanAssumption, TextAssumption, DeviceIs
  PROVE  WellDevice(device) /\ BlankDevice(detectAdapters(Hardware, {}), device)
<1> DEFINE b == detectAdapters(Hardware, {})
<1>1. /\ IsSeq(device) /\ Len(device) = Len(Hardware) /\ DOMAIN device = DOMAIN Hardware
      /\ \A a \in DOMAIN Hardware :
           /\ IsSeq(device[a].frontends) /\ Len(device[a].frontends) = Len(Hardware[a].frontends)
           /\ DOMAIN device[a].frontends = DOMAIN Hardware[a].frontends
  BY DeviceSeqs DEF DeviceIs
<1>2. /\ IsDevice(b)
      /\ \A a \in DOMAIN Hardware : b[a].id = Hardware[a].id
      /\ \A a \in DOMAIN Hardware : \A f \in DOMAIN Hardware[a].frontends :
           /\ b[a].frontends[f].type = Hardware[a].frontends[f].type
           /\ b[a].frontends[f].name = Hardware[a].frontends[f].name
           /\ b[a].frontends[f].transponders = <<>>
  BY DetectedIs
<1> HIDE DEF b
<1>3. /\ IsSeq(b) /\ Len(b) = Len(Hardware) /\ DOMAIN b = DOMAIN Hardware
      /\ \A a \in DOMAIN Hardware :
           IsSeq(b[a].frontends) /\ Len(b[a].frontends) = Len(Hardware[a].frontends)
  BY <1>2, DeviceSeqs
<1>4. ASSUME NEW a \in DOMAIN Hardware PROVE WellAdapter(device[a]) /\ Blank(b[a], device[a])
  <2>1. device[a] = [id |-> device[a].id, frontends |-> device[a].frontends]
    BY DEF DeviceIs, IsDevice
  <2>2. \A f \in DOMAIN device[a].frontends : WellFrontend(device[a].frontends[f])
    BY <1>1 DEF DeviceIs
  <2>3. b[a] = [id |-> b[a].id, frontends |-> b[a].frontends] /\ b[a].id = device[a].id
    BY <1>2 DEF DeviceIs, IsDevice
  <2>4. \A f \in DOMAIN device[a].frontends :
           /\ b[a].frontends[f].type = device[a].frontends[f].type
           /\ b[a].frontends[f].name = device[a].frontends[f].name
           /\ b[a].frontends[f].transponders = <<>>
    BY <1>1, <1>2 DEF DeviceIs
  <2>5. WellAdapter(device[a])
    BY <1>1, <2>1, <2>2 DEF WellAdapter
  <2>6. Blank(b[a], device[a])
    BY <1>1, <1>3, <2>3, <2>4 DEF Blank
  <2> QED
    BY <2>5, <2>6
<1>5. \A j, k \in DOMAIN device : device[j].id = device[k].id => j = k
  BY <1>1 DEF DeviceIs, TextAssumption
<1>6. WellDevice(device)
  BY <1>1, <1>4, <1>5 DEF WellDevice
<1>7. BlankDevice(b, device)
  BY <1>1, <1>3, <1>4 DEF BlankDevice
<1> QED
  BY <1>6, <1>7 DEF b

\* What FileKept says a reader has of a transponder
Kept(type, t) ==
  [t EXCEPT !.services = [k \in DOMAIN t.services |->
                            [t.services[k] EXCEPT !.name = getName(t.services[k], t.tsid)]],
            !.tuning = IF type = DVBS THEN [@ EXCEPT !.satPosition = ""] ELSE @]

\* It is what TransponderReadXml makes of what was written
LEMMA KeptIsSeen ==
  ASSUME NEW type, NEW t, WellTransponder(type, t)
  PROVE  Kept(type, t) = Seen(type, t)
<1> DEFINE services == t.services
           tsid == t.tsid
           g == t.tuning
           named == [k \in DOMAIN services |-> [services[k] EXCEPT !.name = getName(services[k], tsid)]]
           tuned == IF type = DVBS THEN [g EXCEPT !.satPosition = ""] ELSE g
           seen == IF type = DVBS
                   THEN [satPosition |-> "", satNum |-> g.satNum, symbolRate |-> g.symbolRate,
                         polarization |-> g.polarization]
                   ELSE g
<1>1. named = NamedServices(services, tsid)
  <2>1. ASSUME NEW s, WellService(s) PROVE [s EXCEPT !.name = getName(s, tsid)] = Renamed(s, tsid)
    <3> DEFINE new == getName(s, tsid)
    <3>1. s = [name |-> s.name, sid |-> s.sid, pmtid |-> s.pmtid, streams |-> s.streams, pcr |-> s.pcr,
               status |-> s.status, scrambled |-> s.scrambled, provider |-> s.provider, type |-> s.type]
      BY <2>1 DEF WellService
    <3>2. Renamed(s, tsid) =
            [name |-> new, sid |-> s.sid, pmtid |-> s.pmtid, streams |-> s.streams, pcr |-> s.pcr,
             status |-> s.status, scrambled |-> s.scrambled, provider |-> s.provider, type |-> s.type]
      BY DEF Renamed
    <3> HIDE DEF new
    <3>3. [s EXCEPT !.name = new] = Renamed(s, tsid)
      BY <3>1, <3>2
    <3> QED
      BY <3>3 DEF new
  <2>2. \A k \in DOMAIN services : WellService(services[k])
    BY DEF WellTransponder, WellServices
  <2> HIDE DEF services, tsid
  <2> QED
    BY <2>1, <2>2 DEF NamedServices
<1>2. tuned = seen
  <2>1. CASE type = DVBS
    <3>1. g = [satPosition |-> g.satPosition, satNum |-> g.satNum, symbolRate |-> g.symbolRate,
               polarization |-> g.polarization]
      BY <2>1 DEF WellTransponder, WellSat
    <3> DEFINE none == ""
               n == g.satNum
               r == g.symbolRate
               p == g.polarization
    <3>2. g = [satPosition |-> g.satPosition, satNum |-> n, symbolRate |-> r, polarization |-> p]
      BY <3>1
    <3> HIDE DEF none, n, r, p, g
    <3>3. [g EXCEPT !.satPosition = none] = [satPosition |-> none, satNum |-> n, symbolRate |-> r,
                                            polarization |-> p]
      BY <3>2
    <3> QED
      BY Zenon, <2>1, <3>3 DEF none, n, r, p
  <2>2. CASE type # DVBS
    BY <2>2
  <2> QED
    BY Zenon, <2>1, <2>2
<1>3. t = [freq |-> t.freq, tsid |-> t.tsid, services |-> t.services, tuning |-> g]
  BY DEF WellTransponder
<1>4. Kept(type, t) = [freq |-> t.freq, tsid |-> t.tsid, services |-> named, tuning |-> tuned]
  <2> DEFINE mid == [t EXCEPT !.services = named]
  <2>1. Kept(type, t) = [mid EXCEPT !.tuning = IF type = DVBS THEN [@ EXCEPT !.satPosition = ""] ELSE @]
    BY DEF Kept
  <2> HIDE DEF named
  <2>2. mid = [freq |-> t.freq, tsid |-> t.tsid, services |-> named, tuning |-> g]
    BY <1>3
  <2> HIDE DEF mid
  <2>3. mid.tuning = g
    BY <2>2
  <2>4. Kept(type, t) = [mid EXCEPT !.tuning = tuned]
    BY Zenon, <2>1, <2>3
  <2> HIDE DEF tuned, g
  <2> QED
    BY <2>2, <2>4
<1>5. Seen(type, t) = [freq |-> t.freq, tsid |-> t.tsid,
                       services |-> NamedServices(services, tsid), tuning |-> seen]
  BY DEF Seen
<1> HIDE DEF named, tuned, seen, services, tsid
<1> QED
  BY <1>1, <1>2, <1>4, <1>5

\* The server reads back what the scanner has found, for every air: the transponders of
\* each frontend with their tuning parameters and their services, the map of the
\* satellites, and the service map (dvb/Frontend.cpp, readXml and writeXml of the device
\* and of what it consists of).
THEOREM FileIsKept == Spec => []FileKept
<1>1. ASSUME ScanAssumption, TextAssumption, FileInv PROVE FileKept
  <2> SUFFICES ASSUME pc = "done" PROVE FileKept
    BY Zenon DEF FileKept
  <2>1. WellDevice(device) /\ BlankDevice(detectAdapters(Hardware, {}), device)
    BY <1>1, DevicesAreWell DEF FileInv
  <2>2. served = SeenDevice(device)
    BY <1>1, <2>1, DeviceIsKept DEF FileInv, served
  <2>3. ASSUME NEW n \in DOMAIN Frontends
        PROVE  LET reader == served[Frontends[n][1]].frontends[Frontends[n][2]]
                   m == <<>> \o [k \in DOMAIN Scanner(n).transponders |->
                                   Kept(Type(n), Scanner(n).transponders[k])]
               IN reader.transponders = m /\ reader.sats = Scanner(n).sats
    <3> DEFINE i == Frontends[n][1]
               j == Frontends[n][2]
               fe == device[i].frontends[j]
               ts == fe.transponders
               r == [k \in DOMAIN ts |-> Kept(fe.type, ts[k])]
    <3>1. i \in DOMAIN Hardware /\ j \in DOMAIN Hardware[i].frontends
      BY <1>1, FrontendsAre
    <3>2. Type(n) = fe.type /\ WellFrontend(fe) /\ Scanner(n) = fe
      BY Zenon, <1>1, <3>1 DEF Type, Scanner, FileInv, DeviceIs
    <3>3. i \in DOMAIN device /\ j \in DOMAIN device[i].frontends
      BY <1>1, <3>1, DeviceSeqs DEF FileInv, DeviceIs
    <3>4. served[i].frontends[j] = SeenFrontend(fe)
      BY <2>2, <3>3, SeenPlaces
    <3> HIDE DEF i, j, fe
    <3>5. IsSeq(ts) /\ \A k \in DOMAIN ts : WellTransponder(fe.type, ts[k])
      BY <3>2 DEF WellFrontend
    <3>6. r = [k \in DOMAIN ts |-> Seen(fe.type, ts[k])]
      BY <3>5, KeptIsSeen
    <3>7. r = [k \in DOMAIN ts |-> r[k]]
      OBVIOUS
    <3>8. SeenFrontend(fe).transponders = r /\ SeenFrontend(fe).sats = fe.sats
      BY <3>6 DEF SeenFrontend, SeenTransponders
    <3> HIDE DEF r
    <3>9. <<>> \o r = r
      BY <3>5, <3>7, FunIs
    <3> QED
      BY <3>2, <3>4, <3>8, <3>9 DEF r, i, j
  <2>4. \A name : serviceMap(served, name) = serviceMap(device, name)
    BY <2>1, <2>2, ServiceMapIsKept
  <2> QED
    BY Zenon, <2>3, <2>4 DEF FileKept, Kept, Map
<1> QED
  BY <1>1, ScanAssumption, TextAssumption, FileInvariant, PTL

=============================================================================
