-------------------------- MODULE MediaServer_proofs --------------------------
(***************************************************************************)
(* Proofs about MediaServer, the composition of MediaDb, DvbDevice and the *)
(* handlers of the server, for every disk, every set of controllers,       *)
(* players, frontends and services, every answer of the hardware and every *)
(* bound.  Each part of ServerInv is kept with the help of those before    *)
(* it, in the order of the sections:                                       *)
(*   DbInv       the tables and the scanner that fills them,               *)
(*   DeviceInv   the frontends, their filters and the streams,             *)
(*   PlayInv     the players, their streams and their descriptors,         *)
(*   RequestInv, NamesShape, TablesThere   the listings and the favourites *)
(*   ListingInv  what the listings have shown                              *)
(***************************************************************************)
EXTENDS MediaServer, DvbConfig_proofs

-------------------------------------------------------------------------------
(* Least elements, and the identifiers of a table *)
\* First takes the least
LEMMA FirstIs ==
  ASSUME NEW S \in SUBSET Nat, S # {}
  PROVE  First(S) \in S /\ \A j \in S : First(S) <= j
  BY LeastNatural DEF First

\* The identifiers of a table are bounded
LEMMA IdsBounded ==
  ASSUME NEW s, IsSeq(s), \A k \in DOMAIN s : s[k].id \in Nat
  PROVE  \E m \in Nat : \A k \in DOMAIN s : s[k].id <= m
<1>1. DOMAIN s = 1 .. Len(s) /\ Len(s) \in Nat
  BY SeqIs
<1> DEFINE Bound(n) == \E m \in Nat : \A k \in 1 .. n : s[k].id <= m
           T == {n \in 0 .. Len(s) : ~Bound(n)}
<1>2. Bound(0)
  OBVIOUS
<1>3. ASSUME NEW n \in 1 .. Len(s), Bound(n - 1) PROVE Bound(n)
  <2>1. PICK m \in Nat : \A k \in 1 .. n - 1 : s[k].id <= m
    BY <1>3
  <2>2. s[n].id \in Nat
    BY <1>1
  <2> DEFINE b == IF m <= s[n].id THEN s[n].id ELSE m
  <2>3. b \in Nat /\ m <= b /\ s[n].id <= b
    BY <2>2
  <2> HIDE DEF b
  <2>4. ASSUME NEW k \in 1 .. n PROVE s[k].id <= b
    <3>1. CASE k = n
      BY <3>1, <2>3
    <3>2. CASE k # n
      <4>1. k \in 1 .. n - 1
        BY <3>2, <1>1
      <4>2. s[k].id <= m /\ s[k].id \in Nat
        BY <4>1, <2>1, <1>1
      <4> QED
        BY <4>2, <2>3
    <3> QED
      BY <3>1, <3>2
  <2> QED
    BY <2>3, <2>4
<1> HIDE DEF Bound
<1>4. T \in SUBSET Nat
  BY <1>1
<1>5. ASSUME T # {} PROVE FALSE
  <2>1. PICK n \in T : \A k \in T : n <= k
    BY <1>4, <1>5, LeastNatural
  <2>2. n \in 0 .. Len(s) /\ ~Bound(n)
    BY <2>1
  <2>3. n \in 1 .. Len(s)
    BY <1>1, <1>2, <2>2
  <2>4. n - 1 \notin T /\ n - 1 \in 0 .. Len(s)
    BY <1>1, <2>1, <2>3
  <2>5. Bound(n - 1)
    BY <2>4
  <2> QED
    BY <1>3, <2>2, <2>3, <2>5
<1>6. Bound(Len(s))
  BY <1>1, <1>5
<1> QED
  BY <1>1, <1>6 DEF Bound

\* Max takes the largest identifier: it is where an appending scan goes on
LEMMA MaxIs ==
  ASSUME NEW s, IsSeq(s), s # <<>>, \A k \in DOMAIN s : s[k].id \in Nat
  PROVE  Max(IdsIn(s)) \in IdsIn(s) /\ \A n \in IdsIn(s) : n <= Max(IdsIn(s))
<1>1. PICK m \in Nat : \A k \in DOMAIN s : s[k].id <= m
  BY IdsBounded
<1>2. IdsIn(s) \subseteq 0 .. m
  BY <1>1 DEF IdsIn
<1>3. IdsIn(s) # {}
  <2>1. 1 \in DOMAIN s
    BY SeqIs
  <2> QED
    BY <2>1 DEF IdsIn
<1> DEFINE T == {m - x : x \in IdsIn(s)}
<1>4. T \in SUBSET Nat /\ T # {}
  BY <1>2, <1>3
<1>5. PICK d \in T : \A e \in T : d <= e
  BY <1>4, LeastNatural
<1>6. PICK x \in IdsIn(s) : d = m - x
  BY <1>5
<1>7. \A y \in IdsIn(s) : m - x <= m - y
  BY <1>5, <1>6
<1>8. \A y \in IdsIn(s) : x >= y
  <2> TAKE y \in IdsIn(s)
  <2>1. m - x <= m - y
    BY <1>7
  <2>2. x \in Int /\ y \in Int /\ m \in Int
    BY <1>2, <1>6
  <2> HIDE DEF T
  <2> QED
    BY <2>1, <2>2
<1>9. Max(IdsIn(s)) \in IdsIn(s) /\ \A y \in IdsIn(s) : Max(IdsIn(s)) >= y
  BY <1>6, <1>8 DEF Max
<1> QED
  BY <1>9, <1>2

\* A table without doubled identifiers has as many as it has rows
LEMMA IdsCounted ==
  ASSUME NEW s, IsSeq(s), \A j, k \in DOMAIN s : s[j].id = s[k].id => j = k
  PROVE  Cardinality(IdsIn(s)) = Len(s)
<1> DEFINE f == [k \in 1 .. Len(s) |-> s[k].id]
<1>1. DOMAIN s = 1 .. Len(s) /\ Len(s) \in Nat
  BY SeqIs
<1>2. f \in Bijection(1 .. Len(s), IdsIn(s))
  BY <1>1 DEF Bijection, Injection, Surjection, IdsIn, IsInjective
<1>3. ExistsBijection(1 .. Len(s), IdsIn(s))
  BY <1>2 DEF ExistsBijection
<1>4. IsFiniteSet(1 .. Len(s)) /\ Cardinality(1 .. Len(s)) = Len(s)
  BY <1>1, FS_Interval
<1> QED
  BY <1>3, <1>4, FS_Bijection

-------------------------------------------------------------------------------
(* The database: its invariant, and the steps that make the tables *)
\* Where the scanner can be, and where it is while it makes its tables
ScanPcs == {"none", "dropobj", "dropfav", "createobj", "createfav", "scan", "done"}
MakingTables == {"dropobj", "dropfav", "createobj", "createfav"}
\* The scanner has all its files to do until its tables are made, and rows
\* that it has not committed only while it scans
ScannerShape ==
  /\ scanner = [pc |-> scanner.pc, append |-> scanner.append, prepared |-> scanner.prepared,
                objid |-> scanner.objid, todo |-> scanner.todo, pending |-> scanner.pending]
  /\ scanner.pc \in ScanPcs /\ scanner.append \in BOOLEAN /\ scanner.prepared \in BOOLEAN
  /\ scanner.objid \in Nat /\ scanner.todo \subseteq Files
  /\ scanner.pc \in MakingTables =>
       ~scanner.append /\ scanner.objid = 0 /\ scanner.todo = Files
  /\ scanner.pc # "scan" => scanner.pending = <<>>
  /\ scans \in 0 .. MaxScans /\ refused \subseteq 1 .. scans
  /\ scanner.pc \notin {"none", "done"} => scans # 0

\* A table that is not there has no rows
TablesInv ==
  /\ hasObj \in BOOLEAN /\ hasFav \in BOOLEAN
  /\ ~hasObj => rows = <<>>
  /\ ~hasFav => favs = <<>>

\* Rows of a table: their identifiers are a key
AreRows(s) ==
  /\ IsSeq(s)
  /\ \A k \in DOMAIN s : s[k].id \in Nat /\ s[k].type \in {"file", "dvb"}
  /\ \A j, k \in DOMAIN s : s[j].id = s[k].id => j = k

\* The rows to commit do not collide with those in the table, and there are
\* no more of them than files done
RowsInv ==
  /\ AreRows(rows) /\ AreRows(scanner.pending)
  /\ IdsIn(rows) \cap IdsIn(scanner.pending) = {}
  /\ \A n \in IdsIn(scanner.pending) : n <= scanner.objid
  /\ Len(scanner.pending) <= Cardinality(Files \ scanner.todo)
  /\ scanner.pending # <<>> => hasObj

\* The scan so far, when the statement was prepared and nothing was refused
Untroubled == scanner.prepared /\ scans \notin refused
ScanInv ==
  Untroubled =>
    /\ scanner.pc \in {"dropfav", "createobj"} => ~hasObj
    /\ scanner.pc = "createfav" => hasObj /\ rows = <<>>
    /\ scanner.pc = "scan" =>
         /\ hasObj /\ (~scanner.append => rows = <<>>)
         /\ \A n \in IdsIn(rows) : n <= scanner.objid
         /\ PathsIn(scanner.pending) = Files \ scanner.todo
         /\ Len(scanner.pending) = Cardinality(Files \ scanner.todo)
    /\ scanner.pc = "done" =>
         /\ Files \subseteq PathsIn(rows)
         /\ ~scanner.append => PathsIn(rows) = Files /\ Len(rows) = Cardinality(Files)

\* The inductive invariant of the database: ScanKeeps looks at the end of a
\* scan only, ScanInv says how far the scan is at each of its steps
DbInv == ScannerShape /\ TablesInv /\ RowsInv /\ ScanInv

\* A table without rows
LEMMA NoRows == AreRows(<<>>) /\ IdsIn(<<>>) = {} /\ PathsIn(<<>>) = {} /\ Len(<<>>) = 0
<1>1. DOMAIN <<>> = {} /\ Len(<<>>) = 0
  BY EmptyIsSeq, SeqIs
<1> QED
  BY <1>1, EmptyIsSeq DEF AreRows, IdsIn, PathsIn

\* A file that is done leaves one less to do
LEMMA FilesCounted ==
  ASSUME NEW todo \in SUBSET Files
  PROVE  /\ Cardinality(Files \ todo) \in Nat /\ Cardinality(Files \ todo) <= Cardinality(Files)
         /\ Cardinality(Files) \in Nat
         /\ \A f \in todo : Cardinality(Files \ (todo \ {f})) = Cardinality(Files \ todo) + 1
<1>1. IsFiniteSet(Files)
  BY DbAssumption
<1>2. IsFiniteSet(Files \ todo) /\ Cardinality(Files \ todo) <= Cardinality(Files)
  BY <1>1, FS_Subset
<1>3. Cardinality(Files \ todo) \in Nat /\ Cardinality(Files) \in Nat
  BY <1>1, <1>2, FS_CardinalityType
<1>4. ASSUME NEW f \in todo PROVE Cardinality(Files \ (todo \ {f})) = Cardinality(Files \ todo) + 1
  <2>1. Files \ (todo \ {f}) = (Files \ todo) \cup {f} /\ f \notin Files \ todo
    OBVIOUS
  <2> QED
    BY <1>2, <2>1, FS_AddElement
<1> QED
  BY <1>2, <1>3, <1>4

\* The scanner goes to its next statement
LEMMA GotoIs ==
  ASSUME ScannerShape, NEW pc, Goto(pc)
  PROVE  /\ scanner'.pc = pc /\ scanner'.append = scanner.append
         /\ scanner'.prepared = scanner.prepared /\ scanner'.objid = scanner.objid
         /\ scanner'.todo = scanner.todo /\ scanner'.pending = scanner.pending
         /\ scanner' = [pc |-> scanner'.pc, append |-> scanner'.append, prepared |-> scanner'.prepared,
                        objid |-> scanner'.objid, todo |-> scanner'.todo, pending |-> scanner'.pending]
  BY DEF ScannerShape, Goto

\* DbInv holds at first
LEMMA DbStarts == Init => DbInv
<1> SUFFICES ASSUME Init PROVE DbInv
  OBVIOUS
<1>1. PICK w \in Worlds :
         /\ hasObj = w.tables /\ hasFav = w.tables /\ rows = w.rows /\ favs = w.favs /\ scans = w.scans
  BY DEF Init
<1>2. /\ w.tables \in BOOLEAN /\ w.scans \in 0 .. MaxScans
      /\ IsSeq(w.rows)
      /\ \A k \in DOMAIN w.rows : w.rows[k].id \in Nat /\ w.rows[k].type \in {"file", "dvb"}
      /\ \A j, k \in DOMAIN w.rows : w.rows[j].id = w.rows[k].id => j = k
      /\ ~w.tables => w.rows = <<>> /\ w.favs = <<>>
  BY WorldAssumption DEF IsSeq
<1>3. scanner = Asleep /\ refused = {}
  BY DEF Init
<1>4. ScannerShape
  BY <1>1, <1>2, <1>3 DEF ScannerShape, Asleep, ScanPcs, MakingTables
<1>5. TablesInv
  BY <1>1, <1>2 DEF TablesInv
<1>6. RowsInv
  <2>1. AreRows(rows)
    BY <1>1, <1>2 DEF AreRows
  <2>2. scanner.pending = <<>> /\ scanner.todo = {}
    BY <1>3 DEF Asleep
  <2> QED
    BY <2>1, <2>2, NoRows, FilesCounted DEF RowsInv
<1>7. ScanInv
  BY <1>3 DEF ScanInv, Untroubled, Asleep
<1> QED
  BY <1>4, <1>5, <1>6, <1>7 DEF DbInv

\* A scanner that starts takes the last identifier over when it appends
LEMMA ScanStartKeepsDb ==
  ASSUME DbInv, NEW lock, ScanStart(lock)
  PROVE  DbInv'
<1>0. PICK append \in BOOLEAN, refuses \in SUBSET {"insert", "maxid"} :
        /\ scanner' = [pc |-> IF append THEN "scan" ELSE "dropobj", append |-> append,
                       prepared |-> hasObj /\ "insert" \notin refuses,
                       objid |-> IF ~append THEN 0 ELSE IF "maxid" \in refuses THEN 1 ELSE maxid,
                       todo |-> Files, pending |-> <<>>]
        /\ refused' = IF refuses = {} THEN refused ELSE refused \cup {scans + 1}
  BY DEF ScanStart
<1> DEFINE prepared == hasObj /\ "insert" \notin refuses
           objid == IF ~append THEN 0 ELSE IF "maxid" \in refuses THEN 1 ELSE maxid
<1>1. /\ scanner' = [pc |-> IF append THEN "scan" ELSE "dropobj", append |-> append,
                     prepared |-> prepared, objid |-> objid, todo |-> Files, pending |-> <<>>]
      /\ prepared \in BOOLEAN
  BY <1>0 DEF DbInv, TablesInv
<1>2. /\ scans < MaxScans /\ scans' = scans + 1
      /\ hasObj' = hasObj /\ hasFav' = hasFav /\ rows' = rows /\ favs' = favs
  BY DEF ScanStart, dbvars
<1>3. ASSUME hasObj PROVE maxid \in Nat /\ \A n \in IdsIn(rows) : n <= maxid
  <2>1. CASE rows = <<>>
    BY <1>3, <2>1, NoRows DEF maxid
  <2>2. CASE rows # <<>>
    <3>1. maxid = Max(IdsIn(rows))
      BY <1>3, <2>2 DEF maxid
    <3>2. IsSeq(rows) /\ \A k \in DOMAIN rows : rows[k].id \in Nat
      BY DEF DbInv, RowsInv, AreRows
    <3>3. Max(IdsIn(rows)) \in IdsIn(rows) /\ \A n \in IdsIn(rows) : n <= Max(IdsIn(rows))
      BY <2>2, <3>2, MaxIs
    <3> QED
      BY <3>1, <3>2, <3>3 DEF IdsIn
  <2> QED
    BY <2>1, <2>2
<1>4. objid \in Nat /\ (~append => objid = 0)
  BY <1>3 DEF maxid
<1>5. refused' \subseteq 1 .. scans + 1 /\ scans + 1 \in 0 .. MaxScans
  BY <1>0, <1>2, DbAssumption DEF DbInv, ScannerShape
<1>11. scans + 1 \notin refused' => (prepared => hasObj) /\ (append => objid = maxid)
  <2>1. scans + 1 \notin refused' => refuses = {}
    BY <1>0
  <2> QED
    BY <2>1
<1> HIDE DEF prepared, objid
<1>6. ScannerShape'
  BY <1>1, <1>2, <1>4, <1>5 DEF DbInv, ScannerShape, ScanPcs, MakingTables, TablesInv
<1>7. TablesInv'
  BY <1>2 DEF DbInv, TablesInv
<1>8. Files \ Files = {} /\ Cardinality({}) = 0
  BY FS_EmptySet
<1>9. RowsInv'
  <2>1. AreRows(rows)' /\ IdsIn(rows)' = IdsIn(rows)
    BY <1>2 DEF DbInv, RowsInv, AreRows, IdsIn
  <2>2. scanner'.pending = <<>> /\ scanner'.todo = Files
    BY <1>1
  <2>3. AreRows(scanner.pending)' /\ IdsIn(scanner.pending)' = {} /\ Len(scanner'.pending) = 0
    BY <2>2, NoRows
  <2>4. Cardinality(Files \ scanner'.todo) = 0
    BY <2>2, <1>8
  <2> QED
    BY <2>1, <2>3, <2>4 DEF RowsInv
<1>10. ScanInv'
  <2>1. CASE ~append
    BY <1>1, <2>1 DEF ScanInv
  <2>2. CASE append
    <3>1. scanner'.pc = "scan" /\ scanner'.append /\ scanner'.prepared = prepared
          /\ scanner'.objid = objid /\ scanner'.todo = Files /\ scanner'.pending = <<>>
      BY <1>1, <2>2
    <3>2. Untroubled' => hasObj /\ objid = maxid
      BY <3>1, <2>2, <1>2, <1>11 DEF Untroubled
    <3>3. IdsIn(rows)' = IdsIn(rows)
      BY <1>2 DEF IdsIn
    <3>4. PathsIn(scanner'.pending) = {} /\ Len(scanner'.pending) = 0
      BY <3>1, NoRows
    <3> QED
      BY <3>1, <3>2, <3>3, <3>4, <1>2, <1>3, <1>8 DEF ScanInv
  <2> QED
    BY <2>1, <2>2
<1> QED
  BY <1>6, <1>7, <1>9, <1>10 DEF DbInv

\* The steps that make the tables, and those that meet a lock
LEMMA MovesKeepDb ==
  ASSUME DbInv, NEW pc \in {"dropfav", "createobj", "createfav", "scan"}, Goto(pc),
         scanner.pc \in MakingTables,
         scans' = scans, refused' \in {refused, refused \cup {scans}},
         TablesInv', rows' \in {rows, <<>>}
  PROVE  ScannerShape' /\ RowsInv'
<1>1. /\ scanner'.pc = pc /\ scanner'.append = scanner.append
      /\ scanner'.prepared = scanner.prepared /\ scanner'.objid = scanner.objid
      /\ scanner'.todo = scanner.todo /\ scanner'.pending = scanner.pending
      /\ scanner' = [pc |-> scanner'.pc, append |-> scanner'.append, prepared |-> scanner'.prepared,
                     objid |-> scanner'.objid, todo |-> scanner'.todo, pending |-> scanner'.pending]
  BY GotoIs DEF DbInv
<1>2. scanner.pending = <<>> /\ scanner.pc # "scan"
  BY DEF DbInv, ScannerShape, MakingTables
<1>3. scans \in 1 .. MaxScans
  BY DEF DbInv, ScannerShape, MakingTables
<1>4. ScannerShape'
  BY <1>1, <1>2, <1>3 DEF DbInv, ScannerShape, ScanPcs, MakingTables
<1>5. RowsInv'
  <2>1. AreRows(rows)'
    BY NoRows DEF DbInv, RowsInv, AreRows
  <2>2. Cardinality(Files \ scanner'.todo) \in Nat
    BY <1>4, FilesCounted DEF ScannerShape
  <2> QED
    BY <1>1, <1>2, <2>1, <2>2, NoRows DEF RowsInv
<1> QED
  BY <1>4, <1>5

\* A statement is refused
LEMMA RefusedKeepsDb ==
  ASSUME DbInv, NEW pc \in {"createobj", "scan"}, NEW lock, Refused(lock, pc), scanner.pc \in MakingTables
  PROVE  DbInv'
<1>1. /\ Goto(pc) /\ refused' = refused \cup {scans} /\ scans' = scans
      /\ hasObj' = hasObj /\ hasFav' = hasFav /\ rows' = rows /\ favs' = favs
  BY DEF Refused, dbvars
<1>2. TablesInv'
  BY <1>1 DEF DbInv, TablesInv
<1>3. ScannerShape' /\ RowsInv'
  BY <1>1, <1>2, MovesKeepDb
<1>4. ScanInv'
  BY <1>1 DEF ScanInv, Untroubled
<1> QED
  BY <1>2, <1>3, <1>4 DEF DbInv

\* The scanner drops and creates its tables
LEMMA TablesKeepDb ==
  ASSUME DbInv, NEW lock, DropObj(lock) \/ DropFav(lock) \/ CreateObj(lock) \/ CreateFav(lock)
  PROVE  DbInv'
<1>1. scanner.pc \in MakingTables
  BY DEF DropObj, DropFav, CreateObj, CreateFav, MakingTables
<1>2. CASE \E pc \in {"createobj", "scan"} : Refused(lock, pc)
  BY <1>1, <1>2, RefusedKeepsDb
<1>3. CASE /\ scanner.pc = "dropobj" /\ hasObj' = FALSE /\ rows' = <<>> /\ Goto("dropfav")
           /\ UNCHANGED <<hasFav, favs, scans, refused>>
  <2>1. TablesInv'
    BY <1>3 DEF DbInv, TablesInv
  <2>2. ScannerShape' /\ RowsInv'
    BY <1>1, <1>3, <2>1, MovesKeepDb
  <2>3. scanner'.pc = "dropfav"
    BY <1>3, GotoIs DEF DbInv
  <2>4. ScanInv'
    BY <1>3, <2>3 DEF ScanInv
  <2> QED
    BY <2>1, <2>2, <2>4 DEF DbInv
<1>4. CASE /\ scanner.pc = "dropfav" /\ hasFav' = FALSE /\ favs' = <<>> /\ Goto("createobj")
           /\ UNCHANGED <<hasObj, rows, scans, refused>>
  <2>1. TablesInv'
    BY <1>4 DEF DbInv, TablesInv
  <2>2. ScannerShape' /\ RowsInv'
    BY <1>1, <1>4, <2>1, MovesKeepDb
  <2>3. scanner'.pc = "createobj" /\ scanner'.prepared = scanner.prepared
    BY <1>4, GotoIs DEF DbInv
  <2>4. ScanInv'
    BY <1>4, <2>3 DEF DbInv, ScanInv, Untroubled
  <2> QED
    BY <2>1, <2>2, <2>4 DEF DbInv
<1>5. CASE /\ scanner.pc = "createobj" /\ hasObj' = TRUE
           /\ Goto(IF hasObj THEN "scan" ELSE "createfav")
           /\ UNCHANGED <<hasFav, rows, favs, scans, refused>>
  <2>1. TablesInv'
    BY <1>5 DEF DbInv, TablesInv
  <2>2. ScannerShape' /\ RowsInv'
    BY <1>1, <1>5, <2>1, MovesKeepDb
  <2>3. scanner'.pc = (IF hasObj THEN "scan" ELSE "createfav") /\ scanner'.prepared = scanner.prepared
    BY <1>5, GotoIs DEF DbInv
  <2>4. ScanInv'
    BY <1>5, <2>3 DEF DbInv, ScanInv, Untroubled, TablesInv
  <2> QED
    BY <2>1, <2>2, <2>4 DEF DbInv
<1>6. CASE /\ scanner.pc = "createfav" /\ hasFav' = TRUE /\ Goto("scan")
           /\ UNCHANGED <<hasObj, rows, favs, scans, refused>>
  <2>1. TablesInv'
    BY <1>6 DEF DbInv, TablesInv
  <2>2. ScannerShape' /\ RowsInv'
    BY <1>1, <1>6, <2>1, MovesKeepDb
  <2>3. /\ scanner'.pc = "scan" /\ scanner'.prepared = scanner.prepared
        /\ scanner'.todo = Files /\ scanner'.pending = <<>>
    BY <1>6, GotoIs DEF DbInv, ScannerShape, MakingTables
  <2>4. Cardinality(Files \ Files) = 0 /\ Files \ Files = {}
    BY FS_EmptySet
  <2>5. ScanInv'
    BY <1>6, <2>3, <2>4, NoRows DEF DbInv, ScanInv, Untroubled
  <2> QED
    BY <2>1, <2>2, <2>5 DEF DbInv
<1> QED
  BY <1>2, <1>3, <1>4, <1>5, <1>6 DEF DropObj, DropFav, CreateObj, CreateFav

-------------------------------------------------------------------------------
(* The database: rows are tagged and committed *)
\* A row behind the others
LEMMA RowAppended ==
  ASSUME NEW s, AreRows(s), NEW row, row.id \in Nat, row.type \in {"file", "dvb"}, row.id \notin IdsIn(s)
  PROVE  /\ AreRows(Append(s, row)) /\ Len(Append(s, row)) = Len(s) + 1
         /\ IdsIn(Append(s, row)) = IdsIn(s) \cup {row.id}
         /\ PathsIn(Append(s, row)) = PathsIn(s) \cup {row.path}
<1> DEFINE t == Append(s, row)
<1>1. IsSeq(s) /\ DOMAIN s = 1 .. Len(s) /\ Len(s) \in Nat
  BY SeqIs DEF AreRows
<1>2. /\ IsSeq(t) /\ Len(t) = Len(s) + 1
      /\ \A k \in DOMAIN s : t[k] = s[k]
      /\ t[Len(s) + 1] = row
  BY <1>1, AppendIs
<1>3. DOMAIN t = 1 .. Len(s) + 1
  BY <1>2, SeqIs
<1> HIDE DEF t
<1>4. \A k \in DOMAIN t : k = Len(s) + 1 \/ k \in DOMAIN s
  BY <1>1, <1>3
<1>5. Len(s) + 1 \in DOMAIN t /\ DOMAIN s \subseteq DOMAIN t
  BY <1>1, <1>3
<1>6. \A k \in DOMAIN s : s[k].id # row.id
  BY DEF IdsIn
<1>7. \A j, k \in DOMAIN t : t[j].id = t[k].id => j = k
  BY <1>2, <1>4, <1>6 DEF AreRows
<1>8. \A k \in DOMAIN t : t[k].id \in Nat /\ t[k].type \in {"file", "dvb"}
  BY <1>2, <1>4 DEF AreRows
<1>9. IdsIn(t) = IdsIn(s) \cup {row.id}
  BY <1>2, <1>4, <1>5 DEF IdsIn
<1>10. PathsIn(t) = PathsIn(s) \cup {row.path}
  BY <1>2, <1>4, <1>5 DEF PathsIn
<1> QED
  BY <1>2, <1>7, <1>8, <1>9, <1>10 DEF AreRows, t

\* Rows behind rows
LEMMA RowsJoined ==
  ASSUME NEW s, AreRows(s), NEW t, AreRows(t), IdsIn(s) \cap IdsIn(t) = {}
  PROVE  /\ AreRows(s \o t) /\ Len(s \o t) = Len(s) + Len(t)
         /\ PathsIn(s \o t) = PathsIn(s) \cup PathsIn(t)
<1> DEFINE u == s \o t
<1>1. /\ IsSeq(s) /\ DOMAIN s = 1 .. Len(s) /\ Len(s) \in Nat
      /\ IsSeq(t) /\ DOMAIN t = 1 .. Len(t) /\ Len(t) \in Nat
  BY SeqIs DEF AreRows
<1>2. /\ IsSeq(u) /\ Len(u) = Len(s) + Len(t)
      /\ \A k \in DOMAIN s : u[k] = s[k]
      /\ \A k \in DOMAIN t : u[Len(s) + k] = t[k]
      /\ \A k \in DOMAIN u : k \in DOMAIN s \/ (k - Len(s) \in DOMAIN t /\ u[k] = t[k - Len(s)])
  BY <1>1, ConcatIs
<1>3. DOMAIN u = 1 .. Len(s) + Len(t)
  BY <1>2, SeqIs
<1> HIDE DEF u
<1>4. DOMAIN s \subseteq DOMAIN u /\ \A k \in DOMAIN t : Len(s) + k \in DOMAIN u
  BY <1>1, <1>3
<1>5. ASSUME NEW j \in DOMAIN u, NEW k \in DOMAIN u, u[j].id = u[k].id PROVE j = k
  <2>1. CASE j \in DOMAIN s /\ k \in DOMAIN s
    BY <1>2, <1>5, <2>1 DEF AreRows
  <2>2. CASE j \in DOMAIN s /\ k \notin DOMAIN s
    <3>1. u[j].id \in IdsIn(s) /\ u[k].id \in IdsIn(t)
      BY <1>2, <2>2 DEF IdsIn
    <3> QED
      BY <3>1, <1>5
  <2>3. CASE j \notin DOMAIN s /\ k \in DOMAIN s
    <3>1. u[k].id \in IdsIn(s) /\ u[j].id \in IdsIn(t)
      BY <1>2, <2>3 DEF IdsIn
    <3> QED
      BY <3>1, <1>5
  <2>4. CASE j \notin DOMAIN s /\ k \notin DOMAIN s
    <3>1. j - Len(s) = k - Len(s)
      BY <1>2, <1>5, <2>4 DEF AreRows
    <3> QED
      BY <3>1, <1>1, <1>3
  <2> QED
    BY <2>1, <2>2, <2>3, <2>4
<1>6. \A k \in DOMAIN u : u[k].id \in Nat /\ u[k].type \in {"file", "dvb"}
  BY <1>2 DEF AreRows
<1>7. PathsIn(u) = PathsIn(s) \cup PathsIn(t)
  BY <1>2, <1>4 DEF PathsIn
<1> QED
  BY <1>2, <1>5, <1>6, <1>7 DEF AreRows, u

\* A file becomes a row of the transaction
LEMMA TagKeepsDb ==
  ASSUME DbInv, NEW lock, Tag(lock)
  PROVE  DbInv'
<1> DEFINE id == scanner.objid + 1
           fits == scanner.prepared /\ hasObj /\ id \notin IdsIn(rows) \cup IdsIn(scanner.pending)
           row(f) == [id |-> id, type |-> "file", words |-> Words[f], path |-> f]
<1>1. PICK f \in scanner.todo, refuses \in BOOLEAN :
        /\ scanner' = [scanner EXCEPT !.objid = id, !.todo = @ \ {f},
                         !.pending = IF fits /\ ~refuses THEN Append(@, row(f)) ELSE @]
        /\ refused' = IF refuses THEN refused \cup {scans} ELSE refused
  BY DEF Tag
<1> DEFINE kept == fits /\ ~refuses
<1>2. /\ scanner.pc = "scan" /\ scans' = scans
      /\ hasObj' = hasObj /\ hasFav' = hasFav /\ rows' = rows /\ favs' = favs
  BY DEF Tag, dbvars
<1>3. /\ scanner'.pc = "scan" /\ scanner'.append = scanner.append
      /\ scanner'.prepared = scanner.prepared /\ scanner'.objid = id
      /\ scanner'.todo = scanner.todo \ {f}
      /\ scanner'.pending = IF kept THEN Append(scanner.pending, row(f)) ELSE scanner.pending
      /\ scanner' = [pc |-> scanner'.pc, append |-> scanner'.append, prepared |-> scanner'.prepared,
                     objid |-> scanner'.objid, todo |-> scanner'.todo, pending |-> scanner'.pending]
  BY <1>1, <1>2 DEF DbInv, ScannerShape
<1>4. /\ id \in Nat /\ scanner.objid < id /\ scanner.objid \in Nat
      /\ scanner.todo \subseteq Files /\ f \in Files
  BY DEF DbInv, ScannerShape
<1>5. row(f).id = id /\ row(f).type = "file" /\ row(f).path = f
  OBVIOUS
<1>16. refused' \subseteq 1 .. scans
  BY <1>1, <1>2 DEF DbInv, ScannerShape
<1>6. ScannerShape'
  BY <1>2, <1>3, <1>4, <1>16 DEF DbInv, ScannerShape, ScanPcs, MakingTables
<1>7. TablesInv'
  BY <1>2 DEF DbInv, TablesInv
<1>8. Cardinality(Files \ scanner'.todo) = Cardinality(Files \ scanner.todo) + 1
      /\ Cardinality(Files \ scanner.todo) \in Nat
  BY <1>3, <1>4, FilesCounted
<1>9. Files \ scanner'.todo = (Files \ scanner.todo) \cup {f}
  BY <1>3, <1>4
<1>10. /\ AreRows(rows) /\ AreRows(scanner.pending)
       /\ IdsIn(rows) \cap IdsIn(scanner.pending) = {}
       /\ \A n \in IdsIn(scanner.pending) : n <= scanner.objid
       /\ Len(scanner.pending) <= Cardinality(Files \ scanner.todo)
       /\ scanner.pending # <<>> => hasObj
  BY DEF DbInv, RowsInv
<1>11. Len(scanner.pending) \in Nat /\ IdsIn(scanner.pending) \subseteq Nat /\ IdsIn(rows) \subseteq Nat
  BY <1>10, SeqIs DEF AreRows, IdsIn
<1> DEFINE r == row(f)
<1>12. r.id = id /\ r.type = "file" /\ r.path = f
  BY <1>5
<1>17. kept = (fits /\ ~refuses) /\ (kept => fits)
  OBVIOUS
<1> HIDE DEF id, row, r, kept
<1>13. ASSUME kept
       PROVE  /\ AreRows(scanner'.pending) /\ Len(scanner'.pending) = Len(scanner.pending) + 1
              /\ IdsIn(scanner'.pending) = IdsIn(scanner.pending) \cup {id}
              /\ PathsIn(scanner'.pending) = PathsIn(scanner.pending) \cup {f}
  <2>1. scanner'.pending = Append(scanner.pending, r)
    BY <1>3, <1>13 DEF r
  <2>2. r.id \notin IdsIn(scanner.pending) /\ r.id \in Nat /\ r.type \in {"file", "dvb"}
    BY <1>12, <1>13, <1>17, <1>4
  <2> QED
    BY <2>1, <2>2, <1>10, <1>12, RowAppended
<1>14. RowsInv'
  <2>1. AreRows(rows)' /\ IdsIn(rows)' = IdsIn(rows)
    BY <1>2, <1>10 DEF AreRows, IdsIn
  <2>2. CASE kept
    BY <2>1, <2>2, <1>2, <1>13, <1>17, <1>3, <1>8, <1>10, <1>4, <1>11 DEF RowsInv
  <2>3. CASE ~kept
    <3>1. scanner'.pending = scanner.pending
      BY <1>3, <2>3
    <3> QED
      BY <3>1, <2>1, <1>2, <1>3, <1>8, <1>10, <1>4, <1>11 DEF RowsInv
  <2> QED
    BY <2>2, <2>3
<1>15. ScanInv'
  <2> SUFFICES ASSUME Untroubled' PROVE ScanInv'
    BY DEF ScanInv
  <2>1. Untroubled /\ ~refuses
    BY <1>1, <1>2, <1>3 DEF Untroubled
  <2>2. /\ hasObj /\ (~scanner.append => rows = <<>>)
        /\ \A n \in IdsIn(rows) : n <= scanner.objid
        /\ PathsIn(scanner.pending) = Files \ scanner.todo
        /\ Len(scanner.pending) = Cardinality(Files \ scanner.todo)
    BY <2>1, <1>2 DEF DbInv, ScanInv
  <2>3. id \notin IdsIn(rows) \cup IdsIn(scanner.pending)
    BY <2>2, <1>4, <1>10, <1>11
  <2>4. kept
    BY <2>1, <2>2, <2>3, <1>17 DEF Untroubled
  <2>5. \A n \in IdsIn(rows)' : n <= id
    <3>1. IdsIn(rows)' = IdsIn(rows)
      BY <1>2 DEF IdsIn
    <3>2. \A n \in IdsIn(rows) : n <= id
      BY <2>2, <1>4, <1>11
    <3> QED
      BY <3>1, <3>2
  <2>6. PathsIn(scanner'.pending) = Files \ scanner'.todo
    BY <2>2, <2>4, <1>9, <1>13
  <2>7. Len(scanner'.pending) = Cardinality(Files \ scanner'.todo)
    BY <2>2, <2>4, <1>8, <1>13
  <2> QED
    BY <2>2, <2>5, <2>6, <2>7, <1>2, <1>3 DEF ScanInv
<1> QED
  BY <1>6, <1>7, <1>14, <1>15 DEF DbInv

\* The transaction is committed
LEMMA CommitKeepsDb ==
  ASSUME DbInv, NEW lock, Commit(lock)
  PROVE  DbInv'
<1>1. /\ scanner.pc = "scan" /\ scanner.todo = {}
      /\ scanner' = [scanner EXCEPT !.pc = "done", !.pending = <<>>]
      /\ scans' = scans /\ hasObj' = hasObj /\ hasFav' = hasFav /\ favs' = favs
  BY DEF Commit
<1>2. \/ refused' = refused \cup {scans} /\ rows' = rows
      \/ rows' = rows \o scanner.pending /\ refused' = refused
  BY DEF Commit
<1>3. /\ scanner'.pc = "done" /\ scanner'.append = scanner.append
      /\ scanner'.prepared = scanner.prepared /\ scanner'.objid = scanner.objid
      /\ scanner'.todo = {} /\ scanner'.pending = <<>>
      /\ scanner' = [pc |-> scanner'.pc, append |-> scanner'.append, prepared |-> scanner'.prepared,
                     objid |-> scanner'.objid, todo |-> scanner'.todo, pending |-> scanner'.pending]
  BY <1>1 DEF DbInv, ScannerShape
<1>4. scans \in 1 .. MaxScans
  BY <1>1 DEF DbInv, ScannerShape
<1>5. ScannerShape'
  BY <1>1, <1>2, <1>3, <1>4 DEF DbInv, ScannerShape, ScanPcs, MakingTables
<1>6. /\ AreRows(rows) /\ AreRows(scanner.pending)
      /\ IdsIn(rows) \cap IdsIn(scanner.pending) = {}
  BY DEF DbInv, RowsInv
<1>7. /\ AreRows(rows \o scanner.pending)
      /\ Len(rows \o scanner.pending) = Len(rows) + Len(scanner.pending)
      /\ PathsIn(rows \o scanner.pending) = PathsIn(rows) \cup PathsIn(scanner.pending)
  BY <1>6, RowsJoined
<1>8. AreRows(rows')
  BY <1>2, <1>6, <1>7
<1>9. /\ AreRows(scanner'.pending) /\ IdsIn(scanner'.pending) = {} /\ Len(scanner'.pending) = 0
      /\ PathsIn(<<>>) = {} /\ Len(<<>>) = 0
  BY <1>3, NoRows
<1>10. Cardinality(Files \ scanner'.todo) \in Nat /\ Files \ scanner'.todo = Files
       /\ Cardinality(Files) \in Nat
  BY <1>3, FilesCounted
<1>11. RowsInv'
  BY <1>8, <1>9, <1>10 DEF RowsInv
<1>12. ASSUME Untroubled' PROVE ScanInv'
  <2>1. Untroubled /\ rows' = rows \o scanner.pending
    BY <1>1, <1>2, <1>3, <1>12 DEF Untroubled
  <2>2. /\ hasObj /\ (~scanner.append => rows = <<>>)
        /\ PathsIn(scanner.pending) = Files \ scanner.todo
        /\ Len(scanner.pending) = Cardinality(Files \ scanner.todo)
    BY <2>1, <1>1 DEF DbInv, ScanInv
  <2>3. PathsIn(scanner.pending) = Files /\ Len(scanner.pending) = Cardinality(Files)
    BY <2>2, <1>1, <1>3, <1>10
  <2>4. Files \subseteq PathsIn(rows')
    BY <2>1, <2>3, <1>7
  <2>5. ~scanner.append => PathsIn(rows') = Files /\ Len(rows') = Cardinality(Files)
    BY <2>1, <2>2, <2>3, <1>7, <1>9, <1>10
  <2>6. PathsIn(rows)' = PathsIn(rows')
    OBVIOUS
  <2> QED
    BY <2>4, <2>5, <2>6, <1>3 DEF ScanInv
<1>13. ScanInv'
  BY <1>12 DEF ScanInv
<1>14. TablesInv'
  <2>1. ASSUME ~hasObj PROVE rows' = <<>>
    <3>1. rows = <<>> /\ scanner.pending = <<>>
      BY <2>1 DEF DbInv, TablesInv, RowsInv
    <3>2. Len(rows \o scanner.pending) = 0 /\ IsSeq(rows \o scanner.pending)
      BY <3>1, <1>7, NoRows DEF AreRows
    <3>3. rows \o scanner.pending = <<>>
      BY <3>2, SeqIs
    <3> QED
      BY <1>2, <3>1, <3>3
  <2> QED
    BY <2>1, <1>1 DEF DbInv, TablesInv
<1> QED
  BY <1>5, <1>11, <1>13, <1>14 DEF DbInv

-------------------------------------------------------------------------------
(* The database: every step *)
\* The server writes favourites, and only where there is their table
FavsOnly ==
  /\ UNCHANGED <<hasObj, hasFav, rows, scanvars>>
  /\ favs' = favs \/ hasFav

\* Every step of the server but those of the scanner is such a step
LEMMA ServerWritesFavs ==
  ASSUME NEW c, NEW p, Listing(c) \/ Fav(c) \/ RootCount \/ RootId \/ Playing(p)
  PROVE  FavsOnly
<1>1. CASE Listing(c)
  BY <1>1 DEF Listing, LsQuery, LsRead, LsStat, LsMeta, FavsOnly, dbvars
<1>2. CASE Fav(c)
  <2>1. UNCHANGED <<hasObj, hasFav, rows, scanvars>>
    BY <1>2 DEF Fav
  <2>2. PICK words \in Commands :
          FavAdd(c, words) \/ FavDel(c, words) \/ FavSet(c, words) \/ FavSetNone(c, words)
    BY <1>2 DEF Fav
  <2>3. ASSUME NEW new, FavWrites(c, new) PROVE favs' = favs \/ hasFav
    BY <2>3 DEF FavWrites, MayWrite
  <2>4. favs' = favs \/ hasFav
    BY <2>2, <2>3 DEF FavAdd, FavDel, FavSet, FavSetNone
  <2> QED
    BY <2>1, <2>4 DEF FavsOnly
<1>3. CASE RootCount
  BY <1>3 DEF RootCount, Down, FavsOnly, dbvars
<1>4. CASE RootId
  BY <1>4 DEF RootId, Down, FavsOnly, dbvars
<1>5. CASE Playing(p)
  <2>1. CASE PlayStat(p)
    BY <2>1 DEF PlayStat, FavsOnly, dbvars
  <2>2. CASE PlayOpenFile(p)
    BY <2>2 DEF PlayOpenFile, FavsOnly, dbvars
  <2>3. CASE PlayOpenDvb(p)
    BY <2>3 DEF PlayOpenDvb, Down, FavsOnly, dbvars
  <2>4. CASE PlayReadFile(p)
    BY <2>4 DEF PlayReadFile, Down, FavsOnly, dbvars
  <2>5. CASE PlayReadDvb(p)
    BY <2>5 DEF PlayReadDvb, Down, FavsOnly, dbvars
  <2>6. CASE PlayClose(p)
    BY <2>6 DEF PlayClose, FavsOnly, dbvars
  <2>7. CASE PlayCloseFreed(p)
    BY <2>7 DEF PlayCloseFreed, Down, FavsOnly, dbvars
  <2> QED
    BY <1>5, <2>1, <2>2, <2>3, <2>4, <2>5, <2>6, <2>7 DEF Playing
<1> QED
  BY <1>1, <1>2, <1>3, <1>4, <1>5

\* Favourites do not disturb the scan
LEMMA FavsOnlyKeepsDb ==
  ASSUME DbInv, FavsOnly
  PROVE  DbInv'
<1>1. /\ hasObj' = hasObj /\ hasFav' = hasFav /\ rows' = rows /\ scanner' = scanner
      /\ scans' = scans /\ refused' = refused
  BY DEF FavsOnly, scanvars
<1>2. ScannerShape'
  BY <1>1 DEF DbInv, ScannerShape
<1>3. TablesInv'
  BY <1>1 DEF DbInv, TablesInv, FavsOnly
<1>4. RowsInv'
  <2>1. AreRows(rows)' /\ IdsIn(rows)' = IdsIn(rows)
    BY <1>1 DEF DbInv, RowsInv, AreRows, IdsIn
  <2>2. AreRows(scanner.pending)' /\ IdsIn(scanner.pending)' = IdsIn(scanner.pending)
    BY <1>1 DEF DbInv, RowsInv, AreRows, IdsIn
  <2> QED
    BY <1>1, <2>1, <2>2 DEF DbInv, RowsInv
<1>5. ScanInv'
  BY <1>1 DEF DbInv, ScanInv, Untroubled, IdsIn, PathsIn
<1> QED
  BY <1>2, <1>3, <1>4, <1>5 DEF DbInv

\* DbInv is inductive
LEMMA NextKeepsDb == DbInv /\ [Next]_vars => DbInv'
<1> SUFFICES ASSUME DbInv, [Next]_vars PROVE DbInv'
  OBVIOUS
<1>1. CASE UNCHANGED vars
  <2>1. FavsOnly
    BY <1>1 DEF vars, dbvars, scanvars, FavsOnly
  <2> QED
    BY <2>1, FavsOnlyKeepsDb
<1>2. CASE Scanning
  <2>1. ScanStep(InUse)
    BY <1>2 DEF Scanning
  <2> QED
    BY <2>1, ScanStartKeepsDb, TablesKeepDb, TagKeepsDb, CommitKeepsDb DEF ScanStep
<1>3. CASE \E c, p : Listing(c) \/ Fav(c) \/ RootCount \/ RootId \/ Playing(p)
  BY <1>3, ServerWritesFavs, FavsOnlyKeepsDb
<1> QED
  BY <1>1, <1>2, <1>3 DEF Next

\* DbInv holds always
LEMMA DbHolds == Spec => []DbInv
  BY DbStarts, NextKeepsDb, PTL DEF Spec

\* DbInv says what a scan keeps, and has the types
LEMMA DbInvGives == DbInv => ScanKeeps /\ DbTypeOK
<1> SUFFICES ASSUME DbInv PROVE ScanKeeps /\ DbTypeOK
  OBVIOUS
<1>1. IsSeq(rows) /\ \A j, k \in DOMAIN rows : rows[j].id = rows[k].id => j = k
  BY DEF DbInv, RowsInv, AreRows
<1>2. Cardinality(IdsIn(rows)) = Len(rows)
  BY <1>1, IdsCounted
<1>3. ScanKeeps
  BY <1>2 DEF DbInv, ScanInv, Untroubled, ScanKeeps
<1>4. Len(scanner.pending) <= Cardinality(Files)
  <2>1. /\ Cardinality(Files \ scanner.todo) \in Nat /\ Cardinality(Files) \in Nat
        /\ Cardinality(Files \ scanner.todo) <= Cardinality(Files)
    BY FilesCounted DEF DbInv, ScannerShape
  <2>2. Len(scanner.pending) \in Nat /\ Len(scanner.pending) <= Cardinality(Files \ scanner.todo)
    BY SeqIs DEF DbInv, RowsInv, AreRows
  <2> QED
    BY <2>1, <2>2
<1>5. DbTypeOK
  BY <1>4 DEF DbInv, ScannerShape, TablesInv, RowsInv, AreRows, DbTypeOK, ScanPcs
<1> QED
  BY <1>3, <1>5

\* A scan is found again (src/scan.c, main, tag and exec_stmt, which only logs
\* that a statement failed): no two rows have one id, and when a scan is done whose
\* statement could be prepared and which met no lock, each of its files has its row,
\* and a scan that does not append leaves exactly one row for each.
THEOREM ScannedFilesAreFound == Spec => []ScanKeeps
  BY DbHolds, DbInvGives, PTL

-------------------------------------------------------------------------------
(* The invariants of the device, the players and the tables *)
\* The transponders of the device, and every pid that they carry
Places == DOMAIN marks
AllPids == UNION {Carried(p) : p \in Places}
\* The services as they are served: an original, or a clone of it
Instances ==
  {i \in [at : Places, number : Nat, clone : 0 .. MaxClones] :
     i.number \in DOMAIN At(device, i.at).services}
\* A stream that is open
Opened == [state : {"open"}, inst : Instances, from : Instances]
\* What has gone wrong, and is remembered
Mishaps == {"refused", "interrupted", "lost", "cloned", "strayed", "unfiltered",
            "deaf", "descriptor", "tail"}
\* What a descriptor can be of
FdSet ==
  {Unused, StdIn} \cup {FileAt(path) : path \in Disk}
    \cup {FilterFor(a, x, on) : a \in DOMAIN Hardware, x \in AllPids, on \in BOOLEAN}
\* A stream with a service, the name of the service, and the original that
\* DvbFreeStream looks up by that name
IsOpen(h) == streams[h].state = "open"
NameOf(i) == ServiceAt(i.at, i.number).name
Original(name) ==
  [at |-> Candidates(name)[1], number |-> getService(Candidates(name)[1], name), clone |-> 0]

\* The shape of the device: what is served or marked is where it belongs, and a
\* filter that is counted has a descriptor
DeviceShape ==
  /\ Readable(device) /\ smap = ServiceMap(device) /\ Places = ToSet(TransponderPlaces(device))
  /\ refs \in [AllFronts -> [AllPids -> Nat]]
  /\ handle \in [AllFronts -> [AllPids -> -1 .. MaxFd]]
  /\ \A f \in AllFronts, x \in AllPids : refs[f][x] > 0 => handle[f][x] \in 0 .. MaxFd
  /\ fds \in [0 .. MaxFd -> FdSet]
  /\ tuned \in [AllFronts -> Places \cup {Nowhere}]
  /\ locked \in [AllFronts -> Places \cup {Nowhere}]
  /\ served \in [AllFronts -> SUBSET Instances]
  /\ \A f \in AllFronts : \A i \in served[f] : FrontOf(i.at) = f
  /\ marks \in [Places -> SUBSET Instances]
  /\ \A p \in Places : \A i \in marks[p] : i.at = p
  /\ deleted \subseteq Places
  /\ streams \in [Handles -> {Closed, Null} \cup Opened]
  /\ opens \in 0 .. MaxOpens
  /\ mishaps \subseteq Mishaps

\* A stream is of a service that has its name
NamesInv ==
  \A h \in Handles : IsOpen(h) =>
    LET i == streams[h].inst
    IN /\ NameOf(i) \in DOMAIN smap /\ i.at \in ToSet(smap[NameOf(i)])
       /\ i.number = getService(i.at, NameOf(i))
       /\ streams[h].from = Original(NameOf(i))

\* A stream is of the first transponder that has its name
HomeInv == "strayed" \notin mishaps =>
  \A h \in Handles : IsOpen(h) => streams[h].inst.at = streams[h].from.at

\* The frontend of a stream is still tuned to the transponder of the stream
TunedInv == "interrupted" \notin mishaps =>
  \A h \in Handles : IsOpen(h) => tuned[FrontOf(streams[h].inst.at)] = streams[h].inst.at

\* A frontend that has not lost its signal has it
LockInv == "lost" \notin mishaps => locked = tuned

\* Originals are served for a stream
OriginalInv ==
  \A f \in AllFronts : \A i \in served[f] :
    i = Original(NameOf(i)) => \E h \in Handles : IsOpen(h) /\ streams[h].inst = i

\* A stream has an instance to itself, which is served for it
SoleInv == mishaps \cap {"cloned", "strayed"} = {} =>
  \A h \in Handles : IsOpen(h) =>
    /\ streams[h].inst \in served[FrontOf(streams[h].inst.at)]
    /\ streams[h].inst.clone = 0
    /\ \A g \in Handles : IsOpen(g) /\ streams[g].inst = streams[h].inst => g = h

\* A transponder is deleted only when its frontend could not be opened
DeletedInv == deleted # {} => "refused" \in mishaps

\* The frontend of a stream is the one whose packets come to the demuxer, and the one
\* that reads them there
HearsInv == "deaf" \notin mishaps =>
  \A h \in Handles : IsOpen(h) => Hears(FrontOf(streams[h].inst.at))

\* As long as nobody closes the descriptor of somebody else, a filter that is counted
\* has its descriptor, the descriptors of filters are counted, and no two share one
Alive ==
  \A f \in AllFronts, x \in AllPids : refs[f][x] > 0 =>
    \E on \in BOOLEAN : fds[handle[f][x]] = FilterFor(f[1], x, on)
Owned ==
  \A n \in 0 .. MaxFd : fds[n].of = "filter" => \E f \in AllFronts, x \in AllPids : HasFilter(f, x, n)
Apart ==
  \A f, g \in AllFronts, x, y \in AllPids :
    refs[f][x] > 0 /\ refs[g][y] > 0 /\ handle[f][x] = handle[g][y] => f = g /\ x = y
HandlesInv == "descriptor" \notin mishaps => Alive /\ Owned /\ Apart

\* The filters of a frontend are counted by its streams, and those that are counted
\* are started
Counted(f) == \A x \in AllPids : refs[f][x] = Cardinality(Uses(f, x))
Running(f) == \A x \in AllPids : refs[f][x] > 0 => fds[handle[f][x]] = FilterFor(f[1], x, TRUE)
Clean == mishaps \cap {"unfiltered", "strayed", "descriptor"} = {}
CountsInv == Clean => \A f \in AllFronts : Counted(f)
RunsInv == Clean /\ NoDoubles => \A f \in AllFronts : Running(f)

\* The inductive invariant of the device: the filters are exact because those that
\* are closed have descriptors of their own (HandlesInv), and the counts are kept
\* when a stream is closed because of HomeInv (the original has the pids of the
\* instance)
FiltersInv == HandlesInv /\ CountsInv /\ RunsInv
DeviceInv ==
  /\ DeviceShape /\ NamesInv /\ HomeInv /\ TunedInv /\ LockInv /\ OriginalInv /\ SoleInv
  /\ DeletedInv /\ HearsInv /\ FiltersInv

\* A player has a stream exactly where it plays one
PlaysShape ==
  /\ DOMAIN plays = Handles
  /\ \A p \in Handles :
       /\ plays[p] = [pc |-> plays[p].pc, id |-> plays[p].id, fd |-> plays[p].fd,
                      path |-> plays[p].path, foreign |-> plays[p].foreign]
       /\ plays[p].pc \in {"idle", "stated", "file", "dvb"} /\ plays[p].fd \in -1 .. MaxFd
       /\ plays[p].foreign \in BOOLEAN
       /\ (plays[p].pc = "dvb") <=> (streams[p] # Closed)

\* The stream of a player has the name that the player asked for
StreamsInv ==
  \A p \in Handles : plays[p].pc = "dvb" =>
    /\ IsOpen(p) => NameOf(streams[p].inst) = plays[p].path
    /\ streams[p] = Null /\ "refused" \notin mishaps => Candidates(plays[p].path) = <<>>

\* A player reads a file through a descriptor of its own
OpenFile(p) == plays[p].pc = "file" /\ plays[p].fd # -1
FilesInv ==
  /\ \A p \in Handles : plays[p].pc = "file" /\ plays[p].fd = -1 => plays[p].path \notin Disk
  /\ "descriptor" \notin mishaps =>
       \A p \in Handles : OpenFile(p) =>
         /\ plays[p].path \in Disk /\ fds[plays[p].fd] = FileAt(plays[p].path)
         /\ \A q \in Handles : OpenFile(q) /\ plays[q].fd = plays[p].fd => q = p

\* Where nothing was refused the server finds its tables
TablesThere ==
  refused = {} =>
    /\ scanner.pc \in {"dropfav", "createobj"} => ~hasObj
    /\ scanner.pc = "createfav" => hasObj
    /\ active \cap (Controllers \cup Handles) # {} /\ scanner.pc \in {"none", "dropobj", "scan", "done"} => hasObj /\ hasFav

-------------------------------------------------------------------------------
(* What the device configuration gives, and that no step changes it *)
\* What stays when the device stays
LEMMA SameDevice ==
  ASSUME device' = device, smap' = smap, DOMAIN marks' = DOMAIN marks
  PROVE  /\ Places' = Places /\ AllPids' = AllPids /\ Instances' = Instances /\ Opened' = Opened
         /\ \A p, k : Pids(p, k)' = Pids(p, k)
         /\ \A i : NameOf(i)' = NameOf(i)
         /\ \A n : Candidates(n)' = Candidates(n)
         /\ \A p, n : getService(p, n)' = getService(p, n)
         /\ \A n : Original(n)' = Original(n)
         /\ NoDoubles' = NoDoubles /\ FdSet' = FdSet
         /\ Readable(device)' = Readable(device)
         /\ ServiceMap(device)' = ServiceMap(device)
         /\ TransponderPlaces(device)' = TransponderPlaces(device)
<1>1. Places' = Places
  BY DEF Places
<1>2. \A p, k : Pids(p, k)' = Pids(p, k)
  BY DEF Pids, ServiceAt, At, Map
<1>3. \A p : Carried(p)' = Carried(p)
  BY <1>2 DEF Carried
<1>4. AllPids' = AllPids
  BY <1>1, <1>3 DEF AllPids
<1>5. Instances' = Instances
  BY <1>1 DEF Instances
<1>6. Opened' = Opened
  BY <1>5 DEF Opened
<1>7. \A i : NameOf(i)' = NameOf(i)
  BY DEF NameOf, ServiceAt
<1>8. \A n : Candidates(n)' = Candidates(n)
  BY DEF Candidates
<1>9. \A p, n : getService(p, n)' = getService(p, n)
  BY DEF getService, ServiceAt
<1>10. \A n : Original(n)' = Original(n)
  BY <1>8, <1>9 DEF Original
<1>11. NoDoubles' = NoDoubles
  BY <1>2 DEF NoDoubles
<1>12. /\ Readable(device)' = Readable(device)
       /\ ServiceMap(device)' = ServiceMap(device)
       /\ TransponderPlaces(device)' = TransponderPlaces(device)
  OBVIOUS
<1>13. FdSet' = FdSet
  BY <1>4 DEF FdSet
<1> QED
  BY <1>1, <1>2, <1>4, <1>5, <1>6, <1>7, <1>8, <1>9, <1>10, <1>11, <1>12, <1>13

\* A filter, and the filter that it is when it has been stopped
Off(d) == [d EXCEPT !.on = FALSE]
LEMMA FilterOf == \A a, x, on : FilterFor(a, x, on).of = "filter"
  BY DEF FilterFor

\* A filter that is stopped is a filter
LEMMA FilterOff ==
  ASSUME NEW a, NEW x, NEW on
  PROVE  Off(FilterFor(a, x, on)) = FilterFor(a, x, FALSE)
<1> DEFINE d == FilterFor(a, x, on)
           v == FALSE
<1>1. d = [of |-> "filter", adapter |-> a, pid |-> x, on |-> on]
  BY DEF FilterFor
<1>2. Off(d) = [d EXCEPT !.on = v]
  BY DEF Off
<1>3. FilterFor(a, x, v) = [of |-> "filter", adapter |-> a, pid |-> x, on |-> v]
  BY DEF FilterFor
<1> HIDE DEF d, v
<1>4. [d EXCEPT !.on = v] = [of |-> "filter", adapter |-> a, pid |-> x, on |-> v]
  BY <1>1
<1>5. Off(d) = FilterFor(a, x, v)
  BY <1>2, <1>3, <1>4
<1> QED
  BY <1>5 DEF d, v

\* The kinds of descriptors
LEMMA FdIs ==
  /\ Unused.of = "none" /\ StdIn.of = "stdin" /\ Unused \in FdSet /\ StdIn \in FdSet
  /\ \A path : FileAt(path).of = "file"
  /\ \A path \in Disk : FileAt(path) \in FdSet
  /\ \A a, x, on : FilterFor(a, x, on).of = "filter"
<1>1. Unused.of = "none" /\ StdIn.of = "stdin" /\ \A path : FileAt(path).of = "file"
  BY DEF Unused, StdIn, FileAt
<1>2. \A a, x, on : FilterFor(a, x, on).of = "filter"
  BY FilterOf
<1>3. Unused \in FdSet /\ StdIn \in FdSet /\ \A path \in Disk : FileAt(path) \in FdSet
  BY DEF FdSet
<1> QED
  BY <1>1, <1>2, <1>3

\* The descriptor of a filter is one
LEMMA FilterFd ==
  ASSUME NEW a \in DOMAIN Hardware, NEW x \in AllPids, NEW on \in BOOLEAN
  PROVE  FilterFor(a, x, on) \in FdSet
<1> DEFINE all == {FilterFor(c, y, e) : c \in DOMAIN Hardware, y \in AllPids, e \in BOOLEAN}
<1>1. FilterFor(a, x, on) \in all
  OBVIOUS
<1> HIDE DEF all
<1>2. FdSet = {Unused, StdIn} \cup {FileAt(path) : path \in Disk} \cup all
  BY DEF FdSet, all
<1> QED
  BY <1>1, <1>2

\* A filter, among the descriptors
LEMMA FilterIs ==
  ASSUME NEW d \in FdSet
  PROVE  /\ d.of \in {"none", "stdin", "file", "filter"}
         /\ d.of = "filter" => \E a \in DOMAIN Hardware, x \in AllPids, on \in BOOLEAN : d = FilterFor(a, x, on)
         /\ d.of = "filter" => Off(d) \in FdSet /\ Off(d).of = "filter"
         /\ d.of = "none" <=> d = Unused
         /\ d.of = "file" <=> \E path \in Disk : d = FileAt(path)
<1>0. d \in {Unused, StdIn} \/ (\E path \in Disk : d = FileAt(path))
      \/ \E a \in DOMAIN Hardware, x \in AllPids, on \in BOOLEAN : d = FilterFor(a, x, on)
  BY DEF FdSet
<1>1. CASE d \in {Unused, StdIn}
  BY <1>1, FdIs
<1>2. CASE \E path \in Disk : d = FileAt(path)
  <2>1. d.of = "file"
    BY <1>2, FdIs
  <2> QED
    BY <2>1, <1>2, FdIs
<1>3. CASE \E a \in DOMAIN Hardware, x \in AllPids, on \in BOOLEAN : d = FilterFor(a, x, on)
  <2>1. PICK a \in DOMAIN Hardware, x \in AllPids, on \in BOOLEAN : d = FilterFor(a, x, on)
    BY <1>3
  <2>2. d.of = "filter"
    BY <2>1, FdIs
  <2>3. Off(d) = FilterFor(a, x, FALSE)
    <3>1. Off(FilterFor(a, x, on)) = FilterFor(a, x, FALSE)
      BY FilterOff
    <3> QED
      BY <2>1, <3>1
  <2>4. FilterFor(a, x, FALSE) \in FdSet /\ FilterFor(a, x, FALSE).of = "filter"
    <3>1. FALSE \in BOOLEAN
      OBVIOUS
    <3>2. FilterFor(a, x, FALSE) \in FdSet
      BY <3>1, FilterFd
    <3> QED
      BY <3>2, FdIs
  <2> QED
    BY <1>3, <2>2, <2>3, <2>4, FdIs
<1> QED
  BY <1>0, <1>1, <1>2, <1>3

\* The adapter of a frontend
LEMMA FrontsAre == \A f \in AllFronts : f[1] \in DOMAIN Hardware
  BY DEF AllFronts

\* A place is not the empty tuple, which is nowhere
LEMMA TripleIsSome ==
  ASSUME NEW p \in Nat \X Nat \X Nat PROVE p # <<>>
  OBVIOUS

\* A transponder, its frontend and its services
LEMMA PlacesAre ==
  ASSUME DeviceShape, NEW p \in Places
  PROVE  /\ p \in Nat \X Nat \X Nat /\ p # Nowhere /\ FrontOf(p) \in AllFronts
         /\ DOMAIN At(device, p).services \subseteq Nat
<1>1. /\ p \in Nat \X Nat \X Nat /\ FrontOf(p) \in AllFronts
      /\ DOMAIN At(device, p).services \subseteq Nat
  BY DEF DeviceShape, Readable
<1>2. p # <<>>
  BY <1>1, TripleIsSome
<1> QED
  BY <1>1, <1>2 DEF Nowhere

\* The pids of a service are among those of the device
LEMMA PidsAre ==
  ASSUME DeviceShape, NEW p \in Places, NEW k \in DOMAIN At(device, p).services
  PROVE  Pids(p, k) \in Seq(AllPids) /\ Pids(p, k) \in Seq(Nat)
<1> DEFINE carried == At(device, p).services[k].streams
           q == [j \in DOMAIN carried |-> carried[j].pid]
<1>1. q \in Seq(Nat)
  BY DEF DeviceShape, Readable
<1>2. Pids(p, k) = <<>> \o q
  BY DEF Pids, ServiceAt, Map
<1>3. <<>> \o q = q
  BY <1>1, ConcatEmptySeq
<1>4. Pids(p, k) = q
  BY <1>2, <1>3
<1> HIDE DEF q
<1>5. ToSet(q) \subseteq Carried(p)
  BY <1>4 DEF Carried
<1>6. ToSet(q) \subseteq AllPids
  BY <1>5 DEF AllPids
<1>7. q \in Seq(ToSet(q))
  BY <1>1, ToSetSeq DEF IsSeq
<1>8. q \in Seq(AllPids)
  BY <1>6, <1>7, SeqMonotonic
<1> QED
  BY <1>1, <1>4, <1>8

\* The transponders that have a service of some name
LEMMA CandidatesAre ==
  ASSUME DeviceShape, NEW name, Candidates(name) # <<>>
  PROVE  /\ name \in DOMAIN smap /\ Candidates(name) = smap[name]
         /\ Candidates(name) \in Seq(Places)
         /\ Len(Candidates(name)) \in Nat \ {0} /\ DOMAIN Candidates(name) = 1 .. Len(Candidates(name))
         /\ ToSet(Candidates(name)) \subseteq Places
         /\ \A k \in 1 .. Len(Candidates(name)) : Candidates(name)[k] \in ToSet(Candidates(name))
         /\ Candidates(name)[1] \in ToSet(Candidates(name))
<1>1. name \in DOMAIN smap /\ Candidates(name) = smap[name]
  BY DEF Candidates
<1>2. smap = ServiceMap(device) /\ Places = ToSet(TransponderPlaces(device))
  BY DEF DeviceShape
<1>3. Candidates(name) \in Seq(Places)
  BY <1>1, <1>2 DEF DeviceShape, Readable
<1>4. Len(Candidates(name)) \in Nat \ {0} /\ DOMAIN Candidates(name) = 1 .. Len(Candidates(name))
  BY <1>3, EmptySeq
<1>5. ToSet(Candidates(name)) \subseteq Places
  BY <1>3, <1>4 DEF ToSet
<1>6. \A k \in 1 .. Len(Candidates(name)) : Candidates(name)[k] \in ToSet(Candidates(name))
  BY <1>4 DEF ToSet
<1> QED
  BY <1>1, <1>3, <1>4, <1>5, <1>6

\* getService finds the service on each of them
LEMMA ServiceFound ==
  ASSUME DeviceShape, NEW name, NEW p \in ToSet(Candidates(name))
  PROVE  /\ p \in Places /\ getService(p, name) \in DOMAIN At(device, p).services
         /\ ServiceAt(p, getService(p, name)).name = name
<1>1. Candidates(name) # <<>>
  BY DEF ToSet
<1>2. /\ name \in DOMAIN smap /\ Candidates(name) = smap[name] /\ p \in Places
      /\ smap = ServiceMap(device)
  BY <1>1, CandidatesAre DEF DeviceShape
<1>3. \E k \in DOMAIN At(device, p).services : At(device, p).services[k].name = name
  BY <1>2 DEF DeviceShape, Readable
<1> DEFINE those == {k \in DOMAIN At(device, p).services : ServiceAt(p, k).name = name}
<1>4. those \in SUBSET Nat /\ those # {}
  BY <1>2, <1>3, PlacesAre DEF ServiceAt
<1>5. First(those) \in those
  BY <1>4, FirstIs
<1>6. getService(p, name) = First(those)
  BY DEF getService
<1> QED
  BY <1>2, <1>5, <1>6

\* What DvbFreeStream looks up is a service of that name
LEMMA OriginalIs ==
  ASSUME DeviceShape, NEW name, Candidates(name) # <<>>
  PROVE  /\ Original(name) \in Instances /\ NameOf(Original(name)) = name
         /\ Original(name).at = Candidates(name)[1] /\ Original(name).clone = 0
         /\ Original(name).number = getService(Candidates(name)[1], name)
<1> DEFINE p == Candidates(name)[1]
<1>1. p \in ToSet(Candidates(name)) /\ p \in Places
  BY CandidatesAre
<1>2. getService(p, name) \in DOMAIN At(device, p).services /\ ServiceAt(p, getService(p, name)).name = name
  BY <1>1, ServiceFound
<1>3. getService(p, name) \in Nat
  BY <1>1, <1>2, PlacesAre
<1>4. 0 \in 0 .. MaxClones
  BY DeviceAssumption
<1> HIDE DEF p
<1>5. Original(name) = [at |-> p, number |-> getService(p, name), clone |-> 0]
  BY DEF Original, p
<1> QED
  BY <1>1, <1>2, <1>3, <1>4, <1>5 DEF Instances, NameOf, p

-------------------------------------------------------------------------------
(* A stream is started *)
\* A stream has been opened with instance i
Started(h, name, none, i) ==
  LET f == FrontOf(i.at)
  IN /\ i \in Instances /\ i.at \in ToSet(Candidates(name)) /\ i.number = getService(i.at, name)
     /\ NameOf(i) = name /\ f \in AllFronts /\ i \notin served[f]
     /\ Candidates(name) # <<>> /\ Original(name) \in Instances
     /\ \/ tuned[f] = i.at \/ tuned[f] = Nowhere
        \/ Interrupted(f) = {} \/ "interrupted" \in mishaps'
     /\ tuned' = [tuned EXCEPT ![f] = i.at]
     /\ locked' = IF tuned[f] = i.at THEN locked ELSE [locked EXCEPT ![f] = i.at]
     /\ served' = [served EXCEPT ![f] = @ \cup {i}]
     /\ Select(f, Pids(i.at, i.number), none)
     /\ marks' \in [Places -> SUBSET Instances]
     /\ \A p \in Places : \A j \in marks'[p] : j.at = p
     /\ streams' = [streams EXCEPT ![h] = [state |-> "open", inst |-> i, from |-> Original(name)]]
     /\ opens' = opens + 1
     /\ mishaps \subseteq mishaps' /\ mishaps' \subseteq Mishaps
     /\ i.clone # 0 => "cloned" \in mishaps'
     /\ i.at # Candidates(name)[1] => "strayed" \in mishaps'
     /\ Selected(f, Pids(i.at, i.number), none) # Pids(i.at, i.number) => "unfiltered" \in mishaps'
     /\ ~Hears(f) => "deaf" \in mishaps'
     /\ UNCHANGED <<device, smap, feeder, deleted>>

\* The transponder that getMultiplex takes needs no tuning, or tunes a free
\* frontend, or interrupts the streams of a frontend
LEMMA FitsAre ==
  ASSUME DeviceShape, NEW name, Candidates(name) # <<>>, NEW lock, NEW fits,
         fits = Fits(name, Candidates(name), lock), fits # {}
  PROVE  LET k == First(fits)
             p == Candidates(name)[k]
         IN /\ k \in 1 .. Len(Candidates(name)) /\ p \in ToSet(Candidates(name))
            /\ \/ tuned[FrontOf(p)] \in {p, Nowhere}
               \/ Retunes(name, Candidates(name), fits) /\ k = Len(Candidates(name))
<1> DEFINE places == Candidates(name)
           k == First(fits)
           p == places[k]
<1>1. /\ Len(places) \in Nat /\ DOMAIN places = 1 .. Len(places)
      /\ \A j \in 1 .. Len(places) : places[j] \in ToSet(places)
  BY CandidatesAre
<1>2. fits \subseteq 1 .. Len(places)
  BY <1>1 DEF Fits, Usable
<1>3. k \in fits /\ \A j \in fits : k <= j
  BY <1>1, <1>2, FirstIs
<1>4. k \in 1 .. Len(places) /\ p \in ToSet(places)
  BY <1>1, <1>2, <1>3
<1>5. /\ k \in Usable(name, places)
      /\ \/ tuned[FrontOf(p)] = p
         \/ (tuned[FrontOf(p)] = Nowhere \/ k = Len(places)) /\ p \in lock
  BY <1>3 DEF Fits
<1>6. ASSUME tuned[FrontOf(p)] \notin {p, Nowhere}
      PROVE  Retunes(name, places, fits) /\ k = Len(places)
  <2>1. k = Len(places)
    BY <1>5, <1>6
  <2>2. fits \subseteq {k}
    BY <1>1, <1>2, <1>3, <2>1
  <2> HIDE DEF k
  <2>3. k \in Usable(name, places) /\ tuned[FrontOf(places[k])] \notin {Nowhere, places[k]}
    BY <1>5, <1>6
  <2> QED
    BY <2>1, <2>2, <2>3 DEF Retunes
<1> QED
  BY <1>4, <1>6

\* Start starts a stream with some instance
LEMMA StartIs ==
  ASSUME DeviceShape, NEW h \in Handles, NEW name, NEW lock, NEW none, Candidates(name) # <<>>,
         Start(h, name, lock, none)
  PROVE  \E i \in Instances : Started(h, name, none, i)
<1> DEFINE places == Candidates(name)
           first == places[1]
           fits == Fits(name, places, lock)
           k == First(fits)
           p == places[k]
           f == FrontOf(p)
           s == getService(p, name)
           instance(n) == [at |-> p, number |-> s, clone |-> n]
           pids == Pids(p, s)
           free == {n \in 0 .. MaxClones + 1 : instance(n) \notin served[f]}
           n == First(free)
           i == instance(n)
           retune == Retunes(name, places, fits)
           events ==
             (IF retune /\ Interrupted(f) # {} THEN {"interrupted"} ELSE {})
             \cup (IF n > 0 THEN {"cloned"} ELSE {})
             \cup (IF p # first THEN {"strayed"} ELSE {})
             \cup (IF Selected(f, pids, none) # pids THEN {"unfiltered"} ELSE {})
             \cup (IF ~Hears(f) THEN {"deaf"} ELSE {})
<1>1. /\ fits # {} /\ n <= MaxClones
      /\ tuned' = [tuned EXCEPT ![f] = p]
      /\ locked' = IF tuned[f] = p THEN locked ELSE [locked EXCEPT ![f] = p]
      /\ served' = [served EXCEPT ![f] = @ \cup {i}]
      /\ Select(f, pids, none)
      /\ marks' = [(IF retune THEN StoppedMarks(f) ELSE marks) EXCEPT ![p] = @ \cup {i}]
      /\ Opens(h, [state |-> "open", inst |-> i,
                   from |-> [at |-> first, number |-> getService(first, name), clone |-> 0]])
      /\ mishaps' = mishaps \cup events
      /\ UNCHANGED <<device, smap, feeder, deleted>>
  BY DEF Start
<1>2. /\ k \in 1 .. Len(places) /\ p \in ToSet(places)
      /\ tuned[f] \in {p, Nowhere} \/ retune
  BY <1>1, FitsAre
<1>3. p \in Places /\ s \in DOMAIN At(device, p).services /\ ServiceAt(p, s).name = name
  BY <1>2, ServiceFound
<1>4. f \in AllFronts /\ s \in Nat
  BY <1>3, PlacesAre
<1>5. n \in 0 .. MaxClones /\ i \notin served[f]
  <2>1. served[f] \subseteq Instances
    BY <1>4 DEF DeviceShape
  <2>2. instance(MaxClones + 1).clone = MaxClones + 1
    OBVIOUS
  <2>3. \A j \in Instances : j.clone \in 0 .. MaxClones
    BY DEF Instances
  <2>4. MaxClones + 1 \notin 0 .. MaxClones /\ MaxClones \in Nat
    BY DeviceAssumption
  <2>5. instance(MaxClones + 1) \notin served[f]
    BY <2>1, <2>2, <2>3, <2>4
  <2> HIDE DEF instance
  <2>6. MaxClones + 1 \in free /\ free \in SUBSET Nat
    BY <2>4, <2>5
  <2>7. n \in free
    BY <2>6, FirstIs
  <2>8. n \in 0 .. MaxClones + 1 /\ i \notin served[f]
    BY <2>7
  <2>9. n <= MaxClones
    BY <1>1
  <2> HIDE DEF n
  <2> QED
    BY <2>4, <2>8, <2>9
<1> HIDE DEF k, s, n
<1>6. i.at = p /\ i.number = s /\ i.clone = n
  OBVIOUS
<1>7. i \in Instances /\ NameOf(i) = name
  BY <1>3, <1>4, <1>5 DEF Instances, NameOf
<1> HIDE DEF i, instance, p
<1>8. Original(name) \in Instances
      /\ Original(name) = [at |-> first, number |-> getService(first, name), clone |-> 0]
  BY OriginalIs DEF Original
<1>9. mishaps \subseteq mishaps' /\ mishaps' \subseteq Mishaps
  BY <1>1 DEF DeviceShape, Mishaps
<1>10. /\ i.clone # 0 => "cloned" \in mishaps'
       /\ i.at # Candidates(name)[1] => "strayed" \in mishaps'
       /\ Selected(f, pids, none) # pids => "unfiltered" \in mishaps'
       /\ ~Hears(f) => "deaf" \in mishaps'
       /\ retune => Interrupted(f) = {} \/ "interrupted" \in mishaps'
  BY <1>1, <1>5, <1>6
<1>11. /\ marks' \in [Places -> SUBSET Instances]
       /\ \A q \in Places : \A j \in marks'[q] : j.at = q
  <2>1. /\ marks \in [Places -> SUBSET Instances]
        /\ \A q \in Places : \A j \in marks[q] : j.at = q
    BY DEF DeviceShape
  <2> DEFINE base == IF retune THEN StoppedMarks(f) ELSE marks
  <2>2. /\ base \in [Places -> SUBSET Instances]
        /\ \A q \in Places : base[q] \subseteq marks[q]
    BY <2>1 DEF StoppedMarks
  <2>3. marks' = [base EXCEPT ![p] = @ \cup {i}]
    BY <1>1
  <2> HIDE DEF base
  <2> QED
    BY <2>1, <2>2, <2>3, <1>3, <1>6, <1>7
<1>12. f = FrontOf(i.at) /\ pids = Pids(i.at, i.number) /\ i.number = getService(i.at, name)
  BY <1>6 DEF s
<1> HIDE DEF f, pids, retune, events
<1>13. Started(h, name, none, i)
  BY <1>1, <1>2, <1>4, <1>5, <1>6, <1>7, <1>8, <1>9, <1>10, <1>11, <1>12 DEF Started, Opens
<1> QED
  BY <1>7, <1>13

-------------------------------------------------------------------------------
(* How often a pid occurs, and what selecting and unselecting takes *)
\* Where x is among the first n of q
At1(q, n, x) == {k \in 1 .. n : q[k] = x}

\* Count over a prefix is the number of these positions
LEMMA CountIs ==
  ASSUME NEW S, NEW q \in Seq(S), NEW n \in 0 .. Len(q), NEW x
  PROVE  /\ SubSeq(q, 1, n) \in Seq(S) /\ Len(SubSeq(q, 1, n)) = n
         /\ \A k \in 1 .. n : SubSeq(q, 1, n)[k] = q[k]
         /\ IsFiniteSet(At1(q, n, x)) /\ Cardinality(At1(q, n, x)) \in Nat
         /\ Count(SubSeq(q, 1, n), x) = Cardinality(At1(q, n, x))
<1>1. Len(q) \in Nat /\ DOMAIN q = 1 .. Len(q)
  BY LenProperties
<1>2. /\ SubSeq(q, 1, n) \in Seq(S) /\ Len(SubSeq(q, 1, n)) = n
      /\ \A k \in 1 .. n : SubSeq(q, 1, n)[k] = q[k]
  <2>1. 1 \in 1 .. Len(q) + 1 /\ n \in 1 - 1 .. Len(q)
    BY <1>1
  <2>2. /\ SubSeq(q, 1, n) \in Seq(S)
        /\ Len(SubSeq(q, 1, n)) = IF 1 <= n THEN n - 1 + 1 ELSE 0
        /\ \A k \in 1 .. n - 1 + 1 : SubSeq(q, 1, n)[k] = q[1 + k - 1]
    BY <2>1, SubSeqProperties
  <2> QED
    BY <2>2, <1>1
<1>3. IsFiniteSet(1 .. n)
  BY <1>1, FS_Interval
<1>4. IsFiniteSet(At1(q, n, x)) /\ Cardinality(At1(q, n, x)) \in Nat
  BY <1>3, FS_Subset, FS_CardinalityType DEF At1
<1>5. DOMAIN SubSeq(q, 1, n) = 1 .. n
  BY <1>2, LenProperties
<1>6. {k \in DOMAIN SubSeq(q, 1, n) : SubSeq(q, 1, n)[k] = x} = At1(q, n, x)
  BY <1>2, <1>5 DEF At1
<1> QED
  BY <1>2, <1>4, <1>6 DEF Count

\* Count over all of q
LEMMA CountOfAll ==
  ASSUME NEW S, NEW q \in Seq(S), NEW x
  PROVE  /\ Count(q, x) = Cardinality(At1(q, Len(q), x)) /\ Count(q, x) \in Nat
         /\ SubSeq(q, 1, Len(q)) = q
         /\ x \in ToSet(q) <=> Count(q, x) > 0
         /\ At1(q, Len(q), x) = {k \in DOMAIN q : q[k] = x}
<1>1. Len(q) \in Nat /\ DOMAIN q = 1 .. Len(q) /\ Len(q) \in 0 .. Len(q)
  BY LenProperties
<1>2. IsFiniteSet(At1(q, Len(q), x)) /\ Cardinality(At1(q, Len(q), x)) \in Nat
  BY <1>1, CountIs
<1>3. At1(q, Len(q), x) = {k \in DOMAIN q : q[k] = x}
  BY <1>1 DEF At1
<1>4. x \in ToSet(q) <=> At1(q, Len(q), x) # {}
  BY <1>3 DEF ToSet
<1>5. At1(q, Len(q), x) # {} <=> Cardinality(At1(q, Len(q), x)) # 0
  BY <1>2, FS_EmptySet
<1>6. SubSeq(q, 1, Len(q)) = q
  BY SubSeqFull
<1> QED
  BY <1>2, <1>3, <1>4, <1>5, <1>6 DEF Count

\* Positions up to the last one
LEMMA CountUpTo ==
  ASSUME NEW S, NEW q \in Seq(S), NEW n \in 0 .. Len(q), NEW x, NEW r \in Nat,
         \A j \in 1 .. n : q[j] = x => Count(SubSeq(q, 1, j - 1), x) < r
  PROVE  Count(SubSeq(q, 1, n), x) <= r
<1>1. Len(q) \in Nat /\ n \in Nat
  BY LenProperties
<1>2. /\ Count(SubSeq(q, 1, n), x) = Cardinality(At1(q, n, x))
      /\ IsFiniteSet(At1(q, n, x))
  BY CountIs
<1>3. CASE At1(q, n, x) = {}
  BY <1>2, <1>3, FS_EmptySet
<1>4. CASE At1(q, n, x) # {}
  <2> DEFINE T == {n - j : j \in At1(q, n, x)}
  <2>1. T \in SUBSET Nat /\ T # {}
    BY <1>1, <1>4 DEF At1
  <2>2. PICK d \in T : \A e \in T : d <= e
    BY <2>1, LeastNatural
  <2>3. PICK j \in At1(q, n, x) : d = n - j
    BY <2>2
  <2>4. \A k \in At1(q, n, x) : n - j <= n - k
    BY <2>2, <2>3
  <2> HIDE DEF T
  <2>5. j \in 1 .. n /\ q[j] = x
    BY <2>3 DEF At1
  <2>6. \A k \in At1(q, n, x) : k <= j /\ k \in 1 .. n
    BY <2>4, <2>5, <1>1 DEF At1
  <2>7. At1(q, n, x) = At1(q, j - 1, x) \cup {j}
    BY <2>5, <2>6, <1>1 DEF At1
  <2>8. j - 1 \in 0 .. Len(q) /\ j \notin At1(q, j - 1, x)
    BY <2>5, <1>1 DEF At1
  <2>9. /\ Count(SubSeq(q, 1, j - 1), x) = Cardinality(At1(q, j - 1, x))
        /\ IsFiniteSet(At1(q, j - 1, x)) /\ Cardinality(At1(q, j - 1, x)) \in Nat
    BY <2>8, CountIs
  <2>10. Cardinality(At1(q, n, x)) = Cardinality(At1(q, j - 1, x)) + 1
    BY <2>7, <2>8, <2>9, FS_AddElement
  <2>11. Count(SubSeq(q, 1, j - 1), x) < r
    BY <2>5
  <2> QED
    BY <1>2, <2>9, <2>10, <2>11
<1> QED
  BY <1>3, <1>4

\* A prefix has no more of x than the whole
LEMMA CountPart ==
  ASSUME NEW S, NEW q \in Seq(S), NEW n \in 0 .. Len(q), NEW x
  PROVE  Count(SubSeq(q, 1, n), x) <= Count(q, x)
<1>1. Len(q) \in Nat /\ Len(q) \in 0 .. Len(q)
  BY LenProperties
<1>2. IsFiniteSet(At1(q, Len(q), x))
  BY <1>1, CountIs
<1>3. At1(q, n, x) \subseteq At1(q, Len(q), x)
  BY <1>1 DEF At1
<1>4. Cardinality(At1(q, n, x)) <= Cardinality(At1(q, Len(q), x))
  BY <1>2, <1>3, FS_Subset
<1> QED
  BY <1>4, CountIs, CountOfAll

\* The part of a sequence before the first place of a set
LEMMA UntilIs ==
  ASSUME NEW S, NEW q \in Seq(S), NEW fails, fails \subseteq DOMAIN q
  PROVE  /\ Until(q, fails) \in Seq(S)
         /\ fails = {} => Until(q, fails) = q
         /\ \E n \in 0 .. Len(q) :
              /\ Until(q, fails) = SubSeq(q, 1, n) /\ DOMAIN Until(q, fails) = 1 .. n
              /\ \A k \in 1 .. n : Until(q, fails)[k] = q[k] /\ k \notin fails /\ k \in DOMAIN q
<1>1. Len(q) \in Nat /\ DOMAIN q = 1 .. Len(q) /\ SubSeq(q, 1, Len(q)) = q
  BY LenProperties, SubSeqFull
<1>2. CASE fails = {}
  <2>1. Until(q, fails) = q
    BY <1>2 DEF Until
  <2>2. Len(q) \in 0 .. Len(q)
    BY <1>1
  <2>3. \A k \in 1 .. Len(q) : q[k] = q[k] /\ k \notin fails /\ k \in DOMAIN q
    BY <1>1, <1>2
  <2> QED
    BY <2>1, <2>2, <2>3, <1>1
<1>3. CASE fails # {}
  <2> DEFINE n == First(fails) - 1
  <2>1. fails \in SUBSET Nat
    BY <1>1
  <2>2. First(fails) \in fails /\ \A k \in fails : First(fails) <= k
    BY <1>3, <2>1, FirstIs
  <2>3. Until(q, fails) = SubSeq(q, 1, n)
    BY <1>3 DEF Until
  <2>4. n \in 0 .. Len(q) /\ \A k \in 1 .. n : k \notin fails /\ k \in DOMAIN q
    BY <1>1, <2>2
  <2> HIDE DEF n
  <2>5. /\ SubSeq(q, 1, n) \in Seq(S) /\ Len(SubSeq(q, 1, n)) = n
        /\ \A k \in 1 .. n : SubSeq(q, 1, n)[k] = q[k]
    BY <2>4, CountIs
  <2>6. DOMAIN SubSeq(q, 1, n) = 1 .. n
    BY <2>5, LenProperties
  <2> QED
    BY <1>3, <2>3, <2>4, <2>5, <2>6
<1> QED
  BY <1>2, <1>3

\* What unselectService takes: never more than was counted; and all, if all of it is
\* counted and has descriptors of its own
LEMMA UnselectedIs ==
  ASSUME DeviceShape, NEW f \in AllFronts, NEW q \in Seq(AllPids)
  PROVE  /\ Unselected(f, q) \in Seq(AllPids)
         /\ \A x \in AllPids : Count(Unselected(f, q), x) \in 0 .. refs[f][x]
         /\ (\A x \in AllPids : Count(q, x) <= refs[f][x]) /\ Alive /\ Apart => Unselected(f, q) = q
<1> DEFINE at(k) == handle[f][q[k]]
           closing == {k \in DOMAIN q : Left(f, q, k) = 1}
           missing == {k \in DOMAIN q : Left(f, q, k) <= 0}
           fails == {k \in closing : fds[at(k)] = Unused \/ \E j \in closing : j < k /\ at(j) = at(k)}
<1>1. Len(q) \in Nat /\ DOMAIN q = 1 .. Len(q)
  BY LenProperties
<1>2. Unselected(f, q) = Until(q, missing \cup fails)
  BY DEF Unselected
<1>3. missing \cup fails \subseteq DOMAIN q
  OBVIOUS
<1>4. refs[f] \in [AllPids -> Nat]
  BY DEF DeviceShape
<1>5. \A k \in DOMAIN q :
        /\ q[k] \in AllPids /\ k - 1 \in 0 .. Len(q) /\ refs[f][q[k]] \in Nat
        /\ Count(SubSeq(q, 1, k - 1), q[k]) \in Nat
        /\ Left(f, q, k) = refs[f][q[k]] - Count(SubSeq(q, 1, k - 1), q[k])
  <2> TAKE k \in DOMAIN q
  <2>1. q[k] \in AllPids /\ k - 1 \in 0 .. Len(q)
    BY <1>1, ElementOfSeq
  <2>2. Count(SubSeq(q, 1, k - 1), q[k]) \in Nat
    BY <2>1, CountIs
  <2> QED
    BY <2>1, <2>2, <1>4 DEF Left
<1>6. ASSUME NEW j \in DOMAIN q, NEW k \in DOMAIN q, j < k, q[j] = q[k] PROVE Left(f, q, k) < Left(f, q, j)
  <2> DEFINE x == q[k]
  <2>1. j - 1 \in 0 .. Len(q) /\ k - 1 \in 0 .. Len(q) /\ j \in 1 .. k - 1
    BY <1>1, <1>6
  <2> HIDE DEF x
  <2>2. /\ Count(SubSeq(q, 1, k - 1), x) = Cardinality(At1(q, k - 1, x)) /\ IsFiniteSet(At1(q, k - 1, x))
        /\ Count(SubSeq(q, 1, j - 1), x) = Cardinality(At1(q, j - 1, x)) /\ IsFiniteSet(At1(q, j - 1, x))
        /\ Cardinality(At1(q, k - 1, x)) \in Nat /\ Cardinality(At1(q, j - 1, x)) \in Nat
    BY <2>1, CountIs
  <2>3. At1(q, j - 1, x) \cup {j} \subseteq At1(q, k - 1, x) /\ j \notin At1(q, j - 1, x)
    BY <1>1, <1>6, <2>1 DEF At1, x
  <2>4. /\ Cardinality(At1(q, j - 1, x) \cup {j}) = Cardinality(At1(q, j - 1, x)) + 1
        /\ Cardinality(At1(q, j - 1, x) \cup {j}) <= Cardinality(At1(q, k - 1, x))
    BY <2>2, <2>3, FS_AddElement, FS_Subset
  <2>5. Cardinality(At1(q, j - 1, x)) < Cardinality(At1(q, k - 1, x))
    BY <2>2, <2>4
  <2> QED
    BY <2>2, <2>5, <1>4, <1>5, <1>6 DEF x
<1>7. ASSUME \A x \in AllPids : Count(q, x) <= refs[f][x] PROVE missing = {}
  <2> SUFFICES ASSUME NEW k \in missing PROVE FALSE
    OBVIOUS
  <2> DEFINE x == q[k]
  <2>1. k \in 1 .. Len(q) /\ x \in AllPids /\ Left(f, q, k) <= 0
    BY <1>1, <1>5
  <2>2. k - 1 \in 0 .. Len(q) /\ k \in 0 .. Len(q) /\ q[k] = x
    BY <1>1, <2>1
  <2>9. refs[f][x] <= Count(SubSeq(q, 1, k - 1), x)
    BY <1>5, <2>1
  <2> HIDE DEF x, missing
  <2>3. /\ Count(SubSeq(q, 1, k - 1), x) = Cardinality(At1(q, k - 1, x))
        /\ IsFiniteSet(At1(q, k - 1, x)) /\ Cardinality(At1(q, k - 1, x)) \in Nat
        /\ Count(SubSeq(q, 1, k), x) = Cardinality(At1(q, k, x))
    BY <2>2, CountIs
  <2>4. At1(q, k, x) = At1(q, k - 1, x) \cup {k} /\ k \notin At1(q, k - 1, x)
    BY <2>1, <2>2, <1>1 DEF At1
  <2>5. Cardinality(At1(q, k, x)) = Cardinality(At1(q, k - 1, x)) + 1
    BY <2>3, <2>4, FS_AddElement
  <2>6. Count(SubSeq(q, 1, k), x) <= Count(q, x) /\ Count(q, x) \in Nat
    BY <2>2, CountPart, CountOfAll
  <2>7. Count(q, x) <= refs[f][x] /\ refs[f][x] \in Nat
    BY <1>7, <2>1, <1>4
  <2> QED
    BY <2>9, <2>3, <2>5, <2>6, <2>7
<1>8. ASSUME Alive, Apart PROVE fails = {}
  <2> SUFFICES ASSUME NEW k \in closing, fds[at(k)] = Unused \/ \E j \in closing : j < k /\ at(j) = at(k)
               PROVE  FALSE
    OBVIOUS
  <2>1. \A j \in closing : j \in DOMAIN q /\ q[j] \in AllPids /\ refs[f][q[j]] > 0 /\ Left(f, q, j) = 1
    BY <1>5
  <2>2. fds[at(k)] # Unused
    BY <2>1, <1>8, FdIs DEF Alive
  <2>3. PICK j \in closing : j < k /\ at(j) = at(k)
    BY <2>2
  <2>4. q[j] = q[k]
    BY <2>1, <2>3, <1>8 DEF Apart
  <2> QED
    BY <2>1, <2>3, <2>4, <1>6
<1> HIDE DEF missing, fails
<1>9. Unselected(f, q) \in Seq(AllPids) /\ (missing = {} /\ fails = {} => Unselected(f, q) = q)
  BY <1>2, <1>3, UntilIs
<1> DEFINE bad == missing \cup fails
<1>3a. bad \subseteq DOMAIN q /\ Unselected(f, q) = Until(q, bad)
  BY <1>2, <1>3
<1>3b. \A k : k \notin bad => k \notin missing
  OBVIOUS
<1> HIDE DEF bad
<1>3c. \E n \in 0 .. Len(q) :
         /\ Until(q, bad) = SubSeq(q, 1, n) /\ DOMAIN Until(q, bad) = 1 .. n
         /\ \A k \in 1 .. n : Until(q, bad)[k] = q[k] /\ k \notin bad /\ k \in DOMAIN q
  BY <1>3a, UntilIs
<1>10. PICK n \in 0 .. Len(q) :
         Unselected(f, q) = SubSeq(q, 1, n) /\ \A k \in 1 .. n : k \notin missing /\ k \in DOMAIN q
  BY <1>3a, <1>3b, <1>3c
<1>11. ASSUME NEW x \in AllPids PROVE Count(SubSeq(q, 1, n), x) \in 0 .. refs[f][x]
  <2>1. refs[f][x] \in Nat
    BY <1>4
  <2>2. ASSUME NEW j \in 1 .. n, q[j] = x PROVE Count(SubSeq(q, 1, j - 1), x) < refs[f][x]
    <3>1. j \in DOMAIN q /\ ~(Left(f, q, j) <= 0)
      BY <1>10 DEF missing
    <3> QED
      BY <3>1, <2>1, <2>2, <1>5
  <2>3. Count(SubSeq(q, 1, n), x) <= refs[f][x]
    BY <2>1, <2>2, CountUpTo
  <2>4. Count(SubSeq(q, 1, n), x) \in Nat
    BY CountIs
  <2> QED
    BY <2>1, <2>3, <2>4
<1> QED
  BY <1>7, <1>8, <1>9, <1>10, <1>11

\* What selectService takes is a sequence of pids
LEMMA SelectedIs ==
  ASSUME NEW f, NEW q \in Seq(AllPids), NEW none
  PROVE  Selected(f, q, none) \in Seq(AllPids)
<1> DEFINE fails == {k \in DOMAIN q : refs[f][q[k]] = 0 /\ q[k] \in none}
<1>1. fails \subseteq DOMAIN q
  OBVIOUS
<1>2. Selected(f, q, none) = Until(q, fails)
  BY DEF Selected
<1> HIDE DEF fails
<1> QED
  BY <1>1, <1>2, UntilIs

\* What runService stops is a filter that nobody else has
LEMMA StoppedIs ==
  ASSUME NEW f, NEW q \in Seq(AllPids), NEW n \in Stopped(f, q)
  PROVE  /\ fds[n].of = "filter"
         /\ \E x \in AllPids : x \in ToSet(q) /\ refs[f][x] = 1 /\ handle[f][x] = n
<1> DEFINE last(p) == refs[f][p] = 1
           missing == {k \in DOMAIN q : refs[f][q[k]] = 0}
           fails == {k \in DOMAIN q : last(q[k]) /\ fds[handle[f][q[k]]].of # "filter"}
           those == Until(q, missing \cup fails)
           bad == missing \cup fails
<1>1. bad \subseteq DOMAIN q /\ those = Until(q, bad) /\ \A k : k \notin bad => k \notin fails
  OBVIOUS
<1>2. PICK x \in ToSet(those) : last(x) /\ handle[f][x] = n
  BY DEF Stopped
<1> HIDE DEF missing, fails, bad, those
<1>3a. \E m \in 0 .. Len(q) :
         /\ Until(q, bad) = SubSeq(q, 1, m) /\ DOMAIN Until(q, bad) = 1 .. m
         /\ \A k \in 1 .. m : Until(q, bad)[k] = q[k] /\ k \notin bad /\ k \in DOMAIN q
  BY <1>1, UntilIs
<1>3. PICK m \in 0 .. Len(q) :
        DOMAIN those = 1 .. m /\ \A k \in 1 .. m : those[k] = q[k] /\ k \notin fails /\ k \in DOMAIN q
  BY <1>1, <1>3a
<1>4. PICK k \in 1 .. m : those[k] = x
  BY <1>3 DEF ToSet
<1>5. k \in DOMAIN q /\ q[k] = x /\ k \notin fails
  BY <1>3, <1>4
<1>6. x \in AllPids /\ x \in ToSet(q)
  BY <1>5, LenProperties, ElementOfSeq DEF ToSet
<1> QED
  BY <1>2, <1>5, <1>6 DEF fails

-------------------------------------------------------------------------------
(* The uses of a pid by the open streams *)
\* The values of a stream
StreamSet == {Closed, Null} \cup Opened
\* The uses of a pid by one stream, and by all streams of one frontend
Mine(h, i, x) ==
  {<<h, k>> : k \in {j \in DOMAIN Pids(i.at, i.number) : Pids(i.at, i.number)[j] = x}}
UsesIn(st, f, x) ==
  UNION {Mine(h, st[h].inst, x) :
           h \in {g \in Handles : st[g].state = "open" /\ FrontOf(st[g].inst.at) = f}}

\* Uses are the uses of the streams as they are
LEMMA UsesAre ==
  ASSUME NEW f, NEW x
  PROVE  /\ Uses(f, x) = UsesIn(streams, f, x)
         /\ device' = device => Uses(f, x)' = UsesIn(streams', f, x)
<1>1. Uses(f, x) = UsesIn(streams, f, x)
  BY DEF Uses, UsesIn, Mine
<1>2. ASSUME device' = device PROVE Uses(f, x)' = UsesIn(streams', f, x)
  <2>1. \A p, k : Pids(p, k)' = Pids(p, k)
    BY <1>2 DEF Pids, ServiceAt, At, Map
  <2> QED
    BY <2>1 DEF Uses, UsesIn, Mine
<1> QED
  BY <1>1, <1>2

\* The pids of an instance
LEMMA InstancePids ==
  ASSUME DeviceShape, NEW i \in Instances
  PROVE  /\ Pids(i.at, i.number) \in Seq(AllPids)
         /\ i.at \in Places /\ i.number \in DOMAIN At(device, i.at).services
         /\ FrontOf(i.at) \in AllFronts
<1>1. i.at \in Places /\ i.number \in DOMAIN At(device, i.at).services
  BY DEF Instances
<1> QED
  BY <1>1, PidsAre, PlacesAre

\* A stream uses a pid as often as its service lists it
LEMMA MineIs ==
  ASSUME DeviceShape, NEW h, NEW i \in Instances, NEW x
  PROVE  /\ IsFiniteSet(Mine(h, i, x))
         /\ Cardinality(Mine(h, i, x)) = Count(Pids(i.at, i.number), x)
<1> DEFINE q == Pids(i.at, i.number)
           K == At1(q, Len(q), x)
           g == [k \in K |-> <<h, k>>]
<1>1. q \in Seq(AllPids)
  BY InstancePids
<1>2. Len(q) \in Nat /\ Len(q) \in 0 .. Len(q)
  BY <1>1, LenProperties
<1> HIDE DEF q
<1>3. IsFiniteSet(K) /\ Count(q, x) = Cardinality(K) /\ K = {j \in DOMAIN q : q[j] = x}
  BY <1>1, <1>2, CountIs, CountOfAll
<1> HIDE DEF K
<1>4. Mine(h, i, x) = {<<h, k>> : k \in K}
  BY <1>3 DEF Mine, q
<1>5. g \in Bijection(K, Mine(h, i, x))
  BY <1>4 DEF Bijection, Injection, Surjection, IsInjective
<1>6. ExistsBijection(K, Mine(h, i, x))
  BY <1>5 DEF ExistsBijection
<1> QED
  BY <1>3, <1>6, FS_Bijection DEF q

\* The three states of a stream
LEMMA StreamIs ==
  ASSUME NEW s \in StreamSet
  PROVE  /\ s.state = "open" <=> s \in Opened
         /\ s.state = "open" => s.inst \in Instances /\ s.from \in Instances
         /\ s.state = "open" => s # Closed /\ s # Null
         /\ s.state # "open" <=> s \in {Closed, Null}
         /\ s.state \in {"closed", "null", "open"}
         /\ s.state = "null" <=> s = Null
         /\ s.state = "closed" <=> s = Closed
  BY DEF StreamSet, Closed, Null, Opened

\* The uses of a pid are finitely many
LEMMA UsesFinite ==
  ASSUME DeviceShape, NEW st \in [Handles -> StreamSet], NEW f, NEW x
  PROVE  IsFiniteSet(UsesIn(st, f, x))
<1> DEFINE on == {g \in Handles : st[g].state = "open" /\ FrontOf(st[g].inst.at) = f}
           T == {Mine(h, st[h].inst, x) : h \in on}
           m == [h \in on |-> Mine(h, st[h].inst, x)]
<1>1. IsFiniteSet(on)
  BY DeviceAssumption, FS_Subset
<1>2. m \in Surjection(on, T)
  BY DEF Surjection
<1>3. IsFiniteSet(T)
  BY <1>1, <1>2, FS_Surjection
<1>4. \A h \in on : IsFiniteSet(Mine(h, st[h].inst, x))
  BY StreamIs, MineIs
<1>5. \A M \in T : IsFiniteSet(M)
  BY <1>4
<1>6. UsesIn(st, f, x) = UNION T
  BY DEF UsesIn
<1> HIDE DEF T
<1> QED
  BY <1>3, <1>5, <1>6, FS_UNION

\* A stream that opens adds its uses
LEMMA UsesGrow ==
  ASSUME DeviceShape, NEW s \in [Handles -> StreamSet], NEW t \in [Handles -> StreamSet],
         NEW h \in Handles, \A g \in Handles : g # h => t[g] = s[g],
         s[h].state # "open", t[h].state = "open", NEW f, NEW x
  PROVE  Cardinality(UsesIn(t, f, x)) =
           Cardinality(UsesIn(s, f, x))
             + (IF FrontOf(t[h].inst.at) = f THEN Count(Pids(t[h].inst.at, t[h].inst.number), x) ELSE 0)
<1> DEFINE On(st) == {g \in Handles : st[g].state = "open" /\ FrontOf(st[g].inst.at) = f}
           i == t[h].inst
           M == Mine(h, i, x)
<1>1. i \in Instances
  BY StreamIs
<1>2. IsFiniteSet(UsesIn(s, f, x)) /\ Cardinality(UsesIn(s, f, x)) \in Nat
  BY UsesFinite, FS_CardinalityType
<1>3. CASE FrontOf(i.at) # f
  <2>1. On(t) = On(s)
    BY <1>3
  <2>2. \A g \in On(s) : t[g].inst = s[g].inst
    OBVIOUS
  <2>3. UsesIn(t, f, x) = UsesIn(s, f, x)
    BY <2>1, <2>2 DEF UsesIn
  <2> QED
    BY <1>2, <1>3, <2>3
<1>4. CASE FrontOf(i.at) = f
  <2>1. On(t) = On(s) \cup {h} /\ h \notin On(s)
    BY <1>4
  <2>2. \A g \in On(s) : t[g].inst = s[g].inst
    BY <2>1
  <2>3. UsesIn(t, f, x) = UNION {Mine(g, t[g].inst, x) : g \in On(t)}
    BY DEF UsesIn
  <2>4. UsesIn(s, f, x) = UNION {Mine(g, s[g].inst, x) : g \in On(s)}
    BY DEF UsesIn
  <2> DEFINE O == On(s)
             P == On(t)
  <2>5. P = O \cup {h} /\ h \notin O /\ \A g \in O : t[g].inst = s[g].inst
    BY <2>1, <2>2
  <2>6. UsesIn(t, f, x) = UNION {Mine(g, t[g].inst, x) : g \in P}
    BY <2>3
  <2>7. UsesIn(s, f, x) = UNION {Mine(g, s[g].inst, x) : g \in O}
    BY <2>4
  <2> HIDE DEF O, P, On
  <2>8. UsesIn(t, f, x) = UsesIn(s, f, x) \cup M
    BY <2>5, <2>6, <2>7
  <2>9. UsesIn(s, f, x) \cap M = {}
    <3>1. \A y \in M : y[1] = h
      BY DEF Mine
    <3>2. \A y \in UsesIn(s, f, x) : y[1] \in O
      BY <2>7 DEF Mine
    <3> QED
      BY <3>1, <3>2, <2>5
  <2> HIDE DEF M
  <2>10. IsFiniteSet(M) /\ Cardinality(M) = Count(Pids(i.at, i.number), x) /\ Cardinality(M) \in Nat
    BY <1>1, MineIs, FS_CardinalityType DEF M
  <2>11. Cardinality(UsesIn(s, f, x) \cup M) =
           Cardinality(UsesIn(s, f, x)) + Cardinality(M) - Cardinality(UsesIn(s, f, x) \cap M)
    BY <1>2, <2>10, FS_Union
  <2>12. Cardinality(UsesIn(s, f, x) \cap M) = 0
    BY <2>9, FS_EmptySet
  <2> HIDE DEF i
  <2>13. Cardinality(UsesIn(t, f, x)) = Cardinality(UsesIn(s, f, x)) + Cardinality(M)
    BY <2>8, <2>11, <2>12, <1>2, <2>10
  <2> QED
    BY <2>13, <2>10, <1>4 DEF i
<1> QED
  BY <1>3, <1>4

-------------------------------------------------------------------------------
(* Selecting and unselecting against the filters *)
\* Every frontend counts every pid
LEMMA FrontsKept ==
  ASSUME DeviceShape
  PROVE  \A f \in AllFronts : DOMAIN refs[f] = AllPids
  BY DEF DeviceShape

\* The filters of the pids q have been taken, new ones with the descriptors "new"
Took(f, q, new) ==
  /\ refs' \in [AllFronts -> [AllPids -> Nat]]
  /\ handle' \in [AllFronts -> [AllPids -> -1 .. MaxFd]]
  /\ fds' \in [0 .. MaxFd -> FdSet]
  /\ \A g \in AllFronts : g # f => refs'[g] = refs[g] /\ handle'[g] = handle[g]
  /\ \A x \in AllPids : refs'[f][x] = refs[f][x] + Count(q, x)
  /\ \A x \in AllPids : handle'[f][x] = IF x \in Fresh(f, q) THEN new[x] ELSE handle[f][x]
  /\ \A x \in Fresh(f, q) : x \in AllPids /\ new[x] \in 0 .. MaxFd /\ fds[new[x]] = Unused
  /\ \A x, y \in Fresh(f, q) : new[x] = new[y] => x = y
  /\ \A n \in 0 .. MaxFd : (\A x \in Fresh(f, q) : new[x] # n) => fds'[n] = fds[n]
  /\ \A x \in Fresh(f, q) : fds'[new[x]] = FilterFor(f[1], x, refs'[f][x] = 1)

\* New filters get free descriptors, each its own
LEMMA OpeningsAre ==
  ASSUME NEW f, NEW q \in Seq(AllPids), NEW new \in Openings(f, q)
  PROVE  /\ \A x \in Fresh(f, q) : x \in AllPids /\ new[x] \in DOMAIN fds /\ fds[new[x]] = Unused
         /\ DOMAIN fds \subseteq Int => \A x, y \in Fresh(f, q) : new[x] = new[y] => x = y
<1> DEFINE met(x) == First({k \in DOMAIN q : q[k] = x})
<1>1. \A x \in Fresh(f, q) : x \in ToSet(q) /\ new[x] \in DOMAIN fds /\ fds[new[x]] = Unused
  BY DEF Openings, Fresh
<1>2. \A x, y \in Fresh(f, q) : met(x) < met(y) => new[x] < new[y]
  BY DEF Openings
<1>3. ASSUME NEW x \in ToSet(q) PROVE x \in AllPids /\ met(x) \in Nat /\ q[met(x)] = x
  <2> DEFINE K == {k \in DOMAIN q : q[k] = x}
  <2>1. K \in SUBSET Nat /\ K # {}
    BY LenProperties DEF ToSet
  <2>2. First(K) \in K
    BY <2>1, FirstIs
  <2>3. x \in AllPids
    BY LenProperties, ElementOfSeq DEF ToSet
  <2> QED
    BY <2>1, <2>2, <2>3
<1> HIDE DEF met
<1>4. ASSUME DOMAIN fds \subseteq Int, NEW x \in Fresh(f, q), NEW y \in Fresh(f, q), new[x] = new[y] PROVE x = y
  <2>1. new[x] \in Int /\ new[y] \in Int
    BY <1>1, <1>4
  <2>2. ~(met(x) < met(y)) /\ ~(met(y) < met(x))
    BY <1>2, <1>4, <2>1
  <2>3. met(x) = met(y)
    BY <1>1, <1>3, <2>2
  <2> QED
    BY <1>1, <1>3, <2>3
<1> QED
  BY <1>1, <1>3, <1>4

\* Selecting adds to the counts, and opens and starts what was not in use
LEMMA SelectIs ==
  ASSUME DeviceShape, NEW f \in AllFronts, NEW q \in Seq(AllPids), NEW none, Select(f, q, none)
  PROVE  \E new : Took(f, Selected(f, q, none), new)
<1> DEFINE taken == Selected(f, q, none)
           fresh == Fresh(f, taken)
           now == [x \in AllPids |-> refs[f][x] + Count(taken, x)]
           opened(x) == FilterFor(f[1], x, now[x] = 1)
<1>1. /\ refs \in [AllFronts -> [AllPids -> Nat]] /\ refs[f] \in [AllPids -> Nat] /\ DOMAIN refs[f] = AllPids
      /\ handle \in [AllFronts -> [AllPids -> -1 .. MaxFd]] /\ handle[f] \in [AllPids -> -1 .. MaxFd]
      /\ fds \in [0 .. MaxFd -> FdSet] /\ DOMAIN fds = 0 .. MaxFd
  BY DEF DeviceShape
<1>2. taken \in Seq(AllPids)
  BY SelectedIs
<1> DEFINE taken0 == Selected(f, q, none)
           fresh0 == Fresh(f, taken0)
           now0 == [x \in DOMAIN refs[f] |-> refs[f][x] + Count(taken0, x)]
           opened0(x) == FilterFor(f[1], x, TRUE /\ now0[x] = 1)
<1>2a. \E new \in Openings(f, taken0) :
        /\ refs' = [refs EXCEPT ![f] = now0]
        /\ handle' = [handle EXCEPT ![f] = [x \in DOMAIN refs[f] |-> IF x \in fresh0 THEN new[x] ELSE @[x]]]
        /\ fds' = [n \in DOMAIN fds |->
             IF \A x \in fresh0 : new[x] # n THEN fds[n] ELSE opened0(CHOOSE x \in fresh0 : new[x] = n)]
  BY DEF Select, TakeFilters
<1>2b. now0 = now /\ fresh0 = fresh /\ taken0 = taken
  BY <1>1
<1>2c. \A x : opened0(x) = opened(x)
  BY <1>2b
<1> DEFINE hd(new) == [x \in AllPids |-> IF x \in fresh THEN new[x] ELSE handle[f][x]]
           hd0(new) == [x \in DOMAIN refs[f] |-> IF x \in fresh0 THEN new[x] ELSE handle[f][x]]
<1>2d. \A new : hd0(new) = hd(new)
  BY <1>1, <1>2b
<1>2e. \A new : /\ handle' = [handle EXCEPT ![f] = [x \in DOMAIN refs[f] |-> IF x \in fresh0 THEN new[x] ELSE @[x]]]
                     => handle' = [handle EXCEPT ![f] = hd0(new)]
  OBVIOUS
<1>2f. PICK new \in Openings(f, taken0) :
        /\ refs' = [refs EXCEPT ![f] = now0]
        /\ handle' = [handle EXCEPT ![f] = hd0(new)]
        /\ fds' = [n \in DOMAIN fds |->
             IF \A x \in fresh0 : new[x] # n THEN fds[n] ELSE opened0(CHOOSE x \in fresh0 : new[x] = n)]
  BY <1>2a, <1>2e
<1> HIDE DEF hd0, hd, now, now0, taken, taken0, fresh, fresh0, opened0
<1>5. /\ new \in Openings(f, taken)
      /\ refs' = [refs EXCEPT ![f] = now]
      /\ handle' = [handle EXCEPT ![f] = hd(new)]
      /\ fds' = [n \in DOMAIN fds |->
             IF \A x \in fresh : new[x] # n THEN fds[n] ELSE opened(CHOOSE x \in fresh : new[x] = n)]
  <2> HIDE DEF opened
  <2>1. refs' = [refs EXCEPT ![f] = now] /\ new \in Openings(f, taken)
    BY <1>2f, <1>2b
  <2>2. handle' = [handle EXCEPT ![f] = hd(new)]
    BY <1>2f, <1>2d
  <2>3. \A n : (IF \A x \in fresh0 : new[x] # n THEN fds[n] ELSE opened0(CHOOSE x \in fresh0 : new[x] = n))
             = (IF \A x \in fresh : new[x] # n THEN fds[n] ELSE opened(CHOOSE x \in fresh : new[x] = n))
    BY <1>2b, <1>2c
  <2>4. fds' = [n \in DOMAIN fds |->
             IF \A x \in fresh : new[x] # n THEN fds[n] ELSE opened(CHOOSE x \in fresh : new[x] = n)]
    BY <1>2f, <2>3
  <2> QED
    BY <2>1, <2>2, <2>4
<1>3. \A x \in AllPids : Count(taken, x) \in Nat
  BY <1>2, CountOfAll
<1>4. now \in [AllPids -> Nat]
  BY <1>1, <1>3 DEF now
<1>6. /\ \A x \in fresh : x \in AllPids /\ new[x] \in 0 .. MaxFd /\ fds[new[x]] = Unused
      /\ \A x, y \in fresh : new[x] = new[y] => x = y
  BY <1>1, <1>2, <1>5, OpeningsAre DEF fresh
<1>7. /\ refs' \in [AllFronts -> [AllPids -> Nat]]
      /\ \A g \in AllFronts : g # f => refs'[g] = refs[g]
      /\ refs'[f] = now
  BY <1>1, <1>4, <1>5
<1>8. hd(new) \in [AllPids -> -1 .. MaxFd]
  BY <1>1, <1>6, DeviceAssumption DEF hd
<1>10. \A x \in AllPids : hd(new)[x] = IF x \in fresh THEN new[x] ELSE handle[f][x]
  BY DEF hd
<1>11. /\ handle' \in [AllFronts -> [AllPids -> -1 .. MaxFd]]
       /\ \A g \in AllFronts : g # f => handle'[g] = handle[g]
       /\ handle'[f] = hd(new)
  BY <1>1, <1>8, <1>5
<1>12. ASSUME NEW n \in 0 .. MaxFd
       PROVE  /\ (\A x \in fresh : new[x] # n) => fds'[n] = fds[n]
              /\ \A x \in fresh : new[x] = n => fds'[n] = opened(x)
              /\ fds'[n] \in FdSet
  <2>1. (\A x \in fresh : new[x] # n) => fds'[n] = fds[n]
    BY <1>1, <1>5
  <2>2. ASSUME NEW x \in fresh, new[x] = n PROVE fds'[n] = opened(x) /\ fds'[n] \in FdSet
    <3>1. (CHOOSE y \in fresh : new[y] = n) = x
      BY <1>6, <2>2
    <3>2. fds'[n] = opened(CHOOSE y \in fresh : new[y] = n)
      BY <1>1, <1>5, <2>2
    <3>3. fds'[n] = opened(x)
      BY <3>1, <3>2
    <3>4. f[1] \in DOMAIN Hardware /\ x \in AllPids /\ (now[x] = 1) \in BOOLEAN
      BY <1>6, FrontsAre
    <3> QED
      BY <3>3, <3>4, FilterFd
  <2>3. fds[n] \in FdSet
    BY <1>1
  <2> QED
    BY <2>1, <2>2, <2>3
<1>13. fds' \in [0 .. MaxFd -> FdSet]
  <2>1. DOMAIN fds' = 0 .. MaxFd
    BY <1>1, <1>5
  <2>2. fds' = [n \in 0 .. MaxFd |-> fds'[n]]
    BY <2>1, <1>1, <1>5
  <2> QED
    BY <2>2, <1>12
<1>14. \A x \in AllPids : now[x] = refs[f][x] + Count(taken, x)
  BY DEF now
<1>15. \A x \in fresh : fds'[new[x]] = FilterFor(f[1], x, refs'[f][x] = 1)
  BY <1>6, <1>7, <1>12
<1>16. Took(f, taken, new)
  BY <1>6, <1>7, <1>10, <1>11, <1>12, <1>13, <1>14, <1>15 DEF Took, fresh
<1> QED
  BY <1>16 DEF taken

\* The filters of the pids q have been given back, and the descriptors "off" stopped
Gone(f, q) == {x \in ToSet(q) : refs[f][x] - Count(q, x) = 0}
Dropped(f, q, off) ==
  /\ refs' \in [AllFronts -> [AllPids -> Nat]]
  /\ handle' \in [AllFronts -> [AllPids -> -1 .. MaxFd]]
  /\ fds' \in [0 .. MaxFd -> FdSet]
  /\ \A g \in AllFronts : g # f => refs'[g] = refs[g] /\ handle'[g] = handle[g]
  /\ \A x \in AllPids : Count(q, x) \in 0 .. refs[f][x] /\ refs'[f][x] = refs[f][x] - Count(q, x)
  /\ \A x \in Gone(f, q) : x \in AllPids
  /\ \A x \in AllPids : handle'[f][x] = IF x \in Gone(f, q) THEN -1 ELSE handle[f][x]
  /\ \A n \in off : fds[n].of = "filter"
  /\ \A n \in 0 .. MaxFd :
       fds'[n] = IF \E x \in Gone(f, q) : handle[f][x] = n THEN Unused
                 ELSE IF n \in off THEN Off(fds[n]) ELSE fds[n]

\* Unselecting takes from the counts, and stops and closes what is no longer in use
LEMMA UnselectIs ==
  ASSUME DeviceShape, NEW f \in AllFronts, NEW q \in Seq(AllPids), Unselect(f, q)
  PROVE  /\ Dropped(f, Unselected(f, q), Stopped(f, q)) /\ Unselected(f, q) \in Seq(AllPids)
         /\ (\A x \in AllPids : Count(q, x) <= refs[f][x]) /\ Alive /\ Apart => Unselected(f, q) = q
<1> DEFINE taken == Unselected(f, q)
           now == [x \in AllPids |-> refs[f][x] - Count(taken, x)]
           gone == {x \in ToSet(taken) : now[x] = 0}
           closed == {handle[f][x] : x \in gone}
           off == Stopped(f, q)
<1>1. /\ refs \in [AllFronts -> [AllPids -> Nat]] /\ refs[f] \in [AllPids -> Nat] /\ DOMAIN refs[f] = AllPids
      /\ handle \in [AllFronts -> [AllPids -> -1 .. MaxFd]] /\ handle[f] \in [AllPids -> -1 .. MaxFd]
      /\ fds \in [0 .. MaxFd -> FdSet] /\ DOMAIN fds = 0 .. MaxFd
  BY DEF DeviceShape
<1>2. /\ taken \in Seq(AllPids) /\ \A x \in AllPids : Count(taken, x) \in 0 .. refs[f][x]
      /\ (\A x \in AllPids : Count(q, x) <= refs[f][x]) /\ Alive /\ Apart => taken = q
  BY UnselectedIs
<1>3. now \in [AllPids -> Nat]
  BY <1>1, <1>2
<1>4. /\ refs' = [refs EXCEPT ![f] = now]
      /\ handle' = [handle EXCEPT ![f] = [x \in AllPids |-> IF x \in gone THEN -1 ELSE @[x]]]
      /\ fds' = [n \in DOMAIN fds |->
           IF n \in closed THEN Unused
           ELSE IF n \in off THEN Off(fds[n]) ELSE fds[n]]
  BY <1>1 DEF Unselect, Off
<1>5. \A x \in ToSet(taken) : x \in AllPids
  BY <1>2, LenProperties, ElementOfSeq DEF ToSet
<1>6. gone = Gone(f, taken) /\ \A x \in gone : x \in AllPids
  BY <1>5 DEF Gone
<1>7. \A x \in AllPids : now[x] = refs[f][x] - Count(taken, x)
  OBVIOUS
<1>8. \A n : n \in closed <=> \E x \in gone : handle[f][x] = n
  OBVIOUS
<1> HIDE DEF taken, now, gone, closed
<1>9. \A n \in off : fds[n].of = "filter"
  BY StoppedIs
<1> HIDE DEF off
<1>10. /\ refs' \in [AllFronts -> [AllPids -> Nat]]
       /\ \A g \in AllFronts : g # f => refs'[g] = refs[g]
       /\ refs'[f] = now
  BY <1>1, <1>3, <1>4
<1> DEFINE hd == [x \in AllPids |-> IF x \in gone THEN -1 ELSE handle[f][x]]
<1>11. hd \in [AllPids -> -1 .. MaxFd]
  BY <1>1, DeviceAssumption
<1>12. handle' = [handle EXCEPT ![f] = hd]
  BY <1>1, <1>4
<1>13. \A x \in AllPids : hd[x] = IF x \in gone THEN -1 ELSE handle[f][x]
  OBVIOUS
<1> HIDE DEF hd
<1>14. /\ handle' \in [AllFronts -> [AllPids -> -1 .. MaxFd]]
       /\ \A g \in AllFronts : g # f => handle'[g] = handle[g]
       /\ handle'[f] = hd
  BY <1>1, <1>11, <1>12
<1>15. \A n \in 0 .. MaxFd :
         fds'[n] = IF n \in closed THEN Unused
                   ELSE IF n \in off THEN Off(fds[n]) ELSE fds[n]
  BY <1>1, <1>4
<1>16. Unused \in FdSet /\ \A n \in 0 .. MaxFd : fds[n] \in FdSet
  BY <1>1, FdIs
<1>17. \A n \in 0 .. MaxFd : fds'[n] \in FdSet
  <2> TAKE n \in 0 .. MaxFd
  <2>1. n \in off => Off(fds[n]) \in FdSet
    BY <1>9, <1>16, FilterIs
  <2> QED
    BY <2>1, <1>15, <1>16
<1>18. fds' \in [0 .. MaxFd -> FdSet]
  <2>1. fds' = [n \in 0 .. MaxFd |-> fds'[n]]
    BY <1>1, <1>4
  <2> QED
    BY <2>1, <1>17
<1>19. Dropped(f, taken, off)
  BY <1>2, <1>6, <1>7, <1>8, <1>9, <1>10, <1>13, <1>14, <1>15, <1>18 DEF Dropped
<1> QED
  BY <1>2, <1>19 DEF taken, off

-------------------------------------------------------------------------------
(* Filters have descriptors of their own *)
\* Taking filters keeps the counted ones alive and apart, and leaves the files
LEMMA TookKeepsHandles ==
  ASSUME DeviceShape, NEW f \in AllFronts, NEW q \in Seq(AllPids), NEW new, Took(f, q, new),
         AllPids' = AllPids, mishaps \subseteq mishaps'
  PROVE  /\ HandlesInv => HandlesInv'
         /\ \A n \in 0 .. MaxFd : fds[n].of = "file" => fds'[n] = fds[n]
         /\ \A g \in AllFronts, x \in AllPids : refs'[g][x] > 0 => handle'[g][x] \in 0 .. MaxFd
<1> DEFINE fresh == Fresh(f, q)
<1>1. /\ \A g \in AllFronts : g # f => refs'[g] = refs[g] /\ handle'[g] = handle[g]
      /\ \A x \in AllPids : refs'[f][x] = refs[f][x] + Count(q, x)
      /\ \A x \in AllPids : handle'[f][x] = IF x \in fresh THEN new[x] ELSE handle[f][x]
      /\ \A x \in fresh : x \in AllPids /\ new[x] \in 0 .. MaxFd /\ fds[new[x]] = Unused
      /\ \A x, y \in fresh : new[x] = new[y] => x = y
      /\ \A n \in 0 .. MaxFd : (\A x \in fresh : new[x] # n) => fds'[n] = fds[n]
      /\ \A x \in fresh : fds'[new[x]] = FilterFor(f[1], x, refs'[f][x] = 1)
  BY DEF Took
<1>2. \A g \in AllFronts : refs[g] \in [AllPids -> Nat]
  BY DEF DeviceShape
<1>3. \A x \in AllPids : Count(q, x) \in Nat /\ (x \in ToSet(q) <=> Count(q, x) > 0)
  BY CountOfAll
<1>4. \A x \in fresh : refs[f][x] = 0 /\ x \in ToSet(q)
  BY DEF Fresh
<1>5. ASSUME NEW x \in AllPids PROVE (refs'[f][x] > 0 <=> refs[f][x] > 0 \/ x \in fresh)
  BY <1>1, <1>2, <1>3 DEF Fresh
<1> HIDE DEF fresh
<1>6. \A n \in 0 .. MaxFd : fds[n] # Unused => fds'[n] = fds[n]
  BY <1>1
<1>7. \A n \in 0 .. MaxFd : fds[n].of = "file" => fds'[n] = fds[n]
  BY <1>6, FdIs
<1>8. \A g \in AllFronts, x \in AllPids : refs[g][x] > 0 => handle[g][x] \in 0 .. MaxFd
  BY DEF DeviceShape
\* A filter that is counted now is an old one, or a new one.
<1>9. ASSUME NEW g \in AllFronts, NEW x \in AllPids, refs'[g][x] > 0
      PROVE  \/ refs[g][x] > 0 /\ handle'[g][x] = handle[g][x]
             \/ g = f /\ x \in fresh /\ handle'[g][x] = new[x]
  <2>1. CASE g # f
    BY <1>1, <1>9, <2>1
  <2>2. CASE g = f /\ x \in fresh
    BY <1>1, <2>2
  <2>3. CASE g = f /\ x \notin fresh
    BY <1>1, <1>5, <1>9, <2>3
  <2> QED
    BY <2>1, <2>2, <2>3
<1>10. \A g \in AllFronts, x \in AllPids : refs'[g][x] > 0 => handle'[g][x] \in 0 .. MaxFd
  BY <1>1, <1>8, <1>9
<1>11. ASSUME Alive, Owned, Apart
       PROVE  /\ \A g \in AllFronts, x \in AllPids : refs'[g][x] > 0 =>
                   \E on \in BOOLEAN : fds'[handle'[g][x]] = FilterFor(g[1], x, on)
              /\ \A n \in 0 .. MaxFd : fds'[n].of = "filter" =>
                   \E g \in AllFronts, x \in AllPids : refs'[g][x] > 0 /\ handle'[g][x] = n
              /\ \A g, e \in AllFronts, x, y \in AllPids :
                   refs'[g][x] > 0 /\ refs'[e][y] > 0 /\ handle'[g][x] = handle'[e][y] => g = e /\ x = y
  <2>1. \A g \in AllFronts, x \in AllPids : refs[g][x] > 0 =>
          /\ handle[g][x] \in 0 .. MaxFd
          /\ \E on \in BOOLEAN : fds[handle[g][x]] = FilterFor(g[1], x, on)
          /\ fds[handle[g][x]] # Unused
    BY <1>8, <1>11, FdIs DEF Alive
  <2>2. ASSUME NEW g \in AllFronts, NEW x \in AllPids, refs'[g][x] > 0
        PROVE  \E on \in BOOLEAN : fds'[handle'[g][x]] = FilterFor(g[1], x, on)
    <3>1. CASE refs[g][x] > 0 /\ handle'[g][x] = handle[g][x]
      BY <3>1, <2>1, <1>6
    <3>2. CASE g = f /\ x \in fresh /\ handle'[g][x] = new[x]
      <4>1. (refs'[f][x] = 1) \in BOOLEAN
        OBVIOUS
      <4> QED
        BY <3>2, <4>1, <1>1
    <3> QED
      BY <3>1, <3>2, <1>9, <2>2
  <2>3. ASSUME NEW n \in 0 .. MaxFd, fds'[n].of = "filter"
        PROVE  \E g \in AllFronts, x \in AllPids : refs'[g][x] > 0 /\ handle'[g][x] = n
    <3>1. CASE \E x \in fresh : new[x] = n
      BY <3>1, <1>1, <1>5
    <3>2. CASE \A x \in fresh : new[x] # n
      <4>1. fds[n].of = "filter"
        BY <3>2, <2>3, <1>1
      <4>2. PICK g \in AllFronts, x \in AllPids : refs[g][x] > 0 /\ handle[g][x] = n
        BY <4>1, <1>11 DEF Owned, HasFilter
      <4>3. x \notin fresh \/ g # f
        BY <4>2, <1>4
      <4>4. handle'[g][x] = n
        BY <4>2, <4>3, <1>1
      <4>5. refs'[g][x] > 0
        BY <4>2, <1>1, <1>5
      <4> QED
        BY <4>4, <4>5
    <3> QED
      BY <3>1, <3>2
  <2>4. ASSUME NEW g \in AllFronts, NEW e \in AllFronts, NEW x \in AllPids, NEW y \in AllPids,
               refs'[g][x] > 0, refs'[e][y] > 0, handle'[g][x] = handle'[e][y]
        PROVE  g = e /\ x = y
    <3>1. CASE refs[g][x] > 0 /\ handle'[g][x] = handle[g][x]
      <4>1. CASE refs[e][y] > 0 /\ handle'[e][y] = handle[e][y]
        <5>1. handle[g][x] = handle[e][y]
          BY <3>1, <4>1, <2>4
        <5> QED
          BY <3>1, <4>1, <5>1, <1>11 DEF Apart
      <4>2. CASE e = f /\ y \in fresh /\ handle'[e][y] = new[y]
        BY <3>1, <4>2, <2>4, <2>1, <1>1
      <4> QED
        BY <4>1, <4>2, <1>9, <2>4
    <3>2. CASE g = f /\ x \in fresh /\ handle'[g][x] = new[x]
      <4>1. CASE refs[e][y] > 0 /\ handle'[e][y] = handle[e][y]
        BY <3>2, <4>1, <2>4, <2>1, <1>1
      <4>2. CASE e = f /\ y \in fresh /\ handle'[e][y] = new[y]
        BY <3>2, <4>2, <2>4, <1>1
      <4> QED
        BY <4>1, <4>2, <1>9, <2>4
    <3> QED
      BY <3>1, <3>2, <1>9, <2>4
  <2> QED
    BY <2>2, <2>3, <2>4
<1>12. ASSUME HandlesInv PROVE HandlesInv'
  <2> SUFFICES ASSUME "descriptor" \notin mishaps' PROVE Alive' /\ Owned' /\ Apart'
    BY DEF HandlesInv
  <2>1. Alive /\ Owned /\ Apart
    BY <1>12 DEF HandlesInv
  <2> QED
    BY <2>1, <1>11 DEF Alive, Owned, Apart, HasFilter
<1> QED
  BY <1>7, <1>10, <1>12

\* So does giving them back
LEMMA DroppedKeepsHandles ==
  ASSUME DeviceShape, NEW f \in AllFronts, NEW q \in Seq(AllPids), NEW off, Dropped(f, q, off),
         AllPids' = AllPids, mishaps' = mishaps
  PROVE  /\ HandlesInv => HandlesInv'
         /\ HandlesInv /\ "descriptor" \notin mishaps =>
              \A n \in 0 .. MaxFd : fds[n].of = "file" => fds'[n] = fds[n]
         /\ \A g \in AllFronts, x \in AllPids : refs'[g][x] > 0 =>
              /\ refs[g][x] > 0 /\ handle'[g][x] = handle[g][x] /\ handle'[g][x] \in 0 .. MaxFd
              /\ Apart => \A y \in Gone(f, q) : handle[f][y] # handle[g][x]
<1> DEFINE gone == Gone(f, q)
           closes(n) == \E x \in gone : handle[f][x] = n
<1>1. /\ \A g \in AllFronts : g # f => refs'[g] = refs[g] /\ handle'[g] = handle[g]
      /\ \A x \in AllPids : Count(q, x) \in 0 .. refs[f][x] /\ refs'[f][x] = refs[f][x] - Count(q, x)
      /\ \A x \in gone : x \in AllPids
      /\ \A x \in AllPids : handle'[f][x] = IF x \in gone THEN -1 ELSE handle[f][x]
      /\ \A n \in off : fds[n].of = "filter"
      /\ \A n \in 0 .. MaxFd :
           fds'[n] = IF closes(n) THEN Unused ELSE IF n \in off THEN Off(fds[n]) ELSE fds[n]
  BY DEF Dropped
<1>2. \A g \in AllFronts : refs[g] \in [AllPids -> Nat]
  BY DEF DeviceShape
<1>3. \A x \in AllPids : Count(q, x) \in Nat /\ (x \in ToSet(q) <=> Count(q, x) > 0)
  BY CountOfAll
<1>4. \A x \in gone : x \in ToSet(q) /\ refs[f][x] - Count(q, x) = 0
  BY DEF Gone
<1>5. \A x \in gone : refs[f][x] > 0 /\ refs'[f][x] = 0
  BY <1>1, <1>2, <1>3, <1>4
<1>6. \A x \in AllPids : refs[f][x] > 0 /\ x \notin gone => refs'[f][x] > 0
  BY <1>1, <1>2, <1>3 DEF Gone
<1> HIDE DEF gone, closes
<1>7. \A g \in AllFronts, x \in AllPids : refs[g][x] > 0 => handle[g][x] \in 0 .. MaxFd
  BY DEF DeviceShape
<1>8. ASSUME NEW g \in AllFronts, NEW x \in AllPids, refs'[g][x] > 0
      PROVE  /\ refs[g][x] > 0 /\ handle'[g][x] = handle[g][x] /\ handle'[g][x] \in 0 .. MaxFd
             /\ Apart => ~closes(handle[g][x])
  <2>1. refs[g][x] > 0 /\ handle'[g][x] = handle[g][x] /\ (g = f => x \notin gone)
    <3>1. CASE g # f
      BY <3>1, <1>1, <1>8
    <3>2. CASE g = f
      BY <3>2, <1>1, <1>2, <1>5, <1>8
    <3> QED
      BY <3>1, <3>2
  <2>2. ASSUME Apart, NEW y \in gone, handle[f][y] = handle[g][x] PROVE FALSE
    <3>1. y \in AllPids /\ refs[f][y] > 0
      BY <2>2, <1>1, <1>5
    <3>2. f = g /\ y = x
      BY <3>1, <2>1, <2>2 DEF Apart
    <3> QED
      BY <3>2, <2>1, <2>2
  <2> QED
    BY <2>1, <2>2, <1>7 DEF closes
<1>9. ASSUME Alive, NEW n \in 0 .. MaxFd, closes(n) PROVE fds[n].of = "filter"
  BY <1>1, <1>5, <1>9, FdIs DEF closes, Alive
<1>10. ASSUME Alive, Owned, Apart
       PROVE  /\ \A g \in AllFronts, x \in AllPids : refs'[g][x] > 0 =>
                   \E on \in BOOLEAN : fds'[handle'[g][x]] = FilterFor(g[1], x, on)
              /\ \A n \in 0 .. MaxFd : fds'[n].of = "filter" =>
                   \E g \in AllFronts, x \in AllPids : refs'[g][x] > 0 /\ handle'[g][x] = n
              /\ \A g, e \in AllFronts, x, y \in AllPids :
                   refs'[g][x] > 0 /\ refs'[e][y] > 0 /\ handle'[g][x] = handle'[e][y] => g = e /\ x = y
  <2>1. ASSUME NEW g \in AllFronts, NEW x \in AllPids, refs'[g][x] > 0
        PROVE  \E on \in BOOLEAN : fds'[handle'[g][x]] = FilterFor(g[1], x, on)
    <3> DEFINE n == handle[g][x]
    <3>1. refs[g][x] > 0 /\ handle'[g][x] = n /\ n \in 0 .. MaxFd /\ ~closes(n)
      BY <1>8, <1>10, <2>1
    <3>2. PICK on \in BOOLEAN : fds[n] = FilterFor(g[1], x, on)
      BY <3>1, <1>10 DEF Alive
    <3>3. fds'[n] = IF n \in off THEN Off(fds[n]) ELSE fds[n]
      BY <3>1, <1>1
    <3>4. Off(fds[n]) = FilterFor(g[1], x, FALSE)
      <4>1. Off(FilterFor(g[1], x, on)) = FilterFor(g[1], x, FALSE)
        BY FilterOff
      <4> QED
        BY <3>2, <4>1
    <3> HIDE DEF n
    <3>5. fds'[n] \in {FilterFor(g[1], x, on), FilterFor(g[1], x, FALSE)}
      BY <3>2, <3>3, <3>4
    <3> QED
      BY <3>1, <3>5
  <2>2. ASSUME NEW n \in 0 .. MaxFd, fds'[n].of = "filter"
        PROVE  \E g \in AllFronts, x \in AllPids : refs'[g][x] > 0 /\ handle'[g][x] = n
    <3>1. ~closes(n) /\ fds[n].of = "filter"
      BY <2>2, <1>1, FdIs
    <3>2. PICK g \in AllFronts, x \in AllPids : refs[g][x] > 0 /\ handle[g][x] = n
      BY <3>1, <1>10 DEF Owned, HasFilter
    <3>3. g = f => x \notin gone
      BY <3>1, <3>2 DEF closes
    <3> QED
      BY <3>2, <3>3, <1>1, <1>6
  <2>3. ASSUME NEW g \in AllFronts, NEW e \in AllFronts, NEW x \in AllPids, NEW y \in AllPids,
               refs'[g][x] > 0, refs'[e][y] > 0, handle'[g][x] = handle'[e][y]
        PROVE  g = e /\ x = y
    BY <2>3, <1>8, <1>10 DEF Apart
  <2> QED
    BY <2>1, <2>2, <2>3
<1>11. ASSUME HandlesInv PROVE HandlesInv'
  <2> SUFFICES ASSUME "descriptor" \notin mishaps' PROVE Alive' /\ Owned' /\ Apart'
    BY DEF HandlesInv
  <2>1. Alive /\ Owned /\ Apart
    BY <1>11 DEF HandlesInv
  <2> QED
    BY <2>1, <1>10 DEF Alive, Owned, Apart, HasFilter
<1>12. ASSUME HandlesInv, "descriptor" \notin mishaps, NEW n \in 0 .. MaxFd, fds[n].of = "file"
       PROVE  fds'[n] = fds[n]
  <2>1. ~closes(n) /\ n \notin off
    BY <1>1, <1>9, <1>12 DEF HandlesInv
  <2> QED
    BY <2>1, <1>1
<1> QED
  BY <1>8, <1>11, <1>12 DEF closes, gone

\* FiltersExact is what the invariants of the filters say
LEMMA FiltersGiven == DeviceShape /\ FiltersInv => FiltersExact
<1> SUFFICES ASSUME DeviceShape, FiltersInv, Clean
             PROVE  /\ \A f \in AllFronts : \A p \in AllPids :
                         /\ refs[f][p] = Cardinality(Uses(f, p))
                         /\ refs[f][p] > 0 => \E on \in BOOLEAN :
                              fds[handle[f][p]] = FilterFor(f[1], p, on) /\ (NoDoubles => on)
                    /\ \A n \in 0 .. MaxFd : fds[n].of = "filter" =>
                         \E f \in AllFronts : \E p \in AllPids :
                           /\ HasFilter(f, p, n)
                           /\ \A g \in AllFronts : \A q \in AllPids :
                                HasFilter(g, q, n) => g = f /\ q = p
  BY FrontsKept DEF FiltersExact, Clean, DeviceShape
<1>1. Alive /\ Owned /\ Apart /\ \A f \in AllFronts : Counted(f)
  BY DEF FiltersInv, HandlesInv, CountsInv, Clean
<1>2. ASSUME NEW f \in AllFronts, NEW p \in AllPids
      PROVE  /\ refs[f][p] = Cardinality(Uses(f, p))
             /\ refs[f][p] > 0 => \E on \in BOOLEAN :
                  fds[handle[f][p]] = FilterFor(f[1], p, on) /\ (NoDoubles => on)
  <2>1. CASE NoDoubles
    <3>1. refs[f][p] > 0 => fds[handle[f][p]] = FilterFor(f[1], p, TRUE)
      BY <2>1 DEF FiltersInv, RunsInv, Running
    <3> QED
      BY <3>1, <1>1 DEF Counted
  <2>2. CASE ~NoDoubles
    BY <2>2, <1>1 DEF Counted, Alive
  <2> QED
    BY <2>1, <2>2
<1>3. ASSUME NEW n \in 0 .. MaxFd, fds[n].of = "filter"
      PROVE  \E f \in AllFronts : \E p \in AllPids :
               /\ HasFilter(f, p, n)
               /\ \A g \in AllFronts : \A q \in AllPids : HasFilter(g, q, n) => g = f /\ q = p
  BY <1>1, <1>3 DEF Owned, Apart, HasFilter
<1> QED
  BY <1>2, <1>3

\* An instance of a service without doubled pids
LEMMA SinglePids ==
  ASSUME DeviceShape, NoDoubles, NEW i \in Instances
  PROVE  \A x \in ToSet(Pids(i.at, i.number)) : Count(Pids(i.at, i.number), x) = 1
  BY InstancePids DEF NoDoubles, Single, Places

-------------------------------------------------------------------------------
(* Starting a stream keeps the filters exact *)
\* A start keeps the shape
LEMMA StartedShape ==
  ASSUME DeviceShape, NEW h \in Handles, opens < MaxOpens, NEW name, NEW none, NEW i \in Instances,
         Started(h, name, none, i)
  PROVE  /\ DeviceShape' /\ DOMAIN marks' = DOMAIN marks
         /\ streams'[h] = [state |-> "open", inst |-> i, from |-> Original(name)]
         /\ streams'[h] \in Opened
         /\ \A g \in Handles : g # h => streams'[g] = streams[g]
         /\ \A n \in 0 .. MaxFd : fds[n].of = "file" => fds'[n] = fds[n]
<1> DEFINE f == FrontOf(i.at)
           s == [state |-> "open", inst |-> i, from |-> Original(name)]
           q == Pids(i.at, i.number)
<1>1. i.at \in Places /\ f \in AllFronts /\ q \in Seq(AllPids)
  BY InstancePids
<1>2. /\ tuned' = [tuned EXCEPT ![f] = i.at]
      /\ locked' = IF tuned[f] = i.at THEN locked ELSE [locked EXCEPT ![f] = i.at]
      /\ served' = [served EXCEPT ![f] = @ \cup {i}]
      /\ marks' \in [Places -> SUBSET Instances]
      /\ \A p \in Places : \A j \in marks'[p] : j.at = p
      /\ streams' = [streams EXCEPT ![h] = s]
      /\ opens' = opens + 1 /\ mishaps' \subseteq Mishaps
      /\ device' = device /\ smap' = smap /\ deleted' = deleted
      /\ Original(name) \in Instances
  BY DEF Started
<1>3. /\ Selected(f, q, none) \in Seq(AllPids)
      /\ \E new : Took(f, Selected(f, q, none), new)
  BY <1>1, SelectedIs, SelectIs DEF Started
<1>4. DOMAIN marks' = DOMAIN marks
  BY <1>2 DEF Places
<1>5. /\ Places' = Places /\ AllPids' = AllPids /\ Instances' = Instances /\ Opened' = Opened
      /\ Readable(device)' /\ smap' = ServiceMap(device)' /\ Places' = ToSet(TransponderPlaces(device))'
  BY <1>2, <1>4, SameDevice DEF DeviceShape
<1>6. s \in Opened
  BY <1>2 DEF Opened
<1> HIDE DEF s, f, q
<1> DEFINE taken == Selected(f, q, none)
<1>3a. PICK new : Took(f, taken, new)
  BY <1>3
<1>3b. taken \in Seq(AllPids) /\ mishaps \subseteq mishaps'
  BY <1>3 DEF Started
<1> HIDE DEF taken
<1>3c. /\ \A n \in 0 .. MaxFd : fds[n].of = "file" => fds'[n] = fds[n]
       /\ \A g \in AllFronts, x \in AllPids : refs'[g][x] > 0 => handle'[g][x] \in 0 .. MaxFd
  BY <1>1, <1>3a, <1>3b, <1>5, TookKeepsHandles
<1>3d. /\ refs' \in [AllFronts -> [AllPids -> Nat]] /\ handle' \in [AllFronts -> [AllPids -> -1 .. MaxFd]]
       /\ fds' \in [0 .. MaxFd -> FdSet]
  BY <1>3a DEF Took
<1>3e. FdSet' = FdSet
  BY <1>2, <1>4, SameDevice
<1>7. /\ streams \in [Handles -> {Closed, Null} \cup Opened]
      /\ tuned \in [AllFronts -> Places \cup {Nowhere}] /\ locked \in [AllFronts -> Places \cup {Nowhere}]
      /\ served \in [AllFronts -> SUBSET Instances]
      /\ \A g \in AllFronts : \A j \in served[g] : FrontOf(j.at) = g
      /\ opens \in 0 .. MaxOpens /\ deleted \subseteq Places
  BY DEF DeviceShape
<1>8. /\ streams' \in [Handles -> {Closed, Null} \cup Opened] /\ streams'[h] = s
      /\ \A g \in Handles : g # h => streams'[g] = streams[g]
  BY <1>2, <1>6, <1>7
<1>9. tuned' \in [AllFronts -> Places \cup {Nowhere}] /\ locked' \in [AllFronts -> Places \cup {Nowhere}]
  BY <1>1, <1>2, <1>7
<1>11. served' \in [AllFronts -> SUBSET Instances]
  BY <1>1, <1>2, <1>7
<1>12. \A g \in AllFronts : \A j \in served'[g] : FrontOf(j.at) = g
  BY <1>1, <1>2, <1>7 DEF f
<1>13. opens' \in 0 .. MaxOpens
  BY <1>2, <1>7, DeviceAssumption
<1>14. DeviceShape'
  <2>1. /\ refs' \in [AllFronts -> [AllPids' -> Nat]] /\ handle' \in [AllFronts -> [AllPids' -> -1 .. MaxFd]]
        /\ fds' \in [0 .. MaxFd -> FdSet']
        /\ \A g \in AllFronts, x \in AllPids' : refs'[g][x] > 0 => handle'[g][x] \in 0 .. MaxFd
    BY <1>3c, <1>3d, <1>3e, <1>5
  <2> QED
    BY <2>1, <1>2, <1>5, <1>7, <1>8, <1>9, <1>11, <1>12, <1>13 DEF DeviceShape
<1> QED
  BY <1>3c, <1>4, <1>6, <1>8, <1>14 DEF s

\* The counts grow as the uses do
LEMMA StartedCounts ==
  ASSUME DeviceShape, CountsInv, NEW h \in Handles, streams[h] = Closed, opens < MaxOpens,
         NEW name, NEW none, NEW i \in Instances, Started(h, name, none, i)
  PROVE  CountsInv'
<1> DEFINE f == FrontOf(i.at)
           q == Pids(i.at, i.number)
<1>1. i.at \in Places /\ f \in AllFronts /\ q \in Seq(AllPids)
  BY InstancePids
<1>2. /\ DeviceShape' /\ DOMAIN marks' = DOMAIN marks
      /\ streams'[h] = [state |-> "open", inst |-> i, from |-> Original(name)]
      /\ streams'[h] \in Opened
      /\ \A g \in Handles : g # h => streams'[g] = streams[g]
  BY StartedShape
<1>3. /\ device' = device /\ smap' = smap /\ Select(f, q, none) /\ mishaps \subseteq mishaps'
      /\ Selected(f, q, none) # q => "unfiltered" \in mishaps'
  BY DEF Started
<1>4. AllPids' = AllPids
  BY <1>2, <1>3, SameDevice
<1>5. streams \in [Handles -> StreamSet] /\ streams' \in [Handles -> StreamSet]
  <2>1. Opened' = Opened
    BY <1>2, <1>3, SameDevice
  <2> QED
    BY <1>2, <2>1 DEF DeviceShape, StreamSet
<1>6. streams[h].state # "open" /\ streams'[h].state = "open" /\ streams'[h].inst = i
  BY <1>2 DEF Closed
<1>7. \A g \in AllFronts, x \in AllPids :
        Cardinality(UsesIn(streams', g, x)) =
          Cardinality(UsesIn(streams, g, x)) + (IF f = g THEN Count(q, x) ELSE 0)
  BY <1>2, <1>5, <1>6, UsesGrow
<1>8. \A g \in AllFronts, x \in AllPids :
        /\ Uses(g, x) = UsesIn(streams, g, x) /\ Uses(g, x)' = UsesIn(streams', g, x)
  BY <1>3, UsesAre
<1>9. \A g \in AllFronts, x \in AllPids : Cardinality(UsesIn(streams, g, x)) \in Nat
  BY <1>5, UsesFinite, FS_CardinalityType
<1>10. \A x \in AllPids : Count(q, x) \in Nat
  BY <1>1, CountOfAll
<1>11. ASSUME Clean', NEW g \in AllFronts, NEW x \in AllPids PROVE refs'[g][x] = Cardinality(Uses(g, x)')
  <2>1. Clean /\ Selected(f, q, none) = q
    BY <1>3, <1>11 DEF Clean
  <2>2. \E new : Took(f, q, new)
    BY <1>1, <1>3, <2>1, SelectIs
  <2> HIDE DEF f, q
  <2>3. /\ g # f => refs'[g] = refs[g]
        /\ g = f => refs'[g][x] = refs[g][x] + Count(q, x)
    BY <2>2 DEF Took
  <2>4. refs[g][x] = Cardinality(UsesIn(streams, g, x))
    BY <2>1, <1>8 DEF CountsInv, Counted
  <2>5. CASE g # f
    BY <2>3, <2>4, <2>5, <1>7, <1>8, <1>9
  <2>6. CASE g = f
    BY <2>3, <2>4, <2>6, <1>7, <1>8, <1>9, <1>10
  <2> QED
    BY <2>5, <2>6
<1> QED
  BY <1>4, <1>11 DEF CountsInv, Counted

\* What is counted is started, if no service lists a pid twice
LEMMA StartedRuns ==
  ASSUME DeviceShape, RunsInv, NEW h \in Handles, opens < MaxOpens,
         NEW name, NEW none, NEW i \in Instances, Started(h, name, none, i)
  PROVE  RunsInv'
<1> DEFINE f == FrontOf(i.at)
           q == Pids(i.at, i.number)
<1>1. i.at \in Places /\ f \in AllFronts /\ q \in Seq(AllPids)
  BY InstancePids
<1>2. /\ device' = device /\ smap' = smap /\ Select(f, q, none) /\ mishaps \subseteq mishaps'
      /\ Selected(f, q, none) # q => "unfiltered" \in mishaps'
  BY DEF Started
<1>3. AllPids' = AllPids /\ NoDoubles' = NoDoubles
  <2>1. DOMAIN marks' = DOMAIN marks
    BY StartedShape
  <2> QED
    BY <2>1, <1>2, SameDevice
<1>4. ASSUME Clean', NoDoubles, NEW g \in AllFronts, NEW x \in AllPids, refs'[g][x] > 0
      PROVE  fds'[handle'[g][x]] = FilterFor(g[1], x, TRUE)
  <2>1. Clean /\ Selected(f, q, none) = q
    BY <1>2, <1>4 DEF Clean
  <2>2. \E new : Took(f, q, new)
    BY <1>1, <1>2, <2>1, SelectIs
  <2>3. \A y \in ToSet(q) : Count(q, y) = 1
    BY <1>4, SinglePids
  <2>4. \A y \in AllPids : Count(q, y) \in Nat /\ (y \in ToSet(q) <=> Count(q, y) > 0)
    BY <1>1, CountOfAll
  <2>5. refs[g] \in [AllPids -> Nat] /\ (refs[g][x] > 0 => handle[g][x] \in 0 .. MaxFd)
    BY DEF DeviceShape
  <2>6. refs[g][x] > 0 => fds[handle[g][x]] = FilterFor(g[1], x, TRUE)
    BY <2>1, <1>4 DEF RunsInv, Running
  <2> HIDE DEF f, q
  <2>7. PICK new : Took(f, q, new)
    BY <2>2
  <2>8. /\ g # f => refs'[g] = refs[g] /\ handle'[g] = handle[g]
        /\ g = f => refs'[g][x] = refs[g][x] + Count(q, x)
        /\ g = f => handle'[g][x] = IF x \in Fresh(f, q) THEN new[x] ELSE handle[g][x]
        /\ \A y \in Fresh(f, q) : new[y] \in 0 .. MaxFd /\ fds[new[y]] = Unused
        /\ \A n \in 0 .. MaxFd : (\A y \in Fresh(f, q) : new[y] # n) => fds'[n] = fds[n]
        /\ \A y \in Fresh(f, q) : fds'[new[y]] = FilterFor(f[1], y, refs'[f][y] = 1)
    BY <2>7 DEF Took
  <2>9. CASE g = f /\ x \in Fresh(f, q)
    <3>1. x \in ToSet(q) /\ refs[g][x] = 0
      BY <2>9 DEF Fresh
    <3>2. refs'[g][x] = 1
      BY <3>1, <2>3, <2>8, <2>9
    <3>3. (refs'[f][x] = 1) = TRUE
      BY <3>2, <2>9
    <3>4. fds'[new[x]] = FilterFor(f[1], x, TRUE)
      BY <3>3, <2>8, <2>9
    <3> QED
      BY <3>4, <2>8, <2>9
  <2>10. CASE ~(g = f /\ x \in Fresh(f, q))
    <3>1. refs[g][x] > 0
      <4>1. CASE g # f
        BY <4>1, <1>4, <2>8
      <4>2. CASE g = f
        BY <4>2, <1>4, <2>4, <2>5, <2>8, <2>10 DEF Fresh
      <4> QED
        BY <4>1, <4>2
    <3>2. handle'[g][x] = handle[g][x] /\ handle[g][x] \in 0 .. MaxFd
      BY <3>1, <2>5, <2>8, <2>10
    <3>3. fds[handle[g][x]] = FilterFor(g[1], x, TRUE) /\ fds[handle[g][x]] # Unused
      BY <3>1, <2>6, FdIs
    <3>4. fds'[handle[g][x]] = fds[handle[g][x]]
      BY <3>2, <3>3, <2>8
    <3> QED
      BY <3>2, <3>3, <3>4
  <2> QED
    BY <2>9, <2>10
<1> QED
  BY <1>3, <1>4 DEF RunsInv, Running

\* A start keeps the filters exact
LEMMA StartedExact ==
  ASSUME DeviceShape, FiltersInv, NEW h \in Handles, streams[h] = Closed, opens < MaxOpens,
         NEW name, NEW none, NEW i \in Instances, Started(h, name, none, i)
  PROVE  FiltersInv'
<1> DEFINE f == FrontOf(i.at)
           q == Pids(i.at, i.number)
           taken == Selected(f, q, none)
<1>1. f \in AllFronts /\ q \in Seq(AllPids)
  BY InstancePids
<1>2. device' = device /\ smap' = smap /\ Select(f, q, none) /\ mishaps \subseteq mishaps'
  BY DEF Started
<1>3. AllPids' = AllPids
  <2>1. DOMAIN marks' = DOMAIN marks
    BY StartedShape
  <2> QED
    BY <2>1, <1>2, SameDevice
<1>4. taken \in Seq(AllPids) /\ \E new : Took(f, taken, new)
  BY <1>1, <1>2, SelectedIs, SelectIs
<1> HIDE DEF f, q, taken
<1>5. PICK new : Took(f, taken, new)
  BY <1>4
<1>6. HandlesInv'
  BY <1>1, <1>2, <1>3, <1>4, <1>5, TookKeepsHandles DEF FiltersInv
<1> QED
  BY <1>6, StartedCounts, StartedRuns DEF FiltersInv

-------------------------------------------------------------------------------
(* Closing a stream keeps the filters exact *)
\* A stream that was open is closed
Freed(h) ==
  LET i == streams[h].from
      f == FrontOf(i.at)
  IN /\ streams' = [streams EXCEPT ![h] = Closed]
     /\ Unselect(f, Pids(i.at, i.number))
     /\ served' = [served EXCEPT ![f] = @ \ {i}]
     /\ marks' = [marks EXCEPT ![i.at] = @ \ {i}]
     /\ UNCHANGED <<device, smap, feeder, tuned, locked, deleted, opens, mishaps>>

\* A close keeps the shape
LEMMA FreedShape ==
  ASSUME DeviceShape, NEW h \in Handles, IsOpen(h), Freed(h)
  PROVE  /\ DeviceShape' /\ DOMAIN marks' = DOMAIN marks
         /\ streams'[h] = Closed /\ \A g \in Handles : g # h => streams'[g] = streams[g]
         /\ HandlesInv => HandlesInv'
         /\ HandlesInv /\ "descriptor" \notin mishaps =>
              \A n \in 0 .. MaxFd : fds[n].of = "file" => fds'[n] = fds[n]
<1> DEFINE i == streams[h].from
           f == FrontOf(i.at)
           q == Pids(i.at, i.number)
<1>0. streams[h] \in StreamSet
  BY DEF DeviceShape, StreamSet
<1>1. i \in Instances
  BY <1>0, StreamIs DEF IsOpen
<1>2. i.at \in Places /\ f \in AllFronts /\ q \in Seq(AllPids)
  BY <1>1, InstancePids
<1>3. /\ streams' = [streams EXCEPT ![h] = Closed] /\ Unselect(f, q)
      /\ served' = [served EXCEPT ![f] = @ \ {i}]
      /\ marks' = [marks EXCEPT ![i.at] = @ \ {i}]
      /\ UNCHANGED <<device, smap, tuned, locked, deleted, opens, mishaps>>
  BY DEF Freed
<1> DEFINE taken == Unselected(f, q)
           off == Stopped(f, q)
<1>4a. Dropped(f, taken, off) /\ taken \in Seq(AllPids)
  BY <1>2, <1>3, UnselectIs
<1> HIDE DEF i, f, q, taken, off
<1>5. DOMAIN marks' = DOMAIN marks
  BY <1>3
<1>4. /\ refs' \in [AllFronts -> [AllPids -> Nat]] /\ handle' \in [AllFronts -> [AllPids -> -1 .. MaxFd]]
      /\ fds' \in [0 .. MaxFd -> FdSet] /\ FdSet' = FdSet
  BY <1>3, <1>4a, <1>5, SameDevice DEF Dropped
<1>6. /\ Places' = Places /\ AllPids' = AllPids /\ Instances' = Instances /\ Opened' = Opened
      /\ Readable(device)' /\ smap' = ServiceMap(device)' /\ Places' = ToSet(TransponderPlaces(device))'
  BY <1>3, <1>5, SameDevice DEF DeviceShape
<1>6a. /\ HandlesInv => HandlesInv'
       /\ HandlesInv /\ "descriptor" \notin mishaps =>
            \A n \in 0 .. MaxFd : fds[n].of = "file" => fds'[n] = fds[n]
       /\ \A g \in AllFronts, x \in AllPids : refs'[g][x] > 0 => handle'[g][x] \in 0 .. MaxFd
  BY <1>2, <1>3, <1>4a, <1>6, DroppedKeepsHandles
<1>7. /\ streams \in [Handles -> {Closed, Null} \cup Opened]
      /\ served \in [AllFronts -> SUBSET Instances]
      /\ \A g \in AllFronts : \A j \in served[g] : FrontOf(j.at) = g
      /\ marks \in [Places -> SUBSET Instances]
      /\ \A p \in Places : \A j \in marks[p] : j.at = p
  BY DEF DeviceShape
<1>8. /\ streams' \in [Handles -> {Closed, Null} \cup Opened] /\ streams'[h] = Closed
      /\ \A g \in Handles : g # h => streams'[g] = streams[g]
  BY <1>3, <1>7
<1>9. /\ served' \in [AllFronts -> SUBSET Instances]
      /\ \A g \in AllFronts : served'[g] \subseteq served[g]
  BY <1>2, <1>3, <1>7
<1>10. /\ marks' \in [Places -> SUBSET Instances]
       /\ \A p \in Places : marks'[p] \subseteq marks[p]
  BY <1>2, <1>3, <1>7
<1>11. DeviceShape'
  <2>1. /\ refs' \in [AllFronts -> [AllPids' -> Nat]] /\ handle' \in [AllFronts -> [AllPids' -> -1 .. MaxFd]]
        /\ fds' \in [0 .. MaxFd -> FdSet']
        /\ \A g \in AllFronts, x \in AllPids' : refs'[g][x] > 0 => handle'[g][x] \in 0 .. MaxFd
    BY <1>4, <1>6, <1>6a
  <2> QED
    BY <2>1, <1>3, <1>6, <1>7, <1>8, <1>9, <1>10 DEF DeviceShape
<1> QED
  BY <1>5, <1>6a, <1>8, <1>11

\* Without a stream from elsewhere, what is stopped has the pids of what was started
LEMMA FreedOwn ==
  ASSUME DeviceShape, NamesInv, HomeInv, "strayed" \notin mishaps, NEW h \in Handles, IsOpen(h)
  PROVE  /\ streams[h].from.at = streams[h].inst.at
         /\ streams[h].from.number = streams[h].inst.number
         /\ streams[h].from.clone = 0
<1> DEFINE i == streams[h].inst
           n == NameOf(i)
<1>1. /\ n \in DOMAIN smap /\ i.at \in ToSet(smap[n])
      /\ i.number = getService(i.at, n) /\ streams[h].from = Original(n)
  BY DEF NamesInv
<1>2. i.at = streams[h].from.at
  BY DEF HomeInv
<1>3. Candidates(n) = smap[n]
  BY <1>1 DEF Candidates
<1> HIDE DEF n
<1>4. Candidates(n) # <<>>
  BY <1>1, <1>3 DEF ToSet
<1>5. /\ Original(n).at = Candidates(n)[1] /\ Original(n).clone = 0
      /\ Original(n).number = getService(Candidates(n)[1], n)
  BY <1>4, OriginalIs
<1> QED
  BY <1>1, <1>2, <1>5

\* A close keeps the filters exact: the counts shrink as the uses do, and what is
\* stopped and closed is not what somebody else has
LEMMA FreedExact ==
  ASSUME DeviceShape, NamesInv, HomeInv, FiltersInv, NEW h \in Handles, IsOpen(h), Freed(h)
  PROVE  FiltersInv'
<1> DEFINE i == streams[h].inst
           f == FrontOf(i.at)
           q == Pids(i.at, i.number)
<1>1. /\ DeviceShape' /\ DOMAIN marks' = DOMAIN marks /\ HandlesInv'
      /\ streams'[h] = Closed /\ \A g \in Handles : g # h => streams'[g] = streams[g]
  BY FreedShape DEF FiltersInv
<1>2. device' = device /\ smap' = smap /\ mishaps' = mishaps
  BY DEF Freed
<1>3. AllPids' = AllPids /\ NoDoubles' = NoDoubles
  BY <1>1, <1>2, SameDevice
<1>4. streams \in [Handles -> StreamSet] /\ streams' \in [Handles -> StreamSet]
  <2>1. Opened' = Opened
    BY <1>1, <1>2, SameDevice
  <2> QED
    BY <1>1, <2>1 DEF DeviceShape, StreamSet
<1>5. i \in Instances
  BY <1>4, StreamIs DEF IsOpen
<1>6. i.at \in Places /\ f \in AllFronts /\ q \in Seq(AllPids)
  BY <1>5, InstancePids
<1>7. streams'[h].state # "open" /\ streams[h].state = "open"
  BY <1>1 DEF Closed, IsOpen
<1>8. \A g \in AllFronts, x \in AllPids :
        Cardinality(UsesIn(streams, g, x)) =
          Cardinality(UsesIn(streams', g, x)) + (IF f = g THEN Count(q, x) ELSE 0)
  <2>1. \A g \in Handles : g # h => streams[g] = streams'[g]
    BY <1>1
  <2> QED
    BY <2>1, <1>4, <1>7, UsesGrow
<1>9. \A g \in AllFronts, x \in AllPids :
        /\ Uses(g, x) = UsesIn(streams, g, x) /\ Uses(g, x)' = UsesIn(streams', g, x)
  BY <1>2, UsesAre
<1>10. \A g \in AllFronts, x \in AllPids :
         /\ Cardinality(UsesIn(streams, g, x)) \in Nat /\ Cardinality(UsesIn(streams', g, x)) \in Nat
  BY <1>4, UsesFinite, FS_CardinalityType
<1>11. \A x \in AllPids : Count(q, x) \in Nat /\ (x \in ToSet(q) <=> Count(q, x) > 0)
  BY <1>6, CountOfAll
<1>12. ASSUME Clean
       PROVE  Dropped(f, q, Stopped(f, q)) /\ Alive /\ Apart /\ \A g \in AllFronts : Counted(g)
  <2>1. streams[h].from.at = i.at /\ streams[h].from.number = i.number
    BY <1>12, FreedOwn DEF Clean
  <2>2. Unselect(f, q)
    BY <2>1 DEF Freed
  <2>3. Alive /\ Apart /\ \A g \in AllFronts : Counted(g)
    BY <1>12 DEF FiltersInv, HandlesInv, CountsInv, Clean
  <2> HIDE DEF f, q
  <2>4. \A x \in AllPids : Count(q, x) <= refs[f][x]
    <3> TAKE x \in AllPids
    <3>1. refs[f][x] = Cardinality(UsesIn(streams, f, x))
      BY <2>3, <1>6, <1>9 DEF Counted
    <3>2. Cardinality(UsesIn(streams, f, x)) = Cardinality(UsesIn(streams', f, x)) + Count(q, x)
      BY <1>6, <1>8
    <3> QED
      BY <3>1, <3>2, <1>6, <1>10, <1>11
  <2>5. Unselected(f, q) = q /\ Dropped(f, Unselected(f, q), Stopped(f, q))
    BY <1>6, <2>2, <2>3, <2>4, UnselectIs
  <2> QED
    BY <2>3, <2>5
<1>13. CountsInv'
  <2>1. ASSUME Clean, NEW g \in AllFronts, NEW x \in AllPids PROVE refs'[g][x] = Cardinality(Uses(g, x)')
    <3>1. Dropped(f, q, Stopped(f, q)) /\ refs[g][x] = Cardinality(UsesIn(streams, g, x))
      BY <2>1, <1>9, <1>12 DEF Counted
    <3> HIDE DEF f, q
    <3>2. /\ g # f => refs'[g] = refs[g]
          /\ g = f => refs'[g][x] = refs[g][x] - Count(q, x)
      BY <3>1 DEF Dropped
    <3>3. CASE g # f
      BY <3>1, <3>2, <3>3, <1>8, <1>9, <1>10
    <3>4. CASE g = f
      BY <3>1, <3>2, <3>4, <1>8, <1>9, <1>10, <1>11
    <3> QED
      BY <3>3, <3>4
  <2> QED
    BY <2>1, <1>2, <1>3 DEF CountsInv, Counted, Clean
<1>14. RunsInv'
  <2>1. ASSUME Clean, NoDoubles, NEW g \in AllFronts, NEW x \in AllPids, refs'[g][x] > 0
        PROVE  fds'[handle'[g][x]] = FilterFor(g[1], x, TRUE)
    <3> DEFINE n == handle[g][x]
               off == Stopped(f, q)
    <3>1. Dropped(f, q, off) /\ Alive /\ Apart
      BY <2>1, <1>12
    <3>2. \A y \in off : \E z \in AllPids : z \in ToSet(q) /\ refs[f][z] = 1 /\ handle[f][z] = y
      BY <1>6, StoppedIs
    <3> HIDE DEF f, q, off
    <3>3. /\ refs[g][x] > 0 /\ handle'[g][x] = n /\ n \in 0 .. MaxFd
          /\ \A y \in Gone(f, q) : handle[f][y] # n
      BY <2>1, <3>1, <1>2, <1>3, <1>6, DroppedKeepsHandles
    <3>4. fds[n] = FilterFor(g[1], x, TRUE)
      BY <2>1, <3>3 DEF FiltersInv, RunsInv, Running
    <3>5. ASSUME n \in off PROVE FALSE
      <4>1. PICK z \in AllPids : z \in ToSet(q) /\ refs[f][z] = 1 /\ handle[f][z] = n
        BY <3>2, <3>5
      <4>2. f = g /\ z = x
        BY <4>1, <3>1, <3>3, <1>6 DEF Apart
      <4>3. refs'[g][x] = refs[f][z] - Count(q, z) /\ Count(q, z) \in Nat /\ Count(q, z) > 0
        BY <4>1, <4>2, <3>1, <1>11 DEF Dropped
      <4> QED
        BY <4>1, <4>3, <2>1
    <3> HIDE DEF n
    <3>6. fds'[n] = fds[n]
      BY <3>1, <3>3, <3>5 DEF Dropped
    <3> QED
      BY <3>3, <3>4, <3>6
  <2> QED
    BY <2>1, <1>2, <1>3 DEF RunsInv, Running, Clean
<1> QED
  BY <1>1, <1>13, <1>14 DEF FiltersInv

-------------------------------------------------------------------------------
(* Steps that touch no open stream *)
\* As long as nobody closes the descriptor of somebody else, no filter is touched
FdsStill ==
  /\ fds' \in [0 .. MaxFd -> FdSet]
  /\ "descriptor" \notin mishaps' =>
       \A n \in 0 .. MaxFd : fds'[n] = fds[n] \/ (fds[n].of # "filter" /\ fds'[n].of # "filter")

\* No stream that is open is touched, and none is opened, and no filter
Quiet ==
  /\ streams' \in [Handles -> {Closed, Null} \cup Opened]
  /\ \A h \in Handles : IsOpen(h) \/ streams'[h].state = "open" => streams'[h] = streams[h]
  /\ UNCHANGED <<device, smap, feeder, tuned, refs, handle, served>>
  /\ FdsStill
  /\ locked' \in [AllFronts -> Places \cup {Nowhere}]
  /\ "lost" \notin mishaps' => locked' = locked
  /\ marks' \in [Places -> SUBSET Instances]
  /\ \A p \in Places : \A j \in marks'[p] : j.at = p
  /\ deleted' \subseteq Places
  /\ deleted' = deleted \/ "refused" \in mishaps'
  /\ opens' \in 0 .. MaxOpens
  /\ mishaps \subseteq mishaps' /\ mishaps' \subseteq Mishaps

\* They keep the shape
LEMMA QuietShape ==
  ASSUME DeviceShape, Quiet
  PROVE  DeviceShape' /\ DOMAIN marks' = DOMAIN marks
<1>1. DOMAIN marks' = DOMAIN marks
  BY DEF Quiet, Places
<1>2. /\ Places' = Places /\ AllPids' = AllPids /\ Instances' = Instances /\ Opened' = Opened
      /\ Readable(device)' /\ smap' = ServiceMap(device)' /\ Places' = ToSet(TransponderPlaces(device))'
      /\ FdSet' = FdSet
  BY <1>1, SameDevice DEF DeviceShape, Quiet
<1>3. DeviceShape'
  BY <1>2 DEF DeviceShape, Quiet, FdsStill
<1> QED
  BY <1>1, <1>3

\* They keep the filters exact
LEMMA QuietExact ==
  ASSUME DeviceShape, FiltersInv, Quiet
  PROVE  FiltersInv'
<1>1. DeviceShape' /\ DOMAIN marks' = DOMAIN marks /\ device' = device /\ smap' = smap
  BY QuietShape DEF Quiet
<1>2. AllPids' = AllPids /\ NoDoubles' = NoDoubles
  BY <1>1, SameDevice
<1>3. \A f, x : UsesIn(streams', f, x) = UsesIn(streams, f, x)
  <2> SUFFICES ASSUME NEW f, NEW x PROVE UsesIn(streams', f, x) = UsesIn(streams, f, x)
    OBVIOUS
  <2> DEFINE On(st) == {g \in Handles : st[g].state = "open" /\ FrontOf(st[g].inst.at) = f}
  <2>1. \A h \in Handles : streams[h].state = "open" \/ streams'[h].state = "open" => streams'[h] = streams[h]
    BY DEF Quiet, IsOpen
  <2>2. On(streams') = On(streams) /\ \A h \in On(streams) : streams'[h] = streams[h]
    BY <2>1
  <2>3. {Mine(h, streams'[h].inst, x) : h \in On(streams')} = {Mine(h, streams[h].inst, x) : h \in On(streams)}
    BY <2>2
  <2> QED
    BY <2>3 DEF UsesIn
<1>4. \A f, x : Uses(f, x) = UsesIn(streams, f, x) /\ Uses(f, x)' = UsesIn(streams', f, x)
  BY <1>1, UsesAre
<1>5. \A f \in AllFronts, x \in AllPids : Uses(f, x)' = Uses(f, x)
  BY <1>3, <1>4
<1>6. Clean' => Clean
  BY DEF Clean, Quiet
<1>7. CountsInv'
  BY <1>2, <1>5, <1>6 DEF FiltersInv, CountsInv, Counted, Quiet
<1>8. /\ refs' = refs /\ handle' = handle
      /\ \A f \in AllFronts, x \in AllPids : refs[f][x] > 0 => handle[f][x] \in 0 .. MaxFd
  BY DEF Quiet, DeviceShape
<1>9. ASSUME "descriptor" \notin mishaps'
      PROVE  /\ Alive /\ Owned /\ Apart
             /\ \A n \in 0 .. MaxFd : fds'[n] = fds[n] \/ (fds[n].of # "filter" /\ fds'[n].of # "filter")
  BY <1>9 DEF Quiet, FdsStill, FiltersInv, HandlesInv
<1>10. ASSUME "descriptor" \notin mishaps', NEW f \in AllFronts, NEW x \in AllPids, refs[f][x] > 0
       PROVE  fds'[handle[f][x]] = fds[handle[f][x]] /\ \E on \in BOOLEAN : fds[handle[f][x]] = FilterFor(f[1], x, on)
  <2>1. handle[f][x] \in 0 .. MaxFd /\ \E on \in BOOLEAN : fds[handle[f][x]] = FilterFor(f[1], x, on)
    BY <1>8, <1>9, <1>10 DEF Alive
  <2>2. fds[handle[f][x]].of = "filter"
    BY <2>1, FdIs
  <2> QED
    BY <2>1, <2>2, <1>9, <1>10
<1>11. HandlesInv'
  <2> SUFFICES ASSUME "descriptor" \notin mishaps' PROVE Alive' /\ Owned' /\ Apart'
    BY DEF HandlesInv
  <2>1. Alive'
    BY <1>2, <1>8, <1>10 DEF Alive
  <2>2. Owned'
    <3> SUFFICES ASSUME NEW n \in 0 .. MaxFd, fds'[n].of = "filter"
                 PROVE  \E f \in AllFronts, x \in AllPids : HasFilter(f, x, n)
      BY <1>2, <1>8 DEF Owned, HasFilter
    <3>1. fds[n].of = "filter"
      BY <1>9
    <3> QED
      BY <3>1, <1>9 DEF Owned
  <2>3. Apart'
    BY <1>2, <1>8, <1>9 DEF Apart
  <2> QED
    BY <2>1, <2>2, <2>3
<1>12. RunsInv'
  <2> SUFFICES ASSUME Clean', NoDoubles, NEW f \in AllFronts, NEW x \in AllPids, refs[f][x] > 0
               PROVE  fds'[handle[f][x]] = FilterFor(f[1], x, TRUE)
    BY <1>2, <1>8 DEF RunsInv, Running
  <2>1. "descriptor" \notin mishaps'
    BY DEF Clean
  <2>2. fds[handle[f][x]] = FilterFor(f[1], x, TRUE)
    BY <1>6 DEF FiltersInv, RunsInv, Running
  <2> QED
    BY <2>1, <2>2, <1>10
<1> QED
  BY <1>7, <1>11, <1>12 DEF FiltersInv

\* They keep DeviceInv
LEMMA QuietKeepsDevice ==
  ASSUME DeviceInv, Quiet
  PROVE  DeviceInv'
<1>1. DeviceShape' /\ DOMAIN marks' = DOMAIN marks /\ device' = device /\ smap' = smap
  BY QuietShape DEF Quiet, DeviceInv
<1>2. /\ \A i : NameOf(i)' = NameOf(i)
      /\ \A p, n : getService(p, n)' = getService(p, n)
      /\ \A n : Original(n)' = Original(n)
  BY <1>1, SameDevice
<1>3. /\ tuned' = tuned /\ served' = served /\ feeder' = feeder /\ mishaps \subseteq mishaps'
      /\ "lost" \notin mishaps' => locked' = locked
      /\ deleted' = deleted \/ "refused" \in mishaps'
      /\ \A h \in Handles : streams[h].state = "open" \/ streams'[h].state = "open" => streams'[h] = streams[h]
  BY DEF Quiet, IsOpen
<1>4. /\ DeviceShape /\ NamesInv /\ HomeInv /\ TunedInv /\ LockInv /\ OriginalInv /\ SoleInv
      /\ DeletedInv /\ HearsInv /\ FiltersInv
  BY DEF DeviceInv
<1>5. NamesInv'
  BY <1>1, <1>2, <1>3, <1>4 DEF NamesInv, IsOpen
<1>6. HomeInv'
  BY <1>3, <1>4 DEF HomeInv, IsOpen
<1>7. TunedInv'
  BY <1>3, <1>4 DEF TunedInv, IsOpen
<1>8. LockInv'
  BY <1>3, <1>4 DEF LockInv
<1>9. OriginalInv'
  BY <1>2, <1>3, <1>4 DEF OriginalInv, IsOpen
<1>10. SoleInv'
  BY <1>3, <1>4 DEF SoleInv, IsOpen
<1>11. DeletedInv'
  BY <1>3, <1>4 DEF DeletedInv
<1>12. FiltersInv'
  BY <1>4, QuietExact
<1>13. HearsInv'
  <2>1. \A f : Hears(f)' = Hears(f)
    BY <1>1, <1>3 DEF Hears, Reads
  <2> QED
    BY <2>1, <1>3, <1>4 DEF HearsInv, IsOpen
<1> QED
  BY <1>1, <1>5, <1>6, <1>7, <1>8, <1>9, <1>10, <1>11, <1>12, <1>13 DEF DeviceInv

-------------------------------------------------------------------------------
(* Starting and closing keep the whole invariant of the device *)
\* A start keeps DeviceInv
LEMMA StartedKeepsDevice ==
  ASSUME DeviceInv, NEW h \in Handles, streams[h] = Closed, opens < MaxOpens, NEW name, NEW none,
         NEW i \in Instances, Started(h, name, none, i)
  PROVE  DeviceInv'
<1> DEFINE f == FrontOf(i.at)
<1>1. /\ DeviceShape /\ NamesInv /\ HomeInv /\ TunedInv /\ LockInv /\ OriginalInv /\ SoleInv
      /\ DeletedInv /\ HearsInv /\ FiltersInv
  BY DEF DeviceInv
<1>2. /\ DeviceShape' /\ DOMAIN marks' = DOMAIN marks /\ device' = device /\ smap' = smap
      /\ streams'[h] = [state |-> "open", inst |-> i, from |-> Original(name)]
      /\ \A g \in Handles : g # h => streams'[g] = streams[g]
  <2>1. device' = device /\ smap' = smap
    BY DEF Started
  <2>2. /\ DeviceShape' /\ DOMAIN marks' = DOMAIN marks
        /\ streams'[h] = [state |-> "open", inst |-> i, from |-> Original(name)]
        /\ \A g \in Handles : g # h => streams'[g] = streams[g]
    BY <1>1, StartedShape
  <2> QED
    BY <2>1, <2>2
<1>3. /\ \A j : NameOf(j)' = NameOf(j)
      /\ \A p, n : getService(p, n)' = getService(p, n)
      /\ \A n : Original(n)' = Original(n)
  BY <1>2, SameDevice
<1>4. /\ streams'[h].state = "open" /\ streams'[h].inst = i /\ streams'[h].from = Original(name)
      /\ streams[h].state # "open"
  BY <1>2 DEF Closed
<1>5. /\ i.at \in ToSet(Candidates(name)) /\ i.number = getService(i.at, name)
      /\ NameOf(i) = name /\ f \in AllFronts /\ i \notin served[f] /\ Candidates(name) # <<>>
      /\ \/ tuned[f] = i.at \/ tuned[f] = Nowhere
         \/ Interrupted(f) = {} \/ "interrupted" \in mishaps'
      /\ tuned' = [tuned EXCEPT ![f] = i.at]
      /\ locked' = IF tuned[f] = i.at THEN locked ELSE [locked EXCEPT ![f] = i.at]
      /\ served' = [served EXCEPT ![f] = @ \cup {i}]
      /\ mishaps \subseteq mishaps'
      /\ i.clone # 0 => "cloned" \in mishaps'
      /\ i.at # Candidates(name)[1] => "strayed" \in mishaps'
      /\ ~Hears(f) => "deaf" \in mishaps'
      /\ deleted' = deleted /\ feeder' = feeder
  BY DEF Started
<1>6. /\ tuned \in [AllFronts -> Places \cup {Nowhere}] /\ locked \in [AllFronts -> Places \cup {Nowhere}]
      /\ served \in [AllFronts -> SUBSET Instances]
      /\ \A g \in AllFronts : \A j \in served[g] : FrontOf(j.at) = g
  BY <1>1 DEF DeviceShape
<1>7. name \in DOMAIN smap /\ Candidates(name) = smap[name] /\ Original(name).at = Candidates(name)[1]
  BY <1>1, <1>5, CandidatesAre, OriginalIs
<1>8. NamesInv'
  BY <1>1, <1>2, <1>3, <1>4, <1>5, <1>7 DEF NamesInv, IsOpen
<1>9. HomeInv'
  BY <1>1, <1>2, <1>4, <1>5, <1>7 DEF HomeInv, IsOpen
<1>10. ASSUME "interrupted" \notin mishaps', NEW g \in Handles, streams'[g].state = "open"
       PROVE  tuned'[FrontOf(streams'[g].inst.at)] = streams'[g].inst.at
  <2>1. CASE g = h
    BY <2>1, <1>4, <1>5, <1>6
  <2>2. CASE g # h
    <3> DEFINE at == streams[g].inst.at
    <3>1. streams[g].state = "open" /\ streams'[g] = streams[g] /\ tuned[FrontOf(at)] = at
      BY <1>1, <1>2, <1>5, <1>10, <2>2 DEF TunedInv, IsOpen
    <3>2. at \in Places
      BY <3>1, <1>1, StreamIs, InstancePids DEF DeviceShape, StreamSet
    <3>3. at # Nowhere /\ FrontOf(at) \in AllFronts
      BY <3>2, <1>1, PlacesAre
    <3> HIDE DEF f
    <3>4. ASSUME FrontOf(at) = f PROVE i.at = at
      <4>1. g \in Interrupted(f)
        BY <3>1, <3>4 DEF Interrupted
      <4> QED
        BY <4>1, <3>1, <3>3, <3>4, <1>5, <1>10
    <3> HIDE DEF at
    <3>5. tuned'[FrontOf(at)] = at
      BY <3>1, <3>3, <3>4, <1>5, <1>6
    <3> QED
      BY <3>1, <3>5 DEF at
  <2> QED
    BY <2>1, <2>2
<1>11. TunedInv'
  BY <1>10 DEF TunedInv, IsOpen
<1> HIDE DEF f
<1>12. LockInv'
  <2> SUFFICES ASSUME "lost" \notin mishaps' PROVE locked' = tuned'
    BY DEF LockInv
  <2>1. locked = tuned
    BY <1>1, <1>5 DEF LockInv
  <2> QED
    BY <2>1, <1>5, <1>6
<1>13. OriginalInv'
  <2> SUFFICES ASSUME NEW e \in AllFronts, NEW j \in served'[e], j = Original(NameOf(j))
               PROVE  \E g \in Handles : streams'[g].state = "open" /\ streams'[g].inst = j
    BY <1>3 DEF OriginalInv, IsOpen
  <2>1. CASE j = i
    BY <2>1, <1>4
  <2>2. CASE j # i
    <3>1. j \in served[e]
      BY <2>2, <1>5, <1>6
    <3>2. PICK g \in Handles : streams[g].state = "open" /\ streams[g].inst = j
      BY <3>1, <1>1 DEF OriginalInv, IsOpen
    <3> QED
      BY <3>2, <1>2, <1>4
  <2> QED
    BY <2>1, <2>2
<1>14. SoleInv'
  <2> SUFFICES ASSUME mishaps' \cap {"cloned", "strayed"} = {}, NEW g \in Handles, streams'[g].state = "open"
               PROVE  /\ streams'[g].inst \in served'[FrontOf(streams'[g].inst.at)]
                      /\ streams'[g].inst.clone = 0
                      /\ \A e \in Handles : streams'[e].state = "open" /\ streams'[e].inst = streams'[g].inst => e = g
    BY DEF SoleInv, IsOpen
  <2>1. mishaps \cap {"cloned", "strayed"} = {}
    BY <1>5
  <2>2. \A e \in Handles : streams[e].state = "open" =>
          /\ streams[e].inst \in served[FrontOf(streams[e].inst.at)] /\ streams[e].inst.clone = 0
          /\ \A d \in Handles : streams[d].state = "open" /\ streams[d].inst = streams[e].inst => d = e
    BY <2>1, <1>1 DEF SoleInv, IsOpen
  <2>3. \A e \in AllFronts : served[e] \subseteq served'[e]
    BY <1>5, <1>6
  <2>4. i \in served'[f]
    BY <1>5, <1>6
  <2>5. \A e \in Handles : streams[e].state = "open" => streams[e].inst # i
    BY <2>2, <1>5 DEF f
  <2>6. \A e \in Handles : streams[e].state = "open" => FrontOf(streams[e].inst.at) \in AllFronts
    BY <1>1, StreamIs, InstancePids DEF DeviceShape, StreamSet
  <2>7. CASE g = h
    BY <2>4, <2>5, <2>7, <1>2, <1>4, <1>5 DEF f
  <2>8. CASE g # h
    <3>1. streams'[g] = streams[g] /\ streams[g].state = "open"
      BY <2>8, <1>2
    <3>2. streams'[g].inst \in served'[FrontOf(streams'[g].inst.at)] /\ streams'[g].inst.clone = 0
      BY <3>1, <2>2, <2>3, <2>6
    <3>3. ASSUME NEW e \in Handles, streams'[e].state = "open", streams'[e].inst = streams'[g].inst PROVE e = g
      <4>1. e # h
        BY <3>1, <3>3, <2>5, <1>4
      <4> QED
        BY <4>1, <3>1, <3>3, <2>2, <1>2
    <3> QED
      BY <3>2, <3>3
  <2> QED
    BY <2>7, <2>8
<1>15. DeletedInv'
  BY <1>1, <1>5 DEF DeletedInv
<1>16. FiltersInv'
  BY <1>1, StartedExact
<1>17. HearsInv'
  <2>1. \A e : Hears(e)' = Hears(e)
    BY <1>2, <1>5 DEF Hears, Reads
  <2> SUFFICES ASSUME "deaf" \notin mishaps', NEW g \in Handles, streams'[g].state = "open"
               PROVE  Hears(FrontOf(streams'[g].inst.at))
    BY <2>1 DEF HearsInv, IsOpen
  <2>2. CASE g = h
    BY <2>2, <1>4, <1>5 DEF f
  <2>3. CASE g # h
    <3>1. streams'[g] = streams[g] /\ "deaf" \notin mishaps
      BY <2>3, <1>2, <1>5
    <3> QED
      BY <3>1, <1>1 DEF HearsInv, IsOpen
  <2> QED
    BY <2>2, <2>3
<1> QED
  BY <1>2, <1>8, <1>9, <1>11, <1>12, <1>13, <1>14, <1>15, <1>16, <1>17 DEF DeviceInv

\* A close keeps DeviceInv
LEMMA FreedKeepsDevice ==
  ASSUME DeviceInv, NEW h \in Handles, IsOpen(h), Freed(h)
  PROVE  DeviceInv'
<1> DEFINE o == streams[h].from
           f == FrontOf(o.at)
<1>1. /\ DeviceShape /\ NamesInv /\ HomeInv /\ TunedInv /\ LockInv /\ OriginalInv /\ SoleInv
      /\ DeletedInv /\ HearsInv /\ FiltersInv
  BY DEF DeviceInv
<1>2. /\ DeviceShape' /\ DOMAIN marks' = DOMAIN marks /\ device' = device /\ smap' = smap
      /\ streams'[h] = Closed /\ \A g \in Handles : g # h => streams'[g] = streams[g]
  BY <1>1, FreedShape DEF Freed
<1>3. /\ \A j : NameOf(j)' = NameOf(j)
      /\ \A p, n : getService(p, n)' = getService(p, n)
      /\ \A n : Original(n)' = Original(n)
  BY <1>2, SameDevice
<1>4. \A g \in Handles : streams'[g].state = "open" =>
        g # h /\ streams[g].state = "open" /\ streams'[g] = streams[g]
  BY <1>2 DEF Closed
<1>5. /\ served' = [served EXCEPT ![f] = @ \ {o}]
      /\ tuned' = tuned /\ locked' = locked /\ deleted' = deleted /\ mishaps' = mishaps
      /\ feeder' = feeder
  BY DEF Freed
<1>6. /\ served \in [AllFronts -> SUBSET Instances]
      /\ \A g \in AllFronts : \A j \in served[g] : FrontOf(j.at) = g
  BY <1>1 DEF DeviceShape
<1>7. streams[h].inst \in Instances /\ o \in Instances
  BY <1>1, StreamIs DEF DeviceShape, StreamSet, IsOpen
<1>8. f \in AllFronts
  BY <1>1, <1>7, InstancePids
<1>9. o = Original(NameOf(streams[h].inst))
  BY <1>1 DEF NamesInv
<1> HIDE DEF f, o
<1>10. NamesInv'
  BY <1>1, <1>2, <1>3, <1>4 DEF NamesInv, IsOpen
<1>11. HomeInv'
  BY <1>1, <1>4, <1>5 DEF HomeInv, IsOpen
<1>12. TunedInv'
  BY <1>1, <1>4, <1>5 DEF TunedInv, IsOpen
<1>13. LockInv'
  BY <1>1, <1>5 DEF LockInv
<1>14. OriginalInv'
  <2> SUFFICES ASSUME NEW e \in AllFronts, NEW j \in served'[e], j = Original(NameOf(j))
               PROVE  \E g \in Handles : streams'[g].state = "open" /\ streams'[g].inst = j
    BY <1>3 DEF OriginalInv, IsOpen
  <2>1. j \in served[e]
    BY <1>5, <1>6, <1>8
  <2>2. PICK g \in Handles : streams[g].state = "open" /\ streams[g].inst = j
    BY <2>1, <1>1 DEF OriginalInv, IsOpen
  <2>3. g # h
    <3> SUFFICES ASSUME g = h PROVE FALSE
      OBVIOUS
    <3>1. j = o
      BY <2>2, <1>9
    <3>2. e = f
      BY <3>1, <2>1, <1>6 DEF f
    <3> QED
      BY <3>1, <3>2, <1>5, <1>6, <1>8
  <2> QED
    BY <2>2, <2>3, <1>2
<1>15. SoleInv'
  <2> SUFFICES ASSUME mishaps \cap {"cloned", "strayed"} = {}, NEW g \in Handles, streams'[g].state = "open"
               PROVE  /\ streams'[g].inst \in served'[FrontOf(streams'[g].inst.at)]
                      /\ streams'[g].inst.clone = 0
                      /\ \A e \in Handles : streams'[e].state = "open" /\ streams'[e].inst = streams'[g].inst => e = g
    BY <1>5 DEF SoleInv, IsOpen
  <2>1. \A e \in Handles : streams[e].state = "open" =>
          /\ streams[e].inst \in served[FrontOf(streams[e].inst.at)] /\ streams[e].inst.clone = 0
          /\ \A d \in Handles : streams[d].state = "open" /\ streams[d].inst = streams[e].inst => d = e
    BY <1>1 DEF SoleInv, IsOpen
  <2>2. o = streams[h].inst
    <3>1. o.at = streams[h].inst.at /\ o.number = streams[h].inst.number /\ o.clone = 0
      BY <1>1, FreedOwn DEF o
    <3>2. streams[h].inst.clone = 0
      BY <2>1 DEF IsOpen
    <3> QED
      BY <3>1, <3>2, <1>7 DEF Instances
  <2>3. g # h /\ streams[g].state = "open" /\ streams'[g] = streams[g]
    BY <1>4
  <2>4. streams[g].inst # o
    BY <2>1, <2>2, <2>3 DEF IsOpen
  <2>5. streams[g].inst \in served'[FrontOf(streams[g].inst.at)]
    BY <2>1, <2>3, <2>4, <1>5, <1>6, <1>8
  <2>6. \A e \in Handles : streams'[e].state = "open" /\ streams'[e].inst = streams'[g].inst => e = g
    BY <2>1, <2>3, <1>4
  <2> QED
    BY <2>1, <2>3, <2>5, <2>6
<1>16. DeletedInv'
  BY <1>1, <1>5 DEF DeletedInv
<1>17. FiltersInv'
  BY <1>1, FreedExact
<1>18. HearsInv'
  <2>1. \A e : Hears(e)' = Hears(e)
    BY <1>2, <1>5 DEF Hears, Reads
  <2> QED
    BY <2>1, <1>1, <1>4, <1>5 DEF HearsInv, IsOpen
<1> QED
  BY <1>2, <1>10, <1>11, <1>12, <1>13, <1>14, <1>15, <1>16, <1>17, <1>18 DEF DeviceInv

-------------------------------------------------------------------------------
(* DvbStream and DvbFreeStream *)
\* A stream that is Null, since there is none of the name or nothing could be opened
Nulled(h, name) ==
  /\ streams' = [streams EXCEPT ![h] = Null]
  /\ "refused" \in mishaps' \/ Candidates(name) = <<>>

\* A Null stream touches no other
LEMMA NulledQuietly ==
  ASSUME DeviceShape, NEW h \in Handles, streams[h] = Closed, opens < MaxOpens,
         streams' = [streams EXCEPT ![h] = Null], opens' = opens + 1
  PROVE  /\ streams' \in [Handles -> {Closed, Null} \cup Opened]
         /\ \A g \in Handles : IsOpen(g) \/ streams'[g].state = "open" => streams'[g] = streams[g]
         /\ opens' \in 0 .. MaxOpens
<1>1. streams \in [Handles -> {Closed, Null} \cup Opened] /\ opens \in 0 .. MaxOpens
  BY DEF DeviceShape
<1>2. streams' \in [Handles -> {Closed, Null} \cup Opened]
  BY <1>1
<1>3. \A g \in Handles : IsOpen(g) \/ streams'[g].state = "open" => streams'[g] = streams[g]
  <2> SUFFICES ASSUME NEW g \in Handles, IsOpen(g) \/ streams'[g].state = "open" PROVE g # h
    BY <1>1
  <2>1. streams[h].state # "open" /\ streams'[h].state # "open"
    BY <1>1 DEF Closed, Null
  <2> QED
    BY <2>1 DEF IsOpen
<1> QED
  BY <1>1, <1>2, <1>3, DeviceAssumption

\* Descriptors that stay
LEMMA FdsAlone == DeviceShape /\ fds' = fds => FdsStill
  BY DEF DeviceShape, FdsStill

\* There is no service of that name
LEMMA UnknownIs ==
  ASSUME DeviceShape, NEW h \in Handles, streams[h] = Closed, opens < MaxOpens, NEW name, Unknown(h, name)
  PROVE  Quiet /\ Nulled(h, name) /\ fds' = fds
<1>1. /\ Candidates(name) = <<>> /\ streams' = [streams EXCEPT ![h] = Null] /\ opens' = opens + 1
      /\ UNCHANGED <<device, smap, feeder, tuned, locked, refs, handle, fds, marks, served, deleted, mishaps>>
  BY DEF Unknown, Opens, tuner, filters
<1>2. Quiet
  BY <1>1, NulledQuietly, FdsAlone DEF Quiet, DeviceShape
<1> QED
  BY <1>1, <1>2 DEF Nulled

\* A frontend could not be opened
LEMMA RefuseIs ==
  ASSUME DeviceShape, NEW h \in Handles, streams[h] = Closed, opens < MaxOpens, NEW name, Refuse(h, name)
  PROVE  Quiet /\ Nulled(h, name) /\ fds' = fds
<1>1. /\ Candidates(name) # <<>> /\ streams' = [streams EXCEPT ![h] = Null] /\ opens' = opens + 1
      /\ deleted' = deleted \cup {Candidates(name)[1]} /\ mishaps' = mishaps \cup {"refused"}
      /\ UNCHANGED <<device, smap, feeder, tuned, locked, refs, handle, fds, marks, served>>
  BY DEF Refuse, Opens, tuner, filters
<1>2. Candidates(name)[1] \in Places
  BY <1>1, CandidatesAre
<1>3. /\ mishaps \subseteq mishaps' /\ mishaps' \subseteq Mishaps /\ "refused" \in mishaps'
      /\ deleted' \subseteq Places
  BY <1>1, <1>2 DEF DeviceShape, Mishaps
<1>4. Quiet
  BY <1>1, <1>3, NulledQuietly, FdsAlone DEF Quiet, DeviceShape
<1> QED
  BY <1>1, <1>3, <1>4 DEF Nulled

\* No frontend is free or locks
LEMMA NoFrontendIs ==
  ASSUME DeviceShape, NEW h \in Handles, streams[h] = Closed, opens < MaxOpens, NEW name, NEW lock,
         Candidates(name) # <<>>, NoFrontend(h, name, lock)
  PROVE  Quiet /\ Nulled(h, name) /\ fds' = fds
<1> DEFINE places == Candidates(name)
           f == FrontOf(Last(places))
           retune == Retunes(name, places, {})
<1>1. /\ deleted' = deleted \cup {places[1]}
      /\ IF retune THEN \E m \in {locked[f], Nowhere, Last(places)} : locked' = [locked EXCEPT ![f] = m]
                   ELSE UNCHANGED locked
      /\ marks' = IF retune THEN StoppedMarks(f) ELSE marks
      /\ mishaps' = mishaps \cup {"refused"} \cup (IF retune THEN {"lost"} ELSE {})
      /\ streams' = [streams EXCEPT ![h] = Null] /\ opens' = opens + 1
      /\ UNCHANGED <<device, smap, feeder, tuned, refs, handle, fds, served>>
  BY DEF NoFrontend, Opens, filters
<1>2. places[1] \in Places /\ Last(places) \in Places
  BY CandidatesAre DEF Last
<1>2a. f \in AllFronts
  BY <1>2, PlacesAre
<1> HIDE DEF f, retune
<1> HIDE DEF places
<1>3. /\ mishaps \subseteq mishaps' /\ mishaps' \subseteq Mishaps /\ "refused" \in mishaps'
      /\ "lost" \notin mishaps' => ~retune
  BY <1>1 DEF DeviceShape, Mishaps
<1>4. deleted' \subseteq Places
  BY <1>1, <1>2 DEF DeviceShape
<1>5. /\ locked \in [AllFronts -> Places \cup {Nowhere}]
      /\ marks \in [Places -> SUBSET Instances] /\ \A p \in Places : \A j \in marks[p] : j.at = p
  BY DEF DeviceShape
<1>6. locked' \in [AllFronts -> Places \cup {Nowhere}] /\ ("lost" \notin mishaps' => locked' = locked)
  <2>1. CASE retune
    <3>1. PICK m \in {locked[f], Nowhere, Last(places)} : locked' = [locked EXCEPT ![f] = m]
      BY <2>1, <1>1
    <3>2. m \in Places \cup {Nowhere}
      BY <3>1, <1>2, <1>2a, <1>5
    <3> QED
      BY <2>1, <3>1, <3>2, <1>3, <1>5
  <2>2. CASE ~retune
    BY <2>2, <1>1, <1>5
  <2> QED
    BY <2>1, <2>2
<1>7. marks' \in [Places -> SUBSET Instances] /\ \A p \in Places : \A j \in marks'[p] : j.at = p
  BY <1>1, <1>5 DEF StoppedMarks
<1>8. Quiet
  BY <1>1, <1>3, <1>4, <1>6, <1>7, NulledQuietly, FdsAlone DEF Quiet
<1> QED
  BY <1>1, <1>3, <1>8 DEF Nulled

\* DvbStream keeps DeviceInv, and leaves a stream of that name or Null
LEMMA OpeningKeepsDevice ==
  ASSUME DeviceInv, NEW h \in Handles, NEW name, DvbStream(h, name)
  PROVE  /\ DeviceInv'
         /\ \A g \in Handles : g # h => streams'[g] = streams[g]
         /\ mishaps \subseteq mishaps' /\ device' = device /\ smap' = smap
         /\ streams'[h] # Closed
         /\ \A n \in 0 .. MaxFd : fds[n].of = "file" => fds'[n] = fds[n]
         /\ \/ Nulled(h, name)
            \/ \E i \in Instances : NameOf(i) = name /\ streams'[h] \in Opened /\ streams'[h].inst = i
<1>1. DeviceShape /\ streams[h] = Closed /\ opens < MaxOpens /\ streams \in [Handles -> {Closed, Null} \cup Opened]
  BY DEF DeviceInv, DeviceShape, DvbStream
<1>2. CASE Quiet /\ Nulled(h, name) /\ fds' = fds
  <2>1. DeviceInv'
    BY <1>2, QuietKeepsDevice
  <2>2. mishaps \subseteq mishaps' /\ device' = device /\ smap' = smap
    BY <1>2 DEF Quiet
  <2>3. streams'[h] = Null /\ \A g \in Handles : g # h => streams'[g] = streams[g]
    BY <1>1, <1>2 DEF Nulled
  <2>4. Null # Closed
    BY DEF Null, Closed
  <2> QED
    BY <1>2, <2>1, <2>2, <2>3, <2>4
<1>3. ASSUME NEW lock, NEW none, Candidates(name) # <<>>, Start(h, name, lock, none)
      PROVE  /\ DeviceInv'
             /\ \A g \in Handles : g # h => streams'[g] = streams[g]
             /\ mishaps \subseteq mishaps' /\ device' = device /\ smap' = smap
             /\ \A n \in 0 .. MaxFd : fds[n].of = "file" => fds'[n] = fds[n]
             /\ \E i \in Instances : NameOf(i) = name /\ streams'[h] \in Opened /\ streams'[h].inst = i
  <2>1. PICK i \in Instances : Started(h, name, none, i)
    BY <1>1, <1>3, StartIs
  <2>2. DeviceInv'
    BY <1>1, <2>1, StartedKeepsDevice
  <2>3. /\ \A g \in Handles : g # h => streams'[g] = streams[g]
        /\ streams'[h] = [state |-> "open", inst |-> i, from |-> Original(name)] /\ streams'[h] \in Opened
        /\ \A n \in 0 .. MaxFd : fds[n].of = "file" => fds'[n] = fds[n]
    BY <1>1, <2>1, StartedShape
  <2>4. mishaps \subseteq mishaps' /\ device' = device /\ smap' = smap /\ NameOf(i) = name
    BY <2>1 DEF Started
  <2>5. streams'[h].inst = i
    BY <2>3
  <2> QED
    BY <2>2, <2>3, <2>4, <2>5
<1>4. CASE Unknown(h, name)
  BY <1>1, <1>2, <1>4, UnknownIs
<1>5. CASE Refuse(h, name)
  BY <1>1, <1>2, <1>5, RefuseIs
<1>6. ASSUME NEW lock, Candidates(name) # <<>>, NoFrontend(h, name, lock) PROVE Quiet /\ Nulled(h, name) /\ fds' = fds
  BY <1>1, <1>6, NoFrontendIs
<1>7. CASE /\ Candidates(name) # <<>>
           /\ \E lock \in Locking :
                \/ \E none \in SUBSET Scarce : Start(h, name, lock, none)
                \/ NoFrontend(h, name, lock)
  <2>1. PICK lock \in Locking :
               \/ \E none \in SUBSET Scarce : Start(h, name, lock, none)
               \/ NoFrontend(h, name, lock)
    BY <1>7
  <2>2. CASE \E none \in SUBSET Scarce : Start(h, name, lock, none)
    <3>1. /\ DeviceInv'
          /\ \A g \in Handles : g # h => streams'[g] = streams[g]
          /\ mishaps \subseteq mishaps' /\ device' = device /\ smap' = smap
          /\ \A n \in 0 .. MaxFd : fds[n].of = "file" => fds'[n] = fds[n]
          /\ \E i \in Instances : NameOf(i) = name /\ streams'[h] \in Opened /\ streams'[h].inst = i
      BY <1>3, <1>7, <2>2
    <3>2. streams'[h] # Closed
      BY <3>1 DEF Opened, Closed
    <3> QED
      BY <3>1, <3>2
  <2>3. CASE NoFrontend(h, name, lock)
    BY <1>2, <1>6, <1>7, <2>3
  <2> QED
    BY <2>1, <2>2, <2>3
<1> QED
  BY <1>4, <1>5, <1>7 DEF DvbStream

\* DvbFreeStream keeps DeviceInv
LEMMA ClosingKeepsDevice ==
  ASSUME DeviceInv, NEW h \in Handles, DvbFreeStream(h)
  PROVE  /\ DeviceInv'
         /\ \A g \in Handles : g # h => streams'[g] = streams[g]
         /\ streams'[h] = Closed /\ mishaps' = mishaps /\ device' = device /\ smap' = smap
         /\ "descriptor" \notin mishaps => \A n \in 0 .. MaxFd : fds[n].of = "file" => fds'[n] = fds[n]
<1>1. DeviceShape /\ streams \in [Handles -> {Closed, Null} \cup Opened] /\ streams[h] \in StreamSet
  BY DEF DeviceInv, DeviceShape, StreamSet
<1>2. /\ streams' = [streams EXCEPT ![h] = Closed] /\ mishaps' = mishaps
      /\ device' = device /\ smap' = smap
  BY DEF DvbFreeStream
<1>3. streams'[h] = Closed /\ \A g \in Handles : g # h => streams'[g] = streams[g]
  BY <1>1, <1>2
<1>4. CASE streams[h] = Null
  <2>1. UNCHANGED <<device, smap, feeder, tuned, locked, refs, handle, fds, marks, served, deleted, opens, mishaps>>
    BY <1>4 DEF DvbFreeStream, filters, tuner
  <2>2. streams' \in [Handles -> {Closed, Null} \cup Opened]
    BY <1>1, <1>2
  <2>3. \A g \in Handles : IsOpen(g) \/ streams'[g].state = "open" => streams'[g] = streams[g]
    <3>1. streams[h].state # "open" /\ streams'[h].state # "open"
      BY <1>3, <1>4 DEF Closed, Null
    <3> QED
      BY <1>3, <3>1 DEF IsOpen
  <2>4. Quiet
    BY <1>1, <2>1, <2>2, <2>3, FdsAlone DEF Quiet, DeviceShape
  <2> QED
    BY <1>2, <1>3, <2>1, <2>4, QuietKeepsDevice
<1>5. CASE streams[h] # Null
  <2>1. IsOpen(h)
    BY <1>1, <1>5, StreamIs DEF DvbFreeStream, IsOpen
  <2>2. Freed(h)
    BY <1>5 DEF DvbFreeStream, Freed, StoppedService, tuner
  <2>3. "descriptor" \notin mishaps => \A n \in 0 .. MaxFd : fds[n].of = "file" => fds'[n] = fds[n]
    BY <1>1, <2>1, <2>2, FreedShape DEF DeviceInv, FiltersInv
  <2> QED
    BY <1>2, <1>3, <2>1, <2>2, <2>3, FreedKeepsDevice
<1> QED
  BY <1>4, <1>5

-------------------------------------------------------------------------------
(* The device: every step *)
\* DeviceInv holds at first
LEMMA DeviceStarts == Init => DeviceInv
<1> SUFFICES ASSUME Init PROVE DeviceInv
  OBVIOUS
<1>1. PICK w \in Worlds : \E silent \in w.silents : DeviceInit(silent)
  BY DEF Init
<1>2. PICK silent \in w.silents : DeviceInit(silent)
  BY <1>1
<1>3. /\ device = DeviceReadXml(detectAdapters(Hardware, silent), File)
      /\ smap = ServiceMap(device)
      /\ LET places == ToSet(TransponderPlaces(device))
             pids == UNION {Carried(p) : p \in places}
         IN /\ refs = [f \in AllFronts |-> [p \in pids |-> 0]]
            /\ handle = [f \in AllFronts |-> [p \in pids |-> -1]]
            /\ marks = [p \in places |-> {}]
      /\ tuned = [f \in AllFronts |-> Nowhere] /\ locked = tuned
      /\ fds = [n \in 0 .. MaxFd |-> IF n = 0 THEN StdIn ELSE Unused]
      /\ served = [f \in AllFronts |-> {}]
      /\ deleted = {}
      /\ streams = [h \in Handles |-> Closed]
      /\ opens = 0 /\ mishaps = {}
  BY <1>2 DEF DeviceInit
<1>4. Readable(device)
  BY <1>3, FileAssumption
<1>5. Places = ToSet(TransponderPlaces(device)) /\ marks = [p \in Places |-> {}]
  BY <1>3 DEF Places
<1>6. /\ refs = [f \in AllFronts |-> [p \in AllPids |-> 0]]
      /\ handle = [f \in AllFronts |-> [p \in AllPids |-> -1]]
  BY <1>3, <1>5 DEF AllPids
<1>7. DeviceShape
  <2>1. Readable(device) /\ smap = ServiceMap(device) /\ Places = ToSet(TransponderPlaces(device))
    BY <1>3, <1>4, <1>5
  <2>2. /\ refs \in [AllFronts -> [AllPids -> Nat]]
        /\ \A f \in AllFronts, x \in AllPids : refs[f][x] = 0
    <3>1. \A f \in AllFronts : [p \in AllPids |-> 0] \in [AllPids -> Nat]
      OBVIOUS
    <3> QED
      BY <3>1, <1>6
  <2>7. handle \in [AllFronts -> [AllPids -> -1 .. MaxFd]]
    <3>1. -1 \in -1 .. MaxFd
      BY DeviceAssumption
    <3>2. \A f \in AllFronts : [p \in AllPids |-> -1] \in [AllPids -> -1 .. MaxFd]
      BY <3>1
    <3> QED
      BY <3>2, <1>6
  <2>8. fds \in [0 .. MaxFd -> FdSet]
    BY <1>3, FdIs
  <2>3. /\ tuned \in [AllFronts -> Places \cup {Nowhere}]
        /\ locked \in [AllFronts -> Places \cup {Nowhere}]
    BY <1>3
  <2>4. /\ served \in [AllFronts -> SUBSET Instances]
        /\ \A f \in AllFronts : \A i \in served[f] : FrontOf(i.at) = f
    BY <1>3
  <2>5. /\ marks \in [Places -> SUBSET Instances]
        /\ \A p \in Places : \A i \in marks[p] : i.at = p
    <3> HIDE DEF Places
    <3> QED
      BY <1>5
  <2>6. /\ deleted \subseteq Places /\ streams \in [Handles -> {Closed, Null} \cup Opened]
        /\ opens \in 0 .. MaxOpens /\ mishaps \subseteq Mishaps
    BY <1>3, DeviceAssumption
  <2> QED
    BY <2>1, <2>2, <2>3, <2>4, <2>5, <2>6, <2>7, <2>8 DEF DeviceShape
<1>8. \A h \in Handles : streams[h].state # "open"
  BY <1>3 DEF Closed
<1>9. NamesInv /\ HomeInv /\ TunedInv /\ SoleInv /\ HearsInv
  BY <1>8 DEF NamesInv, HomeInv, TunedInv, SoleInv, HearsInv, IsOpen
<1>10. LockInv /\ OriginalInv /\ DeletedInv
  BY <1>3 DEF LockInv, OriginalInv, DeletedInv
<1>11. \A f \in AllFronts, x \in AllPids : refs[f][x] = 0 /\ Cardinality(Uses(f, x)) = 0
  <2> TAKE f \in AllFronts, x \in AllPids
  <2>1. Uses(f, x) = {}
    BY <1>8 DEF Uses
  <2>2. refs[f] = [p \in AllPids |-> 0]
    BY <1>6
  <2> QED
    BY <2>1, <2>2, FS_EmptySet
<1>12. \A n \in 0 .. MaxFd : fds[n].of # "filter"
  BY <1>3, FdIs
<1>15. CountsInv
  BY <1>11 DEF CountsInv, Counted
<1>16. \A f \in AllFronts, x \in AllPids : ~(refs[f][x] > 0)
  BY <1>11
<1>13. RunsInv
  BY <1>16 DEF RunsInv, Running
<1>14. HandlesInv
  BY <1>11, <1>12 DEF HandlesInv, Alive, Owned, Apart
<1> QED
  BY <1>7, <1>9, <1>10, <1>13, <1>14, <1>15 DEF DeviceInv, FiltersInv

\* Steps that leave the device alone, though not the descriptors of files
DeviceStill ==
  /\ UNCHANGED dvbvars /\ FdsStill
  /\ mishaps \subseteq mishaps' /\ mishaps' \subseteq mishaps \cup {"descriptor", "tail"}

\* They keep DeviceInv
LEMMA StillKeepsDevice ==
  ASSUME DeviceInv, DeviceStill
  PROVE  DeviceInv'
<1>1. /\ UNCHANGED <<device, smap, feeder, tuned, locked, refs, handle, marks, served, deleted, streams, opens>>
      /\ FdsStill
  BY DEF DeviceStill, dvbvars, tuner, filters
<1>2. mishaps \subseteq mishaps' /\ mishaps' \subseteq Mishaps
  BY DEF DeviceStill, DeviceInv, DeviceShape, Mishaps
<1>3. Quiet
  BY <1>1, <1>2 DEF Quiet, DeviceInv, DeviceShape
<1> QED
  BY <1>3, QuietKeepsDevice

\* Nothing of the device changes
LEMMA UnchangedIsStill ==
  ASSUME DeviceShape, UNCHANGED devvars
  PROVE  DeviceStill
  BY FdsAlone DEF devvars, DeviceStill

\* To close a descriptor is still, or a mishap
LEMMA CloseIsStill ==
  ASSUME DeviceShape, NEW n, NEW mine, \A d \in mine : d.of # "filter", Close(n, mine)
  PROVE  FdsStill /\ mishaps \subseteq mishaps' /\ mishaps' \subseteq mishaps \cup {"descriptor", "tail"}
<1>1. /\ fds' = [fds EXCEPT ![n] = Unused] /\ fds \in [0 .. MaxFd -> FdSet]
      /\ mishaps' = IF fds[n] \in {Unused, StdIn} \cup mine THEN mishaps ELSE mishaps \cup {"descriptor"}
  BY DEF Close, DeviceShape
<1>2. fds' \in [0 .. MaxFd -> FdSet]
  BY <1>1, FdIs
<1>3. ASSUME "descriptor" \notin mishaps', NEW k \in 0 .. MaxFd
      PROVE  fds'[k] = fds[k] \/ (fds[k].of # "filter" /\ fds'[k].of # "filter")
  <2>1. CASE k # n
    BY <2>1, <1>1
  <2>2. CASE k = n
    <3>1. fds[k] \in {Unused, StdIn} \cup mine
      BY <2>2, <1>1, <1>3
    <3>2. fds[k].of # "filter"
      BY <3>1, FdIs
    <3>3. fds'[k] = Unused
      BY <2>2, <1>1
    <3> QED
      BY <3>2, <3>3, FdIs
  <2> QED
    BY <2>1, <2>2
<1>4. mishaps \subseteq mishaps' /\ mishaps' \subseteq mishaps \cup {"descriptor", "tail"}
  BY <1>1
<1> QED
  BY <1>2, <1>3, <1>4 DEF FdsStill

\* StatData is one of them
LEMMA StatIsStill ==
  ASSUME DeviceShape, NEW id, StatData(id)
  PROVE  FdsStill /\ mishaps \subseteq mishaps' /\ mishaps' \subseteq mishaps \cup {"descriptor", "tail"}
<1>1. CASE UNCHANGED <<fds, mishaps>>
  BY <1>1, FdsAlone
<1>2. CASE Close(0, {})
  BY <1>2, CloseIsStill
<1> QED
  BY <1>1, <1>2 DEF StatData

\* The handlers of controllers and the scanner are
LEMMA ServingIsStill ==
  ASSUME DeviceShape, NEW c, Listing(c) \/ Fav(c) \/ RootCount \/ RootId \/ Scanning
  PROVE  DeviceStill
<1>1. CASE UNCHANGED devvars
  BY <1>1, UnchangedIsStill
<1>2. CASE Listing(c)
  <2>1. CASE LsStat(c)
    BY <2>1, StatIsStill DEF LsStat, DeviceStill
  <2> QED
    BY <1>1, <1>2, <2>1 DEF Listing, LsQuery, LsRead, LsMeta
<1>3. CASE Fav(c)
  <2>1. UNCHANGED dvbvars /\ UNCHANGED fds
    BY <1>3 DEF Fav
  <2>2. PICK words \in Commands :
          FavAdd(c, words) \/ FavDel(c, words) \/ FavSet(c, words) \/ FavSetNone(c, words)
    BY <1>3 DEF Fav
  <2>3. mishaps' \in {mishaps, mishaps \cup {"tail"}}
    BY <2>2 DEF FavAdd, FavDel, FavSet, FavSetNone, FavWrites
  <2> QED
    BY <2>1, <2>3, FdsAlone DEF DeviceStill
<1>4. CASE RootCount \/ RootId
  BY <1>1, <1>4 DEF RootCount, RootId, Down
<1>5. CASE Scanning
  BY <1>1, <1>5 DEF Scanning
<1> QED
  BY <1>2, <1>3, <1>4, <1>5

\* A file is opened with a descriptor that is free
LEMMA FileIsStill ==
  ASSUME DeviceShape, NEW p, PlayOpenFile(p)
  PROVE  /\ DeviceStill /\ mishaps' = mishaps
         /\ \/ AuxObj(plays[p].id).objpath \notin Disk /\ fds' = fds
            \/ \E n \in 0 .. MaxFd : /\ fds[n] = Unused
                                     /\ fds' = [fds EXCEPT ![n] = FileAt(AuxObj(plays[p].id).objpath)]
<1> DEFINE path == AuxObj(plays[p].id).objpath
<1>1. /\ UNCHANGED dvbvars /\ mishaps' = mishaps
      /\ \/ path \notin Disk /\ fds' = fds
         \/ path \in Disk /\ \E n \in LowestFree : fds' = [fds EXCEPT ![n] = FileAt(path)]
  BY DEF PlayOpenFile
<1> HIDE DEF path
<1>2. CASE path \notin Disk /\ fds' = fds
  BY <1>1, <1>2, FdsAlone DEF DeviceStill, path
<1>3. CASE path \in Disk /\ \E n \in LowestFree : fds' = [fds EXCEPT ![n] = FileAt(path)]
  <2>1. fds \in [0 .. MaxFd -> FdSet]
    BY DEF DeviceShape
  <2>2. PICK n \in 0 .. MaxFd : fds[n] = Unused /\ fds' = [fds EXCEPT ![n] = FileAt(path)]
    BY <1>3, <2>1 DEF LowestFree
  <2>3. fds' \in [0 .. MaxFd -> FdSet]
    BY <1>3, <2>1, <2>2, FdIs
  <2>4. \A k \in 0 .. MaxFd : fds'[k] = fds[k] \/ (fds[k].of # "filter" /\ fds'[k].of # "filter")
    BY <2>1, <2>2, FdIs
  <2>5. DeviceStill
    BY <1>1, <2>3, <2>4 DEF DeviceStill, FdsStill
  <2> QED
    BY <1>1, <2>2, <2>5 DEF path
<1> QED
  BY <1>1, <1>2, <1>3

\* The players are, but for opening and closing a DVB stream
LEMMA PlayingIsStill ==
  ASSUME DeviceShape, NEW p,
         PlayStat(p) \/ PlayOpenFile(p) \/ PlayReadFile(p) \/ PlayReadDvb(p) \/ PlayCloseFreed(p)
  PROVE  DeviceStill
<1>1. CASE UNCHANGED devvars
  BY <1>1, UnchangedIsStill
<1>2. CASE PlayStat(p)
  <2>1. PICK id : StatData(id)
    BY <1>2 DEF PlayStat
  <2>2. UNCHANGED dvbvars
    BY <1>2 DEF PlayStat
  <2> QED
    BY <2>1, <2>2, StatIsStill DEF DeviceStill
<1>3. CASE PlayOpenFile(p)
  BY <1>3, FileIsStill
<1> QED
  BY <1>1, <1>2, <1>3 DEF PlayReadFile, PlayReadDvb, PlayCloseFreed, Down

\* DeviceInv is inductive
LEMMA NextKeepsDevice == DeviceInv /\ [Next]_vars => DeviceInv'
<1> SUFFICES ASSUME DeviceInv, [Next]_vars PROVE DeviceInv'
  OBVIOUS
<1>0. DeviceShape
  BY DEF DeviceInv
<1>1. CASE UNCHANGED vars
  BY <1>0, <1>1, UnchangedIsStill, StillKeepsDevice DEF vars
<1>2. CASE (\E c \in Controllers \cap active : Listing(c) \/ Fav(c)) \/ RootCount \/ RootId \/ Scanning
  BY <1>0, <1>2, ServingIsStill, StillKeepsDevice
<1>3. CASE \E p \in Handles \cap active : Playing(p)
  <2>1. PICK p \in Handles : Playing(p)
    BY <1>3
  <2>2. CASE PlayStat(p) \/ PlayOpenFile(p) \/ PlayReadFile(p) \/ PlayReadDvb(p) \/ PlayCloseFreed(p)
    BY <1>0, <2>2, PlayingIsStill, StillKeepsDevice
  <2>3. CASE PlayOpenDvb(p)
    <3>1. CASE Down("freed")
      BY <1>0, <3>1, UnchangedIsStill, StillKeepsDevice DEF Down
    <3>2. CASE DvbStream(p, AuxObj(plays[p].id).objpath)
      BY <3>2, OpeningKeepsDevice
    <3> QED
      BY <2>3, <3>1, <3>2 DEF PlayOpenDvb
  <2>4. CASE PlayClose(p)
    <3>1. CASE UNCHANGED dvbvars /\ UNCHANGED <<fds, mishaps>>
      BY <1>0, <3>1, UnchangedIsStill, StillKeepsDevice DEF devvars
    <3>3. CASE UNCHANGED dvbvars /\ Close(plays[p].fd, {FileAt(plays[p].path)})
      <4>1. \A d \in {FileAt(plays[p].path)} : d.of # "filter"
        BY FdIs
      <4>2. DeviceStill
        BY <1>0, <3>3, <4>1, CloseIsStill DEF DeviceStill
      <4> QED
        BY <4>2, StillKeepsDevice
    <3>2. CASE DvbFreeStream(p)
      BY <3>2, ClosingKeepsDevice
    <3> QED
      BY <2>4, <3>1, <3>2, <3>3 DEF PlayClose
  <2> QED
    BY <2>1, <2>2, <2>3, <2>4 DEF Playing
<1> QED
  BY <1>1, <1>2, <1>3 DEF Next

\* DeviceInv holds always
LEMMA DeviceHolds == Spec => []DeviceInv
  BY DeviceStarts, NextKeepsDevice, PTL DEF Spec

\* Filters follow the streams (src/dvb/Demux.cpp, selectService and unselectService,
\* with the descriptors that src/serve.c opens and closes): as long as no selection
\* was cut short, no stream came from another transponder than the first of its name,
\* and no stat has closed a descriptor of somebody, a frontend counts each pid once
\* for each place where an open stream of it lists it; what is counted has a
\* descriptor of its own, for that pid, and started if no service lists a pid twice;
\* and every descriptor of a filter is that of one that is counted.
THEOREM FiltersAreExact == Spec => []FiltersExact
<1>1. DeviceInv => FiltersExact
  BY FiltersGiven DEF DeviceInv
<1> QED
  BY <1>1, DeviceHolds, PTL

-------------------------------------------------------------------------------
(* The players: what keeps their invariants *)
\* The inductive invariant of the players
PlayInv == PlaysShape /\ StreamsInv /\ FilesInv

\* One player steps
LEMMA PlaySet ==
  ASSUME PlaysShape, NEW p \in Handles, NEW r,
         r = [pc |-> r.pc, id |-> r.id, fd |-> r.fd, path |-> r.path, foreign |-> r.foreign],
         r.pc \in {"idle", "stated", "file", "dvb"}, r.fd \in -1 .. MaxFd, r.foreign \in BOOLEAN,
         plays' = [plays EXCEPT ![p] = r],
         \A q \in Handles : q # p => streams'[q] = streams[q],
         (r.pc = "dvb") <=> (streams'[p] # Closed)
  PROVE  /\ PlaysShape' /\ plays'[p] = r
         /\ \A q \in Handles : q # p => plays'[q] = plays[q]
<1>1. DOMAIN plays' = Handles /\ plays'[p] = r /\ \A q \in Handles : q # p => plays'[q] = plays[q]
  BY DEF PlaysShape
<1>2. PlaysShape'
  <2> SUFFICES ASSUME NEW q \in Handles
               PROVE  /\ plays'[q] = [pc |-> plays'[q].pc, id |-> plays'[q].id, fd |-> plays'[q].fd,
                                      path |-> plays'[q].path, foreign |-> plays'[q].foreign]
                      /\ plays'[q].pc \in {"idle", "stated", "file", "dvb"} /\ plays'[q].fd \in -1 .. MaxFd
                      /\ plays'[q].foreign \in BOOLEAN
                      /\ (plays'[q].pc = "dvb") <=> (streams'[q] # Closed)
    BY <1>1 DEF PlaysShape
  <2>1. CASE q = p
    BY <2>1, <1>1
  <2>2. CASE q # p
    BY <2>2, <1>1 DEF PlaysShape
  <2> QED
    BY <2>1, <2>2
<1> QED
  BY <1>1, <1>2

\* No stream has begun or changed its player
LEMMA StreamsKept ==
  ASSUME StreamsInv, device' = device, smap' = smap, DOMAIN marks' = DOMAIN marks, mishaps \subseteq mishaps',
         \A q \in Handles : plays'[q].pc = "dvb" =>
           plays[q].pc = "dvb" /\ plays'[q].path = plays[q].path /\ streams'[q] = streams[q]
  PROVE  StreamsInv'
<1>1. (\A i : NameOf(i)' = NameOf(i)) /\ \A n : Candidates(n)' = Candidates(n)
  BY SameDevice
<1>2. ASSUME NEW q \in Handles, plays'[q].pc = "dvb"
      PROVE  /\ streams'[q].state = "open" => NameOf(streams'[q].inst) = plays'[q].path
             /\ streams'[q] = Null /\ "refused" \notin mishaps' => Candidates(plays'[q].path) = <<>>
  BY <1>2 DEF StreamsInv, IsOpen
<1> QED
  BY <1>1, <1>2 DEF StreamsInv, IsOpen, Null

\* A file that is open stays so, or its descriptor was closed for somebody else
FilesHeld ==
  "descriptor" \notin mishaps' => \A n \in 0 .. MaxFd : fds[n].of = "file" => fds'[n] = fds[n]

\* Descriptors are numbers, -1 is none
LEMMA FdRange == /\ MaxFd \in Nat \ {0} /\ -1 \in -1 .. MaxFd
                 /\ \A n \in 0 .. MaxFd : n \in -1 .. MaxFd /\ n # -1
<1>1. MaxFd \in Nat \ {0}
  BY DeviceAssumption
<1> QED
  BY <1>1

\* The descriptor of a player that has its file open
LEMMA OpenFd ==
  ASSUME PlaysShape, NEW q \in Handles, OpenFile(q)
  PROVE  plays[q].fd \in 0 .. MaxFd
<1>1. plays[q].fd \in -1 .. MaxFd /\ plays[q].fd # -1
  BY DEF PlaysShape, OpenFile
<1> QED
  BY <1>1, FdRange

\* No player has opened a file
LEMMA FilesKept ==
  ASSUME PlaysShape, FilesInv, FilesHeld, mishaps \subseteq mishaps',
         \A q \in Handles : plays'[q].pc = "file" =>
           plays[q].pc = "file" /\ plays'[q].fd = plays[q].fd /\ plays'[q].path = plays[q].path
  PROVE  FilesInv'
<1>1. \A q \in Handles : OpenFile(q)' => OpenFile(q) /\ plays'[q].fd = plays[q].fd /\ plays'[q].path = plays[q].path
  BY DEF OpenFile
<1>2. \A q \in Handles : plays'[q].pc = "file" /\ plays'[q].fd = -1 => plays'[q].path \notin Disk
  BY DEF FilesInv
<1>3. ASSUME "descriptor" \notin mishaps', NEW q \in Handles, OpenFile(q)
      PROVE  /\ plays[q].path \in Disk /\ fds'[plays[q].fd] = FileAt(plays[q].path)
             /\ \A e \in Handles : OpenFile(e) /\ plays[e].fd = plays[q].fd => e = q
  <2>1. /\ plays[q].path \in Disk /\ fds[plays[q].fd] = FileAt(plays[q].path)
        /\ \A e \in Handles : OpenFile(e) /\ plays[e].fd = plays[q].fd => e = q
    BY <1>3 DEF FilesInv
  <2>2. plays[q].fd \in 0 .. MaxFd /\ fds[plays[q].fd].of = "file"
    BY <1>3, <2>1, OpenFd, FdIs
  <2> QED
    BY <1>3, <2>1, <2>2 DEF FilesHeld
<1> QED
  BY <1>1, <1>2, <1>3 DEF FilesInv

\* A stat that closes the descriptor of a file is a mishap
LEMMA StatHolds ==
  ASSUME DeviceShape, NEW id, StatData(id)
  PROVE  FilesHeld /\ mishaps \subseteq mishaps'
<1>1. CASE UNCHANGED <<fds, mishaps>>
  BY <1>1 DEF FilesHeld
<1>2. CASE Close(0, {})
  <2>1. /\ fds' = [fds EXCEPT ![0] = Unused] /\ fds \in [0 .. MaxFd -> FdSet]
        /\ mishaps' = IF fds[0] \in {Unused, StdIn} THEN mishaps ELSE mishaps \cup {"descriptor"}
    BY <1>2 DEF Close, DeviceShape
  <2>2. ASSUME "descriptor" \notin mishaps', NEW n \in 0 .. MaxFd, fds[n].of = "file"
        PROVE  fds'[n] = fds[n]
    <3>1. fds[0] \in {Unused, StdIn}
      BY <2>1, <2>2
    <3>2. n # 0
      BY <2>2, <3>1, FdIs
    <3> QED
      BY <2>1, <3>2
  <2> QED
    BY <2>1, <2>2 DEF FilesHeld
<1> QED
  BY <1>1, <1>2 DEF StatData

-------------------------------------------------------------------------------
(* The players: opening and stat *)
\* What the steps of others leave
LEMMA DeviceStays ==
  ASSUME UNCHANGED dvbvars
  PROVE  /\ device' = device /\ smap' = smap /\ DOMAIN marks' = DOMAIN marks /\ streams' = streams
  BY DEF dvbvars

\* No player steps
LEMMA OthersKeepPlays ==
  ASSUME PlayInv, UNCHANGED <<dvbvars, plays>>, mishaps \subseteq mishaps', FilesHeld
  PROVE  PlayInv'
<1>1. PlaysShape /\ StreamsInv /\ FilesInv
  BY DEF PlayInv
<1>2. device' = device /\ smap' = smap /\ DOMAIN marks' = DOMAIN marks /\ streams' = streams /\ plays' = plays
  BY DeviceStays
<1>3. PlaysShape'
  BY <1>1, <1>2 DEF PlaysShape
<1>4. StreamsInv'
  BY <1>1, <1>2, StreamsKept
<1>5. FilesInv'
  BY <1>1, <1>2, FilesKept
<1> QED
  BY <1>3, <1>4, <1>5 DEF PlayInv

\* The handlers of controllers and the scanner
LEMMA ServingKeepsPlays ==
  ASSUME DeviceShape, PlayInv, NEW c, Listing(c) \/ Fav(c) \/ RootCount \/ RootId \/ Scanning
  PROVE  PlayInv'
<1>1. UNCHANGED dvbvars /\ mishaps \subseteq mishaps'
  BY ServingIsStill DEF DeviceStill
<1>2. plays' = plays
  BY DEF Listing, LsQuery, LsRead, LsStat, LsMeta, Fav, RootCount, RootId, Scanning, Down
<1>3. fds' = fds \/ \E id : StatData(id)
  BY DEF Listing, LsQuery, LsRead, LsStat, LsMeta, Fav, RootCount, RootId, Scanning, Down, devvars
<1>4. FilesHeld
  BY <1>3, StatHolds DEF FilesHeld
<1> QED
  BY <1>1, <1>2, <1>4, OthersKeepPlays

\* The server ends
LEMMA DownKeepsPlays ==
  ASSUME PlayInv, NEW why, Down(why)
  PROVE  PlayInv'
<1>1. UNCHANGED <<dvbvars, plays, fds, mishaps>>
  BY DEF Down, devvars
<1> QED
  BY <1>1, OthersKeepPlays DEF FilesHeld

\* The record of a player after its stat
LEMMA PlayStated ==
  ASSUME NEW z, z = [pc |-> z.pc, id |-> z.id, fd |-> z.fd, path |-> z.path, foreign |-> z.foreign],
         NEW x, NEW y
  PROVE  [z EXCEPT !.pc = x, !.id = y]
           = [pc |-> x, id |-> y, fd |-> z.fd, path |-> z.path, foreign |-> z.foreign]
<1> DEFINE one == [z EXCEPT !.pc = x]
<1>1. one = [pc |-> x, id |-> z.id, fd |-> z.fd, path |-> z.path, foreign |-> z.foreign]
  OBVIOUS
<1>2. [z EXCEPT !.pc = x, !.id = y] = [one EXCEPT !.id = y]
  OBVIOUS
<1> HIDE DEF one
<1>3. [one EXCEPT !.id = y] = [pc |-> x, id |-> y, fd |-> z.fd, path |-> z.path, foreign |-> z.foreign]
  BY <1>1
<1> QED
  BY <1>2, <1>3

\* A player that does nothing
LEMMA NoPlayIs ==
  /\ NoPlay = [pc |-> NoPlay.pc, id |-> NoPlay.id, fd |-> NoPlay.fd, path |-> NoPlay.path,
               foreign |-> NoPlay.foreign]
  /\ NoPlay.pc = "idle" /\ NoPlay.fd = -1 /\ NoPlay.foreign = FALSE
<1>1. NoPlay = [pc |-> NoPlay.pc, id |-> NoPlay.id, fd |-> NoPlay.fd, path |-> NoPlay.path,
                foreign |-> NoPlay.foreign]
  BY DEF NoPlay
<1>2. NoPlay.pc = "idle" /\ NoPlay.fd = -1 /\ NoPlay.foreign = FALSE
  BY DEF NoPlay
<1> QED
  BY <1>1, <1>2

\* A player stats its object
LEMMA PlayStatKeepsPlays ==
  ASSUME DeviceShape, PlayInv, NEW p \in Handles, PlayStat(p)
  PROVE  PlayInv'
<1>1. PlaysShape /\ StreamsInv /\ FilesInv /\ plays[p].pc = "idle" /\ UNCHANGED dvbvars
  BY DEF PlayInv, PlayStat
<1>2. PICK id : /\ StatData(id)
                /\ plays' = [plays EXCEPT ![p] = [NoPlay EXCEPT !.pc = "stated", !.id = id]]
  BY DEF PlayStat
<1> DEFINE r == [pc |-> "stated", id |-> id, fd |-> NoPlay.fd, path |-> NoPlay.path,
                 foreign |-> NoPlay.foreign]
<1>3. plays' = [plays EXCEPT ![p] = r]
  <2>1. [NoPlay EXCEPT !.pc = "stated", !.id = id] = r
    BY PlayStated, NoPlayIs
  <2> QED
    BY <1>2, <2>1
<1>4. device' = device /\ smap' = smap /\ DOMAIN marks' = DOMAIN marks /\ streams' = streams
  BY <1>1, DeviceStays
<1>5. streams[p] = Closed
  BY <1>1 DEF PlaysShape
<1>6. /\ r = [pc |-> r.pc, id |-> r.id, fd |-> r.fd, path |-> r.path, foreign |-> r.foreign]
      /\ r.pc = "stated" /\ r.fd \in -1 .. MaxFd /\ r.foreign \in BOOLEAN
  BY FdRange, NoPlayIs
<1> HIDE DEF r
<1>7. PlaysShape' /\ plays'[p] = r /\ \A q \in Handles : q # p => plays'[q] = plays[q]
  BY <1>1, <1>3, <1>4, <1>5, <1>6, PlaySet
<1>8. FilesInv' /\ mishaps \subseteq mishaps'
  BY <1>1, <1>2, <1>6, <1>7, StatHolds, FilesKept
<1>9. StreamsInv'
  BY <1>1, <1>4, <1>6, <1>7, <1>8, StreamsKept
<1> QED
  BY <1>7, <1>8, <1>9 DEF PlayInv

\* A player opens a file: the descriptor was free, so that it is its own
LEMMA PlayOpenFileKeepsPlays ==
  ASSUME DeviceShape, PlayInv, NEW p \in Handles, PlayOpenFile(p)
  PROVE  PlayInv'
<1> DEFINE path == AuxObj(plays[p].id).objpath
<1>1. PlaysShape /\ StreamsInv /\ FilesInv /\ plays[p].pc = "stated" /\ fds \in [0 .. MaxFd -> FdSet]
  BY DEF PlayInv, PlayOpenFile, DeviceShape
<1>2. UNCHANGED dvbvars /\ mishaps' = mishaps
  BY DEF PlayOpenFile
<1>3. device' = device /\ smap' = smap /\ DOMAIN marks' = DOMAIN marks /\ streams' = streams
  BY <1>2, DeviceStays
<1>4. /\ streams[p] = Closed /\ plays[p].foreign \in BOOLEAN
      /\ plays[p] = [pc |-> plays[p].pc, id |-> plays[p].id, fd |-> plays[p].fd,
                     path |-> plays[p].path, foreign |-> plays[p].foreign]
      /\ DOMAIN plays = Handles
  BY <1>1 DEF PlaysShape
<1>5. PICK n \in -1 .. MaxFd :
        /\ plays' = [plays EXCEPT ![p].pc = "file", ![p].fd = n, ![p].path = path]
        /\ n = -1 => path \notin Disk /\ fds' = fds
        /\ n # -1 => /\ path \in Disk /\ n \in 0 .. MaxFd /\ fds[n] = Unused
                     /\ fds' = [fds EXCEPT ![n] = FileAt(path)]
  <2>1. CASE path \in Disk
    <3>1. PICK n \in LowestFree :
            /\ fds' = [fds EXCEPT ![n] = FileAt(path)]
            /\ plays' = [plays EXCEPT ![p].pc = "file", ![p].fd = n, ![p].path = path]
      BY <2>1 DEF PlayOpenFile
    <3>2. n \in 0 .. MaxFd /\ fds[n] = Unused
      BY <1>1 DEF LowestFree
    <3>3. n \in -1 .. MaxFd /\ n # -1
      BY <3>2, FdRange
    <3> QED
      BY <2>1, <3>1, <3>2, <3>3
  <2>2. CASE path \notin Disk
    <3>1. fds' = fds /\ plays' = [plays EXCEPT ![p].pc = "file", ![p].fd = -1, ![p].path = path]
      BY <2>2 DEF PlayOpenFile
    <3>2. -1 \in -1 .. MaxFd
      BY FdRange
    <3> QED
      BY <2>2, <3>1, <3>2
  <2> QED
    BY <2>1, <2>2
<1> HIDE DEF path
<1> DEFINE r == [pc |-> "file", id |-> plays[p].id, fd |-> n, path |-> path, foreign |-> plays[p].foreign]
<1>6. plays' = [plays EXCEPT ![p] = r]
  <2>1. [plays EXCEPT ![p].pc = "file", ![p].fd = n, ![p].path = path]
          = [plays EXCEPT ![p] = [plays[p] EXCEPT !.pc = "file", !.fd = n, !.path = path]]
    BY <1>4
  <2> DEFINE x == plays[p]
             one == [x EXCEPT !.pc = "file"]
             two == [one EXCEPT !.fd = n]
  <2> HIDE DEF x
  <2>2. [x EXCEPT !.pc = "file", !.fd = n, !.path = path] = [two EXCEPT !.path = path]
    OBVIOUS
  <2>3. one = [pc |-> "file", id |-> x.id, fd |-> x.fd, path |-> x.path, foreign |-> x.foreign]
    BY <1>4 DEF x
  <2> HIDE DEF one
  <2>4. two = [pc |-> "file", id |-> x.id, fd |-> n, path |-> x.path, foreign |-> x.foreign]
    BY <2>3
  <2> HIDE DEF two
  <2>5. [two EXCEPT !.path = path] = r
    BY <2>4 DEF x
  <2> QED
    BY <2>1, <2>2, <2>5, <1>5 DEF x
<1>7. /\ r = [pc |-> r.pc, id |-> r.id, fd |-> r.fd, path |-> r.path, foreign |-> r.foreign]
      /\ r.pc = "file" /\ r.fd = n /\ r.path = path /\ r.foreign \in BOOLEAN
  BY <1>4
<1> HIDE DEF r
<1>8. PlaysShape' /\ plays'[p] = r /\ \A q \in Handles : q # p => plays'[q] = plays[q]
  BY <1>1, <1>3, <1>4, <1>5, <1>6, <1>7, PlaySet
<1>9. StreamsInv'
  BY <1>1, <1>2, <1>3, <1>7, <1>8, StreamsKept
<1>10. FilesInv'
  <2>2. \A q \in Handles : plays'[q].pc = "file" /\ plays'[q].fd = -1 => plays'[q].path \notin Disk
    BY <1>1, <1>5, <1>7, <1>8 DEF FilesInv
  <2>3. ASSUME "descriptor" \notin mishaps', NEW q \in Handles, OpenFile(q)'
        PROVE  /\ plays'[q].path \in Disk /\ fds'[plays'[q].fd] = FileAt(plays'[q].path)
               /\ \A e \in Handles : OpenFile(e)' /\ plays'[e].fd = plays'[q].fd => e = q
    <3>1. \A e \in Handles : OpenFile(e) =>
            /\ plays[e].path \in Disk /\ fds[plays[e].fd] = FileAt(plays[e].path)
            /\ plays[e].fd \in 0 .. MaxFd
            /\ \A d \in Handles : OpenFile(d) /\ plays[d].fd = plays[e].fd => d = e
      BY <1>1, <1>2, <2>3, OpenFd DEF FilesInv
    <3>2. \A e \in Handles : OpenFile(e) => n # plays[e].fd
      <4>1. \A e \in Handles : OpenFile(e) => fds[plays[e].fd] # Unused /\ plays[e].fd # -1
        BY <3>1, FdIs DEF OpenFile
      <4> QED
        BY <4>1, <1>5
    <3>3. \A e \in Handles : e # p /\ OpenFile(e)' => OpenFile(e) /\ plays'[e] = plays[e]
      BY <1>8 DEF OpenFile
    <3>4. CASE q = p
      <4>1. n # -1
        BY <2>3, <3>4, <1>7, <1>8 DEF OpenFile
      <4>2. plays'[q].path \in Disk /\ fds'[plays'[q].fd] = FileAt(plays'[q].path)
        <5>1. plays'[q] = r /\ r.fd = n /\ r.path = path
          BY <3>4, <1>7, <1>8
        <5>2. path \in Disk /\ fds'[n] = FileAt(path)
          BY <4>1, <1>1, <1>5
        <5> QED
          BY <5>1, <5>2
      <4> QED
        BY <4>2, <3>2, <3>3, <3>4, <1>7, <1>8
    <3>5. CASE q # p
      <4>1. OpenFile(q) /\ plays'[q] = plays[q]
        BY <3>3, <3>5, <2>3
      <4>2. fds'[plays[q].fd] = fds[plays[q].fd]
        BY <4>1, <3>1, <3>2, <1>1, <1>5
      <4>3. \A e \in Handles : OpenFile(e)' /\ plays'[e].fd = plays[q].fd => e # p
        BY <4>1, <3>2, <1>7, <1>8
      <4> QED
        BY <4>1, <4>2, <4>3, <3>1, <3>3
    <3> QED
      BY <3>4, <3>5
  <2> QED
    BY <2>2, <2>3 DEF FilesInv
<1> QED
  BY <1>8, <1>9, <1>10 DEF PlayInv

-------------------------------------------------------------------------------
(* The players: DVB and reads *)
\* A player opens a service
LEMMA PlayOpenDvbKeepsPlays ==
  ASSUME PlayInv, DeviceInv, NEW p \in Handles, PlayOpenDvb(p)
  PROVE  PlayInv'
<1> DEFINE path == AuxObj(plays[p].id).objpath
<1>1. PlaysShape /\ StreamsInv /\ FilesInv /\ plays[p].pc = "stated"
  BY DEF PlayInv, PlayOpenDvb
<1>2. CASE Down("freed")
  BY <1>2, DownKeepsPlays
<1>3. CASE /\ DvbStream(p, path)
           /\ plays' = [plays EXCEPT ![p].pc = "dvb", ![p].path = path]
  <2> HIDE DEF path
  <2>1. /\ \A q \in Handles : q # p => streams'[q] = streams[q]
        /\ mishaps \subseteq mishaps' /\ device' = device /\ smap' = smap
        /\ streams'[p] # Closed
        /\ \/ Nulled(p, path)
           \/ \E i \in Instances : NameOf(i) = path /\ streams'[p] \in Opened /\ streams'[p].inst = i
    BY <1>3, OpeningKeepsDevice
  <2>2. /\ plays[p].foreign \in BOOLEAN /\ plays[p].fd \in -1 .. MaxFd
        /\ plays[p] = [pc |-> plays[p].pc, id |-> plays[p].id, fd |-> plays[p].fd,
                       path |-> plays[p].path, foreign |-> plays[p].foreign]
        /\ DOMAIN plays = Handles
    BY <1>1 DEF PlaysShape
  <2> DEFINE r == [pc |-> "dvb", id |-> plays[p].id, fd |-> plays[p].fd, path |-> path,
                   foreign |-> plays[p].foreign]
  <2>3. plays' = [plays EXCEPT ![p] = r]
    <3> DEFINE x == plays[p]
               one == [x EXCEPT !.pc = "dvb"]
    <3>1. [plays EXCEPT ![p].pc = "dvb", ![p].path = path]
            = [plays EXCEPT ![p] = [plays[p] EXCEPT !.pc = "dvb", !.path = path]]
      BY <2>2
    <3> HIDE DEF x
    <3>2. [x EXCEPT !.pc = "dvb", !.path = path] = [one EXCEPT !.path = path]
      OBVIOUS
    <3>3. one = [pc |-> "dvb", id |-> x.id, fd |-> x.fd, path |-> x.path, foreign |-> x.foreign]
      BY <2>2 DEF x
    <3> HIDE DEF one
    <3>4. [one EXCEPT !.path = path] = r
      BY <3>3 DEF x
    <3> QED
      BY <3>1, <3>2, <3>4, <1>3 DEF x
  <2>4. /\ r = [pc |-> r.pc, id |-> r.id, fd |-> r.fd, path |-> r.path, foreign |-> r.foreign]
        /\ r.pc = "dvb" /\ r.fd \in -1 .. MaxFd /\ r.path = path /\ r.foreign \in BOOLEAN
    BY <2>2
  <2> HIDE DEF r
  <2>5. PlaysShape' /\ plays'[p] = r /\ \A q \in Handles : q # p => plays'[q] = plays[q]
    BY <1>1, <2>1, <2>3, <2>4, PlaySet
  <2>6. FilesInv'
    <3>1. FilesHeld
      BY <1>3, OpeningKeepsDevice DEF FilesHeld
    <3>2. \A q \in Handles : plays'[q].pc = "file" => plays'[q] = plays[q]
      BY <2>4, <2>5
    <3> QED
      BY <1>1, <2>1, <3>1, <3>2, FilesKept
  <2>7. DOMAIN marks' = DOMAIN marks
    <3>1. Places = ToSet(TransponderPlaces(device)) /\ Places' = ToSet(TransponderPlaces(device'))
      <4>1. DeviceInv'
        BY <1>3, OpeningKeepsDevice
      <4> QED
        BY <4>1 DEF DeviceInv, DeviceShape
    <3> QED
      BY <3>1, <2>1 DEF Places
  <2>8. (\A i : NameOf(i)' = NameOf(i)) /\ \A n : Candidates(n)' = Candidates(n)
    BY <2>1, <2>7, SameDevice
  <2>9. /\ streams'[p].state = "open" => NameOf(streams'[p].inst) = path
        /\ streams'[p] = Null /\ "refused" \notin mishaps' => Candidates(path) = <<>>
    <3>1. streams \in [Handles -> {Closed, Null} \cup Opened]
      BY DEF DeviceInv, DeviceShape
    <3>2. CASE Nulled(p, path)
      <4>1. streams'[p] = Null /\ ("refused" \in mishaps' \/ Candidates(path) = <<>>)
        BY <3>1, <3>2 DEF Nulled
      <4>2. Null.state # "open"
        BY DEF Null
      <4> QED
        BY <4>1, <4>2
    <3>3. CASE \E i \in Instances : NameOf(i) = path /\ streams'[p] \in Opened /\ streams'[p].inst = i
      <4>1. streams'[p].state = "open" /\ streams'[p] # Null
        BY <3>3 DEF Opened, Null
      <4> QED
        BY <3>3, <4>1
    <3> QED
      BY <2>1, <3>2, <3>3
  <2>10. ASSUME NEW q \in Handles, plays'[q].pc = "dvb"
         PROVE  /\ streams'[q].state = "open" => NameOf(streams'[q].inst) = plays'[q].path
                /\ streams'[q] = Null /\ "refused" \notin mishaps' => Candidates(plays'[q].path) = <<>>
    <3>1. CASE q = p
      BY <3>1, <2>4, <2>5, <2>9
    <3>2. CASE q # p
      BY <3>2, <2>1, <2>5, <2>10, <1>1 DEF StreamsInv, IsOpen
    <3> QED
      BY <3>1, <3>2
  <2>11. StreamsInv'
    BY <2>8, <2>10 DEF StreamsInv, IsOpen, Null
  <2> QED
    BY <2>5, <2>6, <2>11 DEF PlayInv
<1> QED
  BY <1>2, <1>3 DEF PlayOpenDvb

\* A read
LEMMA ReadKeepsPlays ==
  ASSUME PlayInv, NEW p \in Handles, NEW b \in BOOLEAN, plays' = [plays EXCEPT ![p].foreign = b],
         UNCHANGED devvars
  PROVE  PlayInv' /\ \A q \in Handles : plays'[q].pc = plays[q].pc /\ plays'[q].path = plays[q].path
<1>1. PlaysShape /\ StreamsInv /\ FilesInv
  BY DEF PlayInv
<1>2. UNCHANGED dvbvars /\ mishaps' = mishaps /\ FilesHeld
  BY DEF devvars, FilesHeld
<1>3. device' = device /\ smap' = smap /\ DOMAIN marks' = DOMAIN marks /\ streams' = streams
  BY <1>2, DeviceStays
<1>4. /\ plays[p].pc \in {"idle", "stated", "file", "dvb"} /\ plays[p].fd \in -1 .. MaxFd
      /\ plays[p] = [pc |-> plays[p].pc, id |-> plays[p].id, fd |-> plays[p].fd,
                     path |-> plays[p].path, foreign |-> plays[p].foreign]
      /\ DOMAIN plays = Handles
      /\ (plays[p].pc = "dvb") <=> (streams[p] # Closed)
  BY <1>1 DEF PlaysShape
<1> DEFINE x == plays[p]
           r == [x EXCEPT !.foreign = b]
<1>5. plays' = [plays EXCEPT ![p] = r]
  OBVIOUS
<1> HIDE DEF x
<1>6. r = [pc |-> x.pc, id |-> x.id, fd |-> x.fd, path |-> x.path, foreign |-> b]
  BY <1>4 DEF x
<1> HIDE DEF r
<1>7. /\ r = [pc |-> r.pc, id |-> r.id, fd |-> r.fd, path |-> r.path, foreign |-> r.foreign]
      /\ r.pc = plays[p].pc /\ r.fd = plays[p].fd /\ r.path = plays[p].path /\ r.foreign \in BOOLEAN
  BY <1>6 DEF x
<1>11. /\ r.pc \in {"idle", "stated", "file", "dvb"} /\ r.fd \in -1 .. MaxFd
       /\ (r.pc = "dvb") <=> (streams'[p] # Closed)
  BY <1>3, <1>4, <1>7
<1>12. \A q \in Handles : q # p => streams'[q] = streams[q]
  BY <1>3
<1>8. PlaysShape' /\ plays'[p] = r /\ \A q \in Handles : q # p => plays'[q] = plays[q]
  BY <1>1, <1>5, <1>7, <1>11, <1>12, PlaySet
<1>9. \A q \in Handles : plays'[q].pc = plays[q].pc /\ plays'[q].fd = plays[q].fd /\ plays'[q].path = plays[q].path
  BY <1>7, <1>8
<1>10. StreamsInv' /\ FilesInv'
  BY <1>1, <1>2, <1>3, <1>9, StreamsKept, FilesKept
<1> QED
  BY <1>8, <1>9, <1>10 DEF PlayInv

\* A player reads its file
LEMMA PlayReadFileKeepsPlays ==
  ASSUME PlayInv, NEW p \in Handles, PlayReadFile(p)
  PROVE  PlayInv'
<1>1. CASE Down("count")
  BY <1>1, DownKeepsPlays
<1>2. CASE /\ \E b \in BOOLEAN : plays' = [plays EXCEPT ![p].foreign = b]
           /\ UNCHANGED devvars
  BY <1>2, ReadKeepsPlays
<1> QED
  BY <1>1, <1>2 DEF PlayReadFile

\* A player reads its service
LEMMA PlayReadDvbKeepsPlays ==
  ASSUME PlayInv, NEW p \in Handles, PlayReadDvb(p)
  PROVE  PlayInv'
<1>1. CASE Down("null")
  BY <1>1, DownKeepsPlays
<1>2. CASE plays' = plays /\ UNCHANGED devvars
  BY <1>2, OthersKeepPlays DEF devvars, FilesHeld
<1>3. CASE /\ \E packet \in Received(p) : plays' = [plays EXCEPT ![p].foreign = ~OfService(p, packet)]
           /\ UNCHANGED devvars
  <2>1. PICK packet \in Received(p) : plays' = [plays EXCEPT ![p].foreign = ~OfService(p, packet)]
    BY <1>3
  <2>2. (~OfService(p, packet)) \in BOOLEAN
    OBVIOUS
  <2> QED
    BY <1>3, <2>1, <2>2, ReadKeepsPlays
<1> QED
  BY <1>1, <1>2, <1>3 DEF PlayReadDvb

-------------------------------------------------------------------------------
(* The players: close, and every step *)
\* A player closes what it has open
LEMMA PlayCloseKeepsPlays ==
  ASSUME PlayInv, DeviceInv, NEW p \in Handles, PlayClose(p)
  PROVE  PlayInv'
<1>1. /\ PlaysShape /\ StreamsInv /\ FilesInv /\ plays' = [plays EXCEPT ![p] = NoPlay]
      /\ NoPlay.pc = "idle" /\ NoPlay.fd \in -1 .. MaxFd /\ NoPlay.foreign \in BOOLEAN
      /\ NoPlay = [pc |-> NoPlay.pc, id |-> NoPlay.id, fd |-> NoPlay.fd, path |-> NoPlay.path,
                   foreign |-> NoPlay.foreign]
  BY NoPlayIs, FdRange DEF PlayInv, PlayClose
<1>2. CASE /\ plays[p].pc = "file" /\ UNCHANGED dvbvars
           /\ IF plays[p].fd = -1 THEN UNCHANGED <<fds, mishaps>>
              ELSE Close(plays[p].fd, {FileAt(plays[p].path)})
  <2>1. device' = device /\ smap' = smap /\ DOMAIN marks' = DOMAIN marks /\ streams' = streams
    BY <1>2, DeviceStays
  <2>2. streams[p] = Closed
    BY <1>1, <1>2 DEF PlaysShape
  <2>3. PlaysShape' /\ plays'[p] = NoPlay /\ \A q \in Handles : q # p => plays'[q] = plays[q]
    BY <1>1, <2>1, <2>2, PlaySet
  <2>4. mishaps \subseteq mishaps'
    BY <1>2 DEF Close
  <2>5. StreamsInv'
    BY <1>1, <2>1, <2>3, <2>4, StreamsKept
  <2>6. /\ fds \in [0 .. MaxFd -> FdSet]
        /\ plays[p].fd # -1 => fds' = [fds EXCEPT ![plays[p].fd] = Unused]
        /\ plays[p].fd = -1 => fds' = fds
    BY <1>2 DEF Close, DeviceInv, DeviceShape
  <2>7. \A q \in Handles : plays'[q].pc = "file" => q # p /\ plays'[q] = plays[q]
    BY <1>1, <2>3
  <2>8. ASSUME "descriptor" \notin mishaps', NEW q \in Handles, q # p, OpenFile(q)
        PROVE  /\ plays[q].path \in Disk /\ fds'[plays[q].fd] = FileAt(plays[q].path)
               /\ \A e \in Handles : OpenFile(e) /\ plays[e].fd = plays[q].fd => e = q
    <3>1. "descriptor" \notin mishaps
      BY <2>4, <2>8
    <3>2. /\ plays[q].path \in Disk /\ fds[plays[q].fd] = FileAt(plays[q].path)
          /\ \A e \in Handles : OpenFile(e) /\ plays[e].fd = plays[q].fd => e = q
      BY <1>1, <2>8, <3>1 DEF FilesInv
    <3>3. plays[p].fd = -1 \/ plays[q].fd # plays[p].fd
      BY <3>2, <2>8, <1>2 DEF OpenFile
    <3>4. plays[q].fd \in 0 .. MaxFd
      BY <1>1, <2>8, OpenFd
    <3>5. fds'[plays[q].fd] = fds[plays[q].fd]
      BY <2>6, <3>3, <3>4
    <3> QED
      BY <3>2, <3>5
  <2>9. FilesInv'
    <3>1. \A q \in Handles : plays'[q].pc = "file" /\ plays'[q].fd = -1 => plays'[q].path \notin Disk
      BY <1>1, <2>7 DEF FilesInv
    <3>2. \A q \in Handles : OpenFile(q)' => q # p /\ OpenFile(q) /\ plays'[q] = plays[q]
      BY <2>7 DEF OpenFile
    <3> QED
      BY <3>1, <3>2, <2>8 DEF FilesInv
  <2> QED
    BY <2>3, <2>5, <2>9 DEF PlayInv
<1>3. CASE plays[p].pc = "dvb" /\ DvbFreeStream(p)
  <2>1. /\ \A q \in Handles : q # p => streams'[q] = streams[q]
        /\ streams'[p] = Closed /\ mishaps' = mishaps /\ device' = device /\ smap' = smap
    BY <1>3, ClosingKeepsDevice
  <2>2. PlaysShape' /\ plays'[p] = NoPlay /\ \A q \in Handles : q # p => plays'[q] = plays[q]
    BY <1>1, <2>1, PlaySet
  <2>3. DOMAIN marks' = DOMAIN marks
    <3>1. DeviceInv'
      BY <1>3, ClosingKeepsDevice
    <3> QED
      BY <3>1, <2>1 DEF DeviceInv, DeviceShape, Places
  <2>4. StreamsInv'
    BY <1>1, <2>1, <2>2, <2>3, StreamsKept
  <2>5. FilesInv'
    <3>1. FilesHeld
      BY <1>3, <2>1, ClosingKeepsDevice DEF FilesHeld
    <3> QED
      BY <1>1, <2>1, <2>2, <3>1, FilesKept
  <2> QED
    BY <2>2, <2>4, <2>5 DEF PlayInv
<1> QED
  BY <1>2, <1>3 DEF PlayClose

\* PlayInv is inductive, given DeviceInv
LEMMA NextKeepsPlays == DeviceInv /\ PlayInv /\ [Next]_vars => PlayInv'
<1> SUFFICES ASSUME DeviceInv, PlayInv, [Next]_vars PROVE PlayInv'
  OBVIOUS
<1>0. DeviceShape
  BY DEF DeviceInv
<1>1. CASE UNCHANGED vars
  BY <1>1, OthersKeepPlays DEF vars, devvars, FilesHeld
<1>2. CASE (\E c \in Controllers \cap active : Listing(c) \/ Fav(c)) \/ RootCount \/ RootId \/ Scanning
  BY <1>0, <1>2, ServingKeepsPlays
<1>3. CASE \E p \in Handles \cap active : Playing(p)
  <2>1. PICK p \in Handles : Playing(p)
    BY <1>3
  <2>2. PlayCloseFreed(p) => PlayInv'
    BY DownKeepsPlays DEF PlayCloseFreed
  <2> QED
    BY <1>0, <2>1, <2>2, PlayStatKeepsPlays, PlayOpenFileKeepsPlays, PlayOpenDvbKeepsPlays,
       PlayReadFileKeepsPlays, PlayReadDvbKeepsPlays, PlayCloseKeepsPlays DEF Playing
<1> QED
  BY <1>1, <1>2, <1>3 DEF Next

\* PlayInv holds at first
LEMMA PlaysStart == Init => PlayInv
<1> SUFFICES ASSUME Init PROVE PlayInv
  OBVIOUS
<1>1. plays = [p \in Handles |-> NoPlay]
  BY DEF Init
<1>2. streams = [h \in Handles |-> Closed]
  BY DEF Init, DeviceInit
<1>3. \A p \in Handles : plays[p] = NoPlay /\ streams[p] = Closed
  BY <1>1, <1>2
<1>4. /\ NoPlay.pc = "idle" /\ NoPlay.fd \in -1 .. MaxFd /\ NoPlay.foreign \in BOOLEAN
      /\ NoPlay = [pc |-> NoPlay.pc, id |-> NoPlay.id, fd |-> NoPlay.fd, path |-> NoPlay.path,
                   foreign |-> NoPlay.foreign]
  BY NoPlayIs, FdRange
<1>5. DOMAIN plays = Handles
  BY <1>1
<1>6. PlaysShape
  BY <1>3, <1>4, <1>5 DEF PlaysShape
<1>7. StreamsInv /\ FilesInv
  BY <1>3, <1>4, <1>5 DEF StreamsInv, FilesInv, OpenFile
<1> QED
  BY <1>6, <1>7 DEF PlayInv

-------------------------------------------------------------------------------
(* The listings *)
\* The record of a listing, and all of them
ListOk(l) ==
  /\ l = [pc |-> l.pc, query |-> l.query, index |-> l.index,
          todo |-> l.todo, shown |-> l.shown, disturbed |-> l.disturbed]
  /\ l.pc \in {"idle", "dir", "print", "meta", "done"}
AreLists(ls) == DOMAIN ls = Controllers /\ \A c \in Controllers : ListOk(ls[c])

\* A listing moves on
LEMMA ListPc ==
  ASSUME NEW l, ListOk(l), NEW pc \in {"idle", "dir", "print", "meta", "done"}
  PROVE  ListOk([l EXCEPT !.pc = pc])
<1> DEFINE r == [l EXCEPT !.pc = pc]
<1>1. r = [pc |-> pc, query |-> l.query, index |-> l.index,
           todo |-> l.todo, shown |-> l.shown, disturbed |-> l.disturbed]
  BY DEF ListOk
<1> HIDE DEF r
<1>2. ListOk(r)
  BY <1>1 DEF ListOk
<1> QED
  BY <1>2 DEF r

\* Any other field is set
LEMMA ListOther ==
  ASSUME NEW l, ListOk(l), NEW x
  PROVE  /\ ListOk([l EXCEPT !.query = x]) /\ ListOk([l EXCEPT !.index = x])
         /\ ListOk([l EXCEPT !.todo = x]) /\ ListOk([l EXCEPT !.shown = x])
         /\ ListOk([l EXCEPT !.disturbed = x])
<1> DEFINE query == [l EXCEPT !.query = x]
           index == [l EXCEPT !.index = x]
           todo == [l EXCEPT !.todo = x]
           shown == [l EXCEPT !.shown = x]
           disturbed == [l EXCEPT !.disturbed = x]
<1>1. /\ query = [pc |-> l.pc, query |-> x, index |-> l.index,
                  todo |-> l.todo, shown |-> l.shown, disturbed |-> l.disturbed]
      /\ index = [pc |-> l.pc, query |-> l.query, index |-> x,
                  todo |-> l.todo, shown |-> l.shown, disturbed |-> l.disturbed]
      /\ todo = [pc |-> l.pc, query |-> l.query, index |-> l.index,
                 todo |-> x, shown |-> l.shown, disturbed |-> l.disturbed]
      /\ shown = [pc |-> l.pc, query |-> l.query, index |-> l.index,
                  todo |-> l.todo, shown |-> x, disturbed |-> l.disturbed]
      /\ disturbed = [pc |-> l.pc, query |-> l.query, index |-> l.index,
                      todo |-> l.todo, shown |-> l.shown, disturbed |-> x]
      /\ l.pc \in {"idle", "dir", "print", "meta", "done"}
  BY DEF ListOk
<1> HIDE DEF query, index, todo, shown, disturbed
<1>2. ListOk(query)
  BY <1>1 DEF ListOk
<1>3. ListOk(index)
  BY <1>1 DEF ListOk
<1>4. ListOk(todo)
  BY <1>1 DEF ListOk
<1>5. ListOk(shown)
  BY <1>1 DEF ListOk
<1>6. ListOk(disturbed)
  BY <1>1 DEF ListOk
<1> QED
  BY <1>2, <1>3, <1>4, <1>5, <1>6 DEF query, index, todo, shown, disturbed

\* A controller that does not list
LEMMA NoLsIs == ListOk(NoLs)
<1>1. NoLs = [pc |-> NoLs.pc, query |-> NoLs.query, index |-> NoLs.index,
              todo |-> NoLs.todo, shown |-> NoLs.shown, disturbed |-> NoLs.disturbed]
  BY DEF NoLs
<1>2. NoLs.pc = "idle"
  BY DEF NoLs
<1> QED
  BY <1>1, <1>2 DEF ListOk

\* One listing changes
LEMMA ListPut ==
  ASSUME NEW ls, AreLists(ls), NEW c \in Controllers, NEW r, ListOk(r)
  PROVE  AreLists([ls EXCEPT ![c] = r])
  BY DEF AreLists

\* Listings that someone else disturbs
LEMMA Disturbed ==
  ASSUME AreLists(lists), NEW but, NEW change
  PROVE  AreLists(Disturb(but, change))
<1>1. \A c \in Controllers : ListOk(lists[c]) /\ ListOk([lists[c] EXCEPT !.disturbed = TRUE])
  BY ListOther DEF AreLists
<1>2. \A c \in Controllers : Disturb(but, change)[c] \in {lists[c], [lists[c] EXCEPT !.disturbed = TRUE]}
  BY DEF Disturb
<1>3. \A c \in Controllers : ListOk(Disturb(but, change)[c])
  BY <1>1, <1>2
<1>4. DOMAIN Disturb(but, change) = Controllers
  BY DEF Disturb
<1> QED
  BY <1>3, <1>4 DEF AreLists

\* The fields that the steps set
LEMMA TwoFields ==
  ASSUME NEW ls, NEW c, NEW x, NEW y
  PROVE  [ls EXCEPT ![c].index = x, ![c].todo = y]
           = [ls EXCEPT ![c] = [[ls[c] EXCEPT !.index = x] EXCEPT !.todo = y]]
  OBVIOUS
\* The same for three of them
LEMMA ThreeFields ==
  ASSUME NEW ls, NEW c, NEW x, NEW y, NEW z
  PROVE  [ls EXCEPT ![c].pc = x, ![c].todo = y, ![c].shown = z]
           = [ls EXCEPT ![c] = [[[ls[c] EXCEPT !.pc = x] EXCEPT !.todo = y] EXCEPT !.shown = z]]
  OBVIOUS

-------------------------------------------------------------------------------
(* The requests in progress *)
\* The directory that a message is filled with; its controller is still there
Gens == [at : Controllers, room : 1 .. PerMessage, step : {"count", "id"}]
GenShape == gen \in Gens \cup {NoGen} /\ (gen # NoGen => gen.at \in active)
\* The inductive invariant of the requests
RequestInv == GenShape /\ AreLists(lists)

\* A request in progress
LEMMA GenIs ==
  ASSUME GenShape, gen.step \in {"count", "id"}
  PROVE  gen \in Gens /\ gen.at \in Controllers /\ gen.at \in active
<1>1. NoGen.step = "none"
  BY DEF NoGen
<1>2. gen # NoGen
  BY <1>1
<1> QED
  BY <1>2 DEF GenShape, Gens

\* An entry is put into a message
LEMMA EntryKeeps ==
  ASSUME RequestInv, gen.step \in {"count", "id"}, NEW ids, Entry(ids), active' = active
  PROVE  RequestInv'
<1>1. gen \in Gens /\ gen.at \in Controllers /\ gen.at \in active /\ AreLists(lists)
  BY GenIs DEF RequestInv
<1> DEFINE c == gen.at
           l == lists[c]
           r == [[l EXCEPT !.index = l.index + 1] EXCEPT !.todo = l.todo \o ids]
<1>2. ListOk(l)
  BY <1>1 DEF AreLists
<1> HIDE DEF l
<1>3. ListOk([l EXCEPT !.index = l.index + 1])
  BY <1>2, ListOther
<1>4. ListOk(r)
  BY <1>3, ListOther
<1> HIDE DEF r
<1>5. lists' = [lists EXCEPT ![c] = r]
  <2>1. lists' = [lists EXCEPT ![c].index = l.index + 1, ![c].todo = l.todo \o ids]
    BY DEF Entry, l
  <2> HIDE DEF c
  <2> QED
    BY <2>1, TwoFields DEF r, l
<1>6. AreLists(lists)'
  BY <1>1, <1>4, <1>5, ListPut DEF AreLists
<1>7. GenShape'
  <2>1. CASE gen.room = 1
    BY <2>1 DEF Entry, GenShape
  <2>2. CASE gen.room # 1
    <3>1. gen' = [gen EXCEPT !.room = gen.room - 1, !.step = "count"]
      BY <2>2 DEF Entry
    <3>2. gen.room - 1 \in 1 .. PerMessage
      <4>1. gen.room \in 1 .. PerMessage
        BY <1>1 DEF Gens
      <4>2. PerMessage \in Nat \ {0}
        BY ServerAssumption
      <4> QED
        BY <4>1, <4>2, <2>2
    <3> DEFINE one == [gen EXCEPT !.room = gen.room - 1]
    <3>3. one \in Gens /\ one.at = gen.at
      BY <1>1, <3>2 DEF Gens
    <3>4. gen' = [one EXCEPT !.step = "count"]
      BY <3>1
    <3> HIDE DEF one
    <3>5. gen' \in Gens /\ gen'.at = gen.at
      BY <3>3, <3>4 DEF Gens
    <3> QED
      BY <1>1, <3>5 DEF GenShape, Gens
  <2> QED
    BY <2>1, <2>2
<1> QED
  BY <1>6, <1>7 DEF RequestInv

\* A message is answered
LEMMA RespondKeeps ==
  ASSUME RequestInv, gen.step \in {"count", "id"}, RespondDir
  PROVE  RequestInv'
<1>1. gen.at \in Controllers /\ AreLists(lists)
  BY GenIs DEF RequestInv
<1> DEFINE c == gen.at
           r == [lists[c] EXCEPT !.pc = Printing(lists[c].todo)]
<1>2. ListOk(r)
  BY <1>1, ListPc DEF AreLists, Printing
<1>3. lists' \in {lists, [lists EXCEPT ![c] = r]}
  BY DEF RespondDir
<1> HIDE DEF r, c
<1>4. AreLists(lists')
  BY <1>1, <1>2, <1>3, ListPut DEF c
<1>5. gen' = NoGen
  BY DEF RespondDir
<1> QED
  BY <1>4, <1>5 DEF RequestInv, GenShape, AreLists

\* The generators of the root directory
LEMMA RootKeepsRequests ==
  ASSUME RequestInv, RootCount \/ RootId
  PROVE  RequestInv'
<1>1. /\ gen.step \in {"count", "id"} /\ active' = active
  BY DEF RootCount, RootId, Down
<1>2. CASE UNCHANGED <<gen, lists>>
  BY <1>1, <1>2 DEF RequestInv, GenShape, AreLists
<1>3. CASE RespondDir
  BY <1>1, <1>3, RespondKeeps
<1>4. CASE \E ids : Entry(ids)
  BY <1>1, <1>4, EntryKeeps
<1>5. CASE gen' = [gen EXCEPT !.step = "id"] /\ UNCHANGED lists
  <2>1. gen \in Gens /\ gen.at \in active /\ gen.at \in Controllers
    BY <1>1, GenIs DEF RequestInv
  <2>2. gen' \in Gens /\ gen'.at = gen.at
    BY <1>5, <2>1 DEF Gens
  <2> QED
    BY <1>1, <1>5, <2>1, <2>2 DEF RequestInv, GenShape, AreLists
<1>6. RootCount => UNCHANGED <<gen, lists>> \/ RespondDir \/ (\E ids : Entry(ids))
                   \/ (gen' = [gen EXCEPT !.step = "id"] /\ UNCHANGED lists)
  BY DEF RootCount, Down
<1>7. RootId => UNCHANGED <<gen, lists>> \/ \E ids : Entry(ids)
  BY DEF RootId, Down
<1> QED
  BY <1>2, <1>3, <1>4, <1>5, <1>6, <1>7

\* A controller lists
LEMMA ListingKeepsRequests ==
  ASSUME RequestInv, NEW c \in Controllers \cap active, Listing(c)
  PROVE  RequestInv'
<1>1. AreLists(lists) /\ GenShape /\ ListOk(lists[c])
  BY DEF RequestInv, AreLists
<1>2. CASE LsQuery(c)
  <2>1. PICK q \in Queries :
          lists' = [Disturb(c, q # querystr) EXCEPT ![c] = [NoLs EXCEPT !.pc = "dir", !.query = q]]
    BY <1>2 DEF LsQuery
  <2> DEFINE base == Disturb(c, q # querystr)
             one == [NoLs EXCEPT !.pc = "dir"]
  <2>2. AreLists(base)
    BY <1>1, Disturbed
  <2>3. ListOk(one)
    BY NoLsIs, ListPc
  <2>4. [NoLs EXCEPT !.pc = "dir", !.query = q] = [one EXCEPT !.query = q]
    OBVIOUS
  <2> HIDE DEF base, one
  <2>5. ListOk([one EXCEPT !.query = q])
    BY <2>3, ListOther
  <2>6. lists' = [base EXCEPT ![c] = [one EXCEPT !.query = q]]
    BY <2>1, <2>4 DEF base
  <2>7. AreLists(lists')
    BY <2>2, <2>5, <2>6, ListPut
  <2>8. gen' = gen /\ active' = active
    BY <1>2 DEF LsQuery
  <2> QED
    BY <1>1, <2>7, <2>8 DEF RequestInv, GenShape, AreLists
<1>3. CASE LsRead(c)
  <2>1. gen' = [at |-> c, room |-> PerMessage, step |-> "count"] /\ lists' = lists /\ active' = active
    BY <1>3 DEF LsRead
  <2>2. PerMessage \in 1 .. PerMessage
    <3>1. PerMessage \in Nat \ {0}
      BY ServerAssumption
    <3> QED
      BY <3>1
  <2>3. gen' \in Gens /\ gen'.at = c
    BY <2>1, <2>2 DEF Gens
  <2> QED
    BY <1>1, <2>1, <2>3 DEF RequestInv, GenShape, AreLists
<1>4. CASE LsStat(c)
  <2>1. lists' = [lists EXCEPT ![c] = [lists[c] EXCEPT !.pc = "meta"]] /\ gen' = gen /\ active' = active
    BY <1>4 DEF LsStat
  <2>2. AreLists(lists')
    BY <1>1, <2>1, ListPc, ListPut
  <2> QED
    BY <1>1, <2>1, <2>2 DEF RequestInv, GenShape, AreLists
<1>5. CASE LsMeta(c)
  <2> DEFINE id == Head(lists[c].todo)
             left == Tail(lists[c].todo)
             all == Append(lists[c].shown, id)
             one == [lists[c] EXCEPT !.pc = Printing(left)]
             two == [one EXCEPT !.todo = left]
  <2>1. gen' = gen /\ active' = active
    BY <1>5 DEF LsMeta
  <2>2. CASE lists' = [lists EXCEPT ![c].pc = "done"]
    <3>1. lists' = [lists EXCEPT ![c] = [lists[c] EXCEPT !.pc = "done"]]
      BY <2>2
    <3>2. AreLists(lists')
      BY <1>1, <3>1, ListPc, ListPut
    <3> QED
      BY <1>1, <2>1, <3>2 DEF RequestInv, GenShape, AreLists
  <2>3. CASE lists' = [lists EXCEPT ![c].pc = Printing(left), ![c].todo = left, ![c].shown = all]
    <3>1. ListOk(one)
      BY <1>1, ListPc DEF Printing
    <3> HIDE DEF all, left
    <3>2. lists' = [lists EXCEPT ![c] = [two EXCEPT !.shown = all]]
      BY <2>3
    <3> HIDE DEF one
    <3>3. ListOk(two)
      BY <3>1, ListOther
    <3> HIDE DEF two
    <3>4. ListOk([two EXCEPT !.shown = all])
      BY <3>3, ListOther
    <3>5. AreLists(lists')
      BY <1>1, <3>2, <3>4, ListPut
    <3> QED
      BY <1>1, <2>1, <3>5 DEF RequestInv, GenShape, AreLists
  <2> QED
    BY <1>5, <2>2, <2>3 DEF LsMeta
<1> QED
  BY <1>2, <1>3, <1>4, <1>5 DEF Listing

\* A controller changes the favourites
LEMMA FavKeepsRequests ==
  ASSUME RequestInv, NEW c \in Controllers, Fav(c)
  PROVE  RequestInv'
<1>1. AreLists(lists) /\ GenShape /\ gen' = gen /\ active' = active
  BY DEF RequestInv, Fav
<1>2. PICK words \in Commands :
        FavAdd(c, words) \/ FavDel(c, words) \/ FavSet(c, words) \/ FavSetNone(c, words)
  BY DEF Fav
<1>3. \E change : lists' = [Disturb(c, change) EXCEPT ![c] = NoLs]
  BY <1>2 DEF FavAdd, FavDel, FavSet, FavSetNone, FavWrites
<1>4. AreLists(lists')
  <2>1. PICK change : lists' = [Disturb(c, change) EXCEPT ![c] = NoLs]
    BY <1>3
  <2>2. AreLists(Disturb(c, change))
    BY <1>1, Disturbed
  <2> QED
    BY <2>1, <2>2, NoLsIs, ListPut
<1> QED
  BY <1>1, <1>4 DEF RequestInv, GenShape, AreLists

\* RequestInv is inductive
LEMMA NextKeepsRequests == RequestInv /\ [Next]_vars => RequestInv'
<1> SUFFICES ASSUME RequestInv, [Next]_vars PROVE RequestInv'
  OBVIOUS
<1>1. CASE UNCHANGED <<gen, lists, active>>
  BY <1>1 DEF RequestInv, GenShape, AreLists
<1>2. CASE UNCHANGED vars
  BY <1>1, <1>2 DEF vars
<1>3. CASE \E c \in Controllers \cap active : Listing(c) \/ Fav(c)
  BY <1>3, ListingKeepsRequests, FavKeepsRequests
<1>4. CASE RootCount \/ RootId
  BY <1>4, RootKeepsRequests
<1>5. CASE Scanning
  <2>1. lists' = Disturb(None, Changes) /\ gen' = gen /\ active' = active
    BY <1>5 DEF Scanning
  <2>2. AreLists(lists')
    BY <2>1, Disturbed DEF RequestInv
  <2> QED
    BY <2>1, <2>2 DEF RequestInv, GenShape, AreLists
<1>6. CASE \E p \in Handles \cap active : Playing(p)
  BY <1>1, <1>6 DEF Playing, PlayStat, PlayOpenFile, PlayOpenDvb, PlayReadFile, PlayReadDvb, PlayClose,
                    PlayCloseFreed, Down
<1> QED
  BY <1>2, <1>3, <1>4, <1>5, <1>6 DEF Next

\* RequestInv holds at first
LEMMA RequestsStart == Init => RequestInv
<1> SUFFICES ASSUME Init PROVE RequestInv
  OBVIOUS
<1>1. gen = NoGen /\ lists = [c \in Controllers |-> NoLs]
  BY DEF Init
<1> QED
  BY <1>1, NoLsIs DEF RequestInv, GenShape, AreLists

-------------------------------------------------------------------------------
(* The names, and the tables that the server needs *)
\* The query, the name of the favourites, who blocks the server, and why it
\* has ended
NamesShape ==
  /\ querystr \in Queries /\ favid \in Seq(STRING)
  /\ blocked \in Handles \cup {None} /\ (gen = NoGen \/ blocked = None)
  /\ down \in {"none", "exit", "count", "null", "freed"}

\* A shorter name leaves the tail of the longer one behind
LEMMA NameSet ==
  ASSUME NEW old \in Seq(STRING), NEW new \in Seq(STRING)
  PROVE  new \o SubSeq(old, Len(new) + 1, Len(old)) \in Seq(STRING)
<1>1. Len(old) \in Nat /\ Len(new) \in Nat
  BY LenProperties
<1>2. SubSeq(old, Len(new) + 1, Len(old)) \in Seq(STRING)
  <2>1. CASE Len(new) <= Len(old)
    <3>1. Len(new) + 1 \in 1 .. Len(old) + 1 /\ Len(old) \in (Len(new) + 1) - 1 .. Len(old)
      BY <1>1, <2>1
    <3> QED
      BY <3>1, SubSeqProperties
  <2>2. CASE ~(Len(new) <= Len(old))
    <3>1. SubSeq(old, Len(new) + 1, Len(old)) = <<>>
      BY <1>1, <2>2
    <3> QED
      BY <3>1
  <2> QED
    BY <2>1, <2>2
<1> QED
  BY <1>2, ConcatProperties

\* A controller changes the favourites
LEMMA FavKeepsNames ==
  ASSUME NamesShape, NEW c, Fav(c)
  PROVE  NamesShape'
<1>1. gen' = gen /\ blocked' = blocked /\ down' = down
  BY DEF Fav
<1>2. PICK words \in Commands :
        FavAdd(c, words) \/ FavDel(c, words) \/ FavSet(c, words) \/ FavSetNone(c, words)
  BY DEF Fav
<1>3. querystr' = querystr
  BY <1>2 DEF FavAdd, FavDel, FavSet, FavSetNone, FavWrites, globals
<1>4. favid' = favid \/ favid' = <<>> \/ FavSet(c, words)
  BY <1>2 DEF FavAdd, FavDel, FavSetNone, FavWrites, globals
<1>5. ASSUME FavSet(c, words) PROVE favid' \in Seq(STRING)
  <2>1. Len(words) = 3 /\ favid' = words[3] \o SubSeq(favid, Len(words[3]) + 1, Len(favid))
    BY <1>5 DEF FavSet
  <2>2. words[3] \in Seq(STRING)
    BY <2>1, CommandAssumption
  <2> QED
    BY <2>1, <2>2, NameSet DEF NamesShape
<1>6. favid' \in Seq(STRING)
  <2>1. <<>> \in Seq(STRING) /\ favid \in Seq(STRING)
    BY EmptySeq DEF NamesShape
  <2> QED
    BY <1>4, <1>5, <2>1
<1> QED
  BY <1>1, <1>3, <1>6 DEF NamesShape

\* A controller lists
LEMMA ListingKeepsNames ==
  ASSUME NamesShape, NEW c, Listing(c)
  PROVE  NamesShape'
<1>1. CASE LsQuery(c)
  BY <1>1 DEF LsQuery, NamesShape
<1>2. CASE LsRead(c)
  BY <1>2 DEF LsRead, NamesShape, globals, Free
<1>3. CASE LsStat(c) \/ LsMeta(c)
  BY <1>3 DEF LsStat, LsMeta, NamesShape, globals
<1> QED
  BY <1>1, <1>2, <1>3 DEF Listing

\* The generators of the root directory
LEMMA RootKeepsNames ==
  ASSUME NamesShape, RootCount \/ RootId
  PROVE  NamesShape'
<1>1. gen # NoGen
  BY DEF RootCount, RootId, NoGen
<1>2. /\ blocked' = blocked /\ UNCHANGED globals
      /\ down' = down \/ down' = "exit"
  BY DEF RootCount, RootId, Down
<1> QED
  BY <1>1, <1>2 DEF NamesShape, globals

\* A player steps
LEMMA PlayingKeepsNames ==
  ASSUME NamesShape, NEW p \in Handles, Playing(p)
  PROVE  NamesShape'
<1>1. ASSUME NEW why \in {"exit", "count", "null", "freed"}, Down(why) PROVE NamesShape'
  BY <1>1 DEF Down, NamesShape, globals
<1>2. CASE UNCHANGED <<globals, gen, blocked, down>>
  BY <1>2 DEF NamesShape, globals
<1>3. CASE PlayStat(p) \/ PlayOpenFile(p) \/ PlayClose(p)
  BY <1>2, <1>3 DEF PlayStat, PlayOpenFile, PlayClose
<1>4. CASE PlayOpenDvb(p) \/ PlayReadFile(p) \/ PlayCloseFreed(p)
  BY <1>1, <1>2, <1>4 DEF PlayOpenDvb, PlayReadFile, PlayCloseFreed
<1>5. CASE PlayReadDvb(p)
  <2>1. CASE Down("null")
    BY <1>1, <2>1
  <2>2. CASE UNCHANGED <<globals, gen, down>> /\ blocked' \in {p, blocked} /\ gen = NoGen
    BY <2>2 DEF NamesShape, globals
  <2> QED
    BY <1>5, <2>1, <2>2 DEF PlayReadDvb, Free
<1> QED
  BY <1>3, <1>4, <1>5 DEF Playing

\* NamesShape is inductive
LEMMA NextKeepsNames == NamesShape /\ [Next]_vars => NamesShape'
<1> SUFFICES ASSUME NamesShape, [Next]_vars PROVE NamesShape'
  OBVIOUS
<1>1. CASE UNCHANGED <<globals, gen, blocked, down>>
  BY <1>1 DEF NamesShape, globals
<1>2. CASE UNCHANGED vars
  BY <1>1, <1>2 DEF vars
<1>3. CASE Scanning
  BY <1>1, <1>3 DEF Scanning
<1> QED
  BY <1>2, <1>3, FavKeepsNames, ListingKeepsNames, RootKeepsNames, PlayingKeepsNames DEF Next

\* NamesShape holds at first
LEMMA NamesStart == Init => NamesShape
<1> SUFFICES ASSUME Init PROVE NamesShape
  OBVIOUS
<1>1. querystr = NoQuery /\ favid = <<>> /\ gen = NoGen /\ blocked = None /\ down = "none"
  BY DEF Init
<1>2. NoQuery \in Queries
  BY ServerAssumption
<1>3. <<>> \in Seq(STRING)
  BY EmptySeq
<1> QED
  BY <1>1, <1>2, <1>3 DEF NamesShape

\* The tables that the server needs are there but while a scanner makes them anew
Serving == active \cap (Controllers \cup Handles) # {}

\* The scanner drops and makes them, or meets a lock
LEMMA ScanKeepsTables ==
  ASSUME TablesThere, ScannerShape, Scanning
  PROVE  TablesThere'
<1> SUFFICES ASSUME refused' = {} PROVE TablesThere'
  BY DEF TablesThere
<1>1. PICK lock : ScanStep(lock) /\ active' = active
  BY DEF Scanning
<1>2. ASSUME NEW next, Refused(lock, next) PROVE FALSE
  BY <1>2 DEF Refused
<1>3. refused = {}
  BY <1>1, <1>2 DEF ScanStep, ScanStart, DropObj, DropFav, CreateObj, CreateFav, Tag, Commit
<1>4. /\ scanner.pc \in {"dropfav", "createobj"} => ~hasObj
      /\ scanner.pc = "createfav" => hasObj
      /\ Serving /\ scanner.pc \in {"none", "dropobj", "scan", "done"} => hasObj /\ hasFav
  BY <1>3 DEF TablesThere, Serving
<1>5. /\ Serving' = Serving
      /\ \A pc : Goto(pc) => scanner'.pc = pc
  BY <1>1 DEF Serving, Goto, ScannerShape
<1> HIDE DEF Serving
<1> SUFFICES /\ scanner'.pc \in {"dropfav", "createobj"} => ~hasObj'
             /\ scanner'.pc = "createfav" => hasObj'
             /\ Serving /\ scanner'.pc \in {"none", "dropobj", "scan", "done"} => hasObj' /\ hasFav'
  BY <1>5 DEF TablesThere, Serving
<1>6. CASE ScanStart(lock)
  <2>1. PICK append \in BOOLEAN : \E prepared, objid :
          scanner' = [pc |-> IF append THEN "scan" ELSE "dropobj", append |-> append,
                      prepared |-> prepared, objid |-> objid, todo |-> Files, pending |-> <<>>]
    BY <1>6 DEF ScanStart
  <2>2. scanner'.pc \in {"scan", "dropobj"}
    BY <2>1
  <2>3. scanner.pc \in {"none", "done"} /\ hasObj' = hasObj /\ hasFav' = hasFav
    BY <1>6 DEF ScanStart, dbvars
  <2> QED
    BY <2>2, <2>3, <1>4
<1>7. CASE DropObj(lock)
  <2>1. scanner'.pc = "dropfav" /\ hasObj' = FALSE
    BY <1>2, <1>5, <1>7 DEF DropObj
  <2> QED
    BY <2>1
<1>8. CASE DropFav(lock)
  <2>1. scanner.pc = "dropfav" /\ scanner'.pc = "createobj" /\ hasObj' = hasObj
    BY <1>2, <1>5, <1>8 DEF DropFav
  <2> QED
    BY <2>1, <1>4
<1>9. CASE CreateObj(lock)
  <2>1. /\ scanner.pc = "createobj" /\ hasObj' = TRUE
        /\ Goto(IF hasObj THEN "scan" ELSE "createfav")
    BY <1>2, <1>9 DEF CreateObj
  <2>2. scanner'.pc = "createfav"
    BY <2>1, <1>4, <1>5
  <2> QED
    BY <2>1, <2>2
<1>10. CASE CreateFav(lock)
  <2>1. scanner.pc = "createfav" /\ scanner'.pc = "scan" /\ hasFav' = TRUE /\ hasObj' = hasObj
    BY <1>2, <1>5, <1>10 DEF CreateFav
  <2> QED
    BY <2>1, <1>4
<1>11. CASE Tag(lock)
  <2>1. scanner.pc = "scan" /\ hasObj' = hasObj /\ hasFav' = hasFav
    BY <1>11 DEF Tag, dbvars
  <2>2. scanner'.pc = "scan"
    <3>1. PICK f \in scanner.todo :
            \E id, pending : scanner' = [scanner EXCEPT !.objid = id, !.todo = @ \ {f}, !.pending = pending]
      BY <1>11 DEF Tag
    <3> QED
      BY <2>1, <3>1 DEF ScannerShape
  <2> QED
    BY <2>1, <2>2, <1>4
<1>12. CASE Commit(lock)
  <2>1. scanner.pc = "scan" /\ hasObj' = hasObj /\ hasFav' = hasFav
    BY <1>12 DEF Commit
  <2>2. scanner'.pc = "done"
    BY <1>12 DEF Commit, ScannerShape
  <2> QED
    BY <2>1, <2>2, <1>4
<1> QED
  BY <1>1, <1>6, <1>7, <1>8, <1>9, <1>10, <1>11, <1>12 DEF ScanStep

\* TablesThere is inductive, given DbInv
LEMMA NextKeepsTables == TablesThere /\ DbInv /\ [Next]_vars => TablesThere'
<1> SUFFICES ASSUME TablesThere, DbInv, [Next]_vars PROVE TablesThere'
  OBVIOUS
<1>1. CASE active' = active /\ FavsOnly
  BY <1>1 DEF TablesThere, FavsOnly, scanvars
<1>2. CASE UNCHANGED vars
  BY <1>1, <1>2 DEF vars, dbvars, scanvars, FavsOnly
<1>3. CASE Scanning
  BY <1>3, ScanKeepsTables DEF DbInv
<1>4. ASSUME NEW c, NEW p, Listing(c) \/ Fav(c) \/ RootCount \/ RootId \/ Playing(p)
      PROVE  TablesThere'
  <2>1. active' = active
    <3>1. Listing(c) \/ Fav(c) => active' = active
      BY DEF Listing, LsQuery, LsRead, LsStat, LsMeta, Fav
    <3>2. RootCount \/ RootId => active' = active
      BY DEF RootCount, RootId, Down
    <3>3. Playing(p) => active' = active
      BY DEF Playing, PlayStat, PlayOpenFile, PlayOpenDvb, PlayReadFile, PlayReadDvb, PlayClose,
             PlayCloseFreed, Down
    <3> QED
      BY <1>4, <3>1, <3>2, <3>3
  <2> QED
    BY <1>1, <1>4, <2>1, ServerWritesFavs
<1> QED
  BY <1>2, <1>3, <1>4 DEF Next

\* TablesThere holds at first
LEMMA TablesStart == Init => TablesThere
<1> SUFFICES ASSUME Init PROVE TablesThere
  OBVIOUS
<1>1. PICK w \in Worlds : hasObj = w.tables /\ hasFav = w.tables /\ active = w.active
  BY DEF Init
<1>2. scanner.pc = "none"
  BY DEF Init, Asleep
<1>3. w.tables \in BOOLEAN /\ (~w.tables => w.active \subseteq {"scan"})
  BY WorldAssumption
<1>4. "scan" \notin Controllers \cup Handles
  BY ServerAssumption
<1> QED
  BY <1>1, <1>2, <1>3, <1>4 DEF TablesThere

-------------------------------------------------------------------------------
(* The whole server: types, and what players read *)
\* The inductive invariant of the server
ServerInv ==
  DbInv /\ DeviceInv /\ PlayInv /\ RequestInv /\ NamesShape /\ TablesThere

\* ServerInv holds always
LEMMA ServerHolds == Spec => []ServerInv
<1>1. Init => ServerInv
  BY DbStarts, DeviceStarts, PlaysStart, RequestsStart, NamesStart, TablesStart DEF ServerInv
<1>2. ServerInv /\ [Next]_vars => ServerInv'
  BY NextKeepsDb, NextKeepsDevice, NextKeepsPlays, NextKeepsRequests, NextKeepsNames, NextKeepsTables
  DEF ServerInv
<1> QED
  BY <1>1, <1>2, PTL DEF Spec

\* DeviceShape has the types of the device
LEMMA DeviceTyped ==
  ASSUME DeviceShape
  PROVE  DeviceTypeOK
<1>1. /\ tuned \in [AllFronts -> DOMAIN marks \cup {Nowhere}]
      /\ locked \in [AllFronts -> DOMAIN marks \cup {Nowhere}]
  BY DEF DeviceShape, Places
<1>2. /\ \A f \in AllFronts : \A p \in DOMAIN refs[f] : refs[f][p] \in Nat
      /\ \A f \in AllFronts : \A p \in DOMAIN refs[f] : handle[f][p] \in -1 .. MaxFd
  <2>1. \A f \in AllFronts : DOMAIN refs[f] = AllPids
    BY FrontsKept
  <2> QED
    BY <2>1 DEF DeviceShape
<1>6. DOMAIN fds = 0 .. MaxFd /\ \A n \in DOMAIN fds : fds[n].of \in {"none", "stdin", "file", "filter"}
  BY FilterIs DEF DeviceShape
<1>3. \A p \in DOMAIN marks : \A i \in marks[p] : i.at = p /\ i.clone \in 0 .. MaxClones
  <2>1. \A i \in Instances : i.clone \in 0 .. MaxClones
    BY DEF Instances
  <2> QED
    BY <2>1 DEF DeviceShape, Places
<1>4. \A h \in Handles : streams[h].state \in {"closed", "null", "open"}
  <2>1. \A h \in Handles : streams[h] \in StreamSet
    BY DEF DeviceShape, StreamSet
  <2> QED
    BY <2>1, StreamIs
<1>5. /\ \A f \in AllFronts : \A i \in served[f] : FrontOf(i.at) = f
      /\ deleted \subseteq DOMAIN marks /\ opens \in 0 .. MaxOpens
      /\ mishaps \subseteq {"refused", "interrupted", "lost", "cloned", "strayed", "unfiltered",
                            "deaf", "descriptor", "tail"}
  BY DEF DeviceShape, Places, Mishaps
<1> QED
  BY <1>1, <1>2, <1>3, <1>4, <1>5, <1>6 DEF DeviceTypeOK

\* Every variable of the server, the database and the device keeps its type
\* (src/serve.c, src/scan.c, src/dvb/Device.cpp).
THEOREM ServerTypeCorrect == Spec => []TypeOK
<1>1. ServerInv => TypeOK
  <2> SUFFICES ASSUME ServerInv PROVE TypeOK
    OBVIOUS
  <2>1. DeviceTypeOK /\ DbTypeOK
    BY DeviceTyped, DbInvGives DEF ServerInv, DeviceInv
  <2>2. /\ querystr \in Queries /\ favid \in Seq(STRING)
        /\ blocked \in Handles \cup {None} /\ (gen = NoGen \/ blocked = None)
        /\ down \in {"none", "exit", "count", "null", "freed"}
    BY DEF ServerInv, NamesShape
  <2>4. /\ gen.at \in Controllers \cup {None} /\ gen.room \in 0 .. PerMessage
        /\ gen.step \in {"none", "count", "id"}
    <3>1. PerMessage \in Nat \ {0}
      BY ServerAssumption
    <3>2. CASE gen \in Gens
      <4>1. gen.at \in Controllers /\ gen.room \in 1 .. PerMessage /\ gen.step \in {"count", "id"}
        BY <3>2 DEF Gens
      <4> QED
        BY <3>1, <4>1
    <3>3. CASE gen = NoGen
      BY <3>1, <3>3 DEF NoGen
    <3> QED
      BY <3>2, <3>3 DEF ServerInv, RequestInv, GenShape
  <2>5. \A c \in Controllers : lists[c].pc \in {"idle", "dir", "print", "meta", "done"}
    BY DEF ServerInv, RequestInv, AreLists, ListOk
  <2>6. \A p \in Handles :
          /\ plays[p].pc \in {"idle", "stated", "file", "dvb"} /\ plays[p].fd \in -1 .. MaxFd
          /\ (plays[p].pc = "dvb") <=> (streams[p] # Closed)
    BY DEF ServerInv, PlayInv, PlaysShape
  <2> QED
    BY <2>1, <2>2, <2>4, <2>5, <2>6 DEF TypeOK
<1> QED
  BY <1>1, ServerHolds, PTL

-----------------------------------------------------------------------------
(* What a player reads *)

\* A descriptor leads to the file of its player
LEMMA OwnFile ==
  ASSUME ServerInv, NEW p \in Handles, OpenFile(p), "descriptor" \notin mishaps
  PROVE  fds[plays[p].fd] = FileAt(plays[p].path) /\ fds[plays[p].fd].of = "file"
<1>1. fds[plays[p].fd] = FileAt(plays[p].path)
  BY DEF ServerInv, PlayInv, FilesInv
<1> QED
  BY <1>1, FdIs

\* What the demuxer of a frontend hands over, if it is wired to the frontend
LEMMA HandedIs ==
  ASSUME DeviceShape, NEW f \in AllFronts, Hears(f), NEW packet
  PROVE  packet \in Handed(f[1]) <=>
           locked[f] # Nowhere /\ \E x \in Tapped(f[1]) \cap Carried(locked[f]) : packet = <<locked[f], x>>
<1>1. feeder[f[1]] = f
  BY DEF Hears
<1>2. f # Nowhere
  BY DEF AllFronts, Nowhere
<1> DEFINE m == locked[f]
<1>3. Handed(f[1]) = IF m = Nowhere THEN {} ELSE {<<m, x>> : x \in Tapped(f[1]) \cap Carried(m)}
  BY <1>1, <1>2 DEF Handed
<1> HIDE DEF m
<1>4. packet \in Handed(f[1]) <=> m # Nowhere /\ \E x \in Tapped(f[1]) \cap Carried(m) : packet = <<m, x>>
  BY <1>3
<1> QED
  BY <1>4 DEF m

\* A frontend that is heard and was not retuned gives packets of the service
LEMMA OwnPackets ==
  ASSUME ServerInv, NEW p \in Handles, plays[p].pc = "dvb", IsOpen(p),
         mishaps \cap {"interrupted", "lost", "deaf"} = {}, NEW packet \in Received(p)
  PROVE  OfService(p, packet)
<1> DEFINE i == streams[p].inst
           f == FrontOf(i.at)
<1>1. DeviceShape /\ TunedInv /\ LockInv /\ HearsInv /\ StreamsInv
  BY DEF ServerInv, DeviceInv, PlayInv
<1>2. i \in Instances
  BY <1>1, StreamIs DEF DeviceShape, StreamSet, IsOpen
<1>3. f \in AllFronts /\ i.number \in DOMAIN At(device, i.at).services
  BY <1>1, <1>2, InstancePids
<1>4. locked[f] = i.at /\ NameOf(i) = plays[p].path /\ Hears(f)
  BY <1>1 DEF TunedInv, LockInv, HearsInv, StreamsInv
<1>6. packet \in Handed(f[1]) /\ packet[2] \in ToSet(Pids(i.at, i.number))
  BY DEF Received
<1> HIDE DEF i, f
<1>5. \E x \in Tapped(f[1]) \cap Carried(locked[f]) : packet = <<locked[f], x>>
  BY <1>1, <1>3, <1>4, <1>6, HandedIs
<1>7. packet[1] = i.at /\ packet[2] \in ToSet(Pids(i.at, i.number))
  BY <1>4, <1>5, <1>6
<1>8. At(device, i.at).services[i.number].name = plays[p].path
  BY <1>4 DEF NameOf, ServiceAt
<1> QED
  BY <1>3, <1>7, <1>8 DEF OfService

\* ReadsOwn is inductive, given ServerInv
LEMMA NextKeepsOwn == ServerInv /\ ReadsOwn /\ [Next]_vars => ReadsOwn'
<1> SUFFICES ASSUME ServerInv, ReadsOwn, [Next]_vars PROVE ReadsOwn'
  OBVIOUS
<1>0. PlaysShape /\ DeviceInv /\ DeviceShape
  BY DEF ServerInv, PlayInv, DeviceInv
<1>1. ASSUME plays' = plays, mishaps \subseteq mishaps' PROVE ReadsOwn'
  BY <1>1 DEF ReadsOwn
<1>2. CASE UNCHANGED vars
  BY <1>1, <1>2 DEF vars, devvars
<1>3. ASSUME NEW c, Listing(c) \/ Fav(c) \/ RootCount \/ RootId \/ Scanning PROVE ReadsOwn'
  <2>1. mishaps \subseteq mishaps'
    BY <1>0, <1>3, ServingIsStill DEF DeviceStill
  <2>2. plays' = plays
    BY <1>3 DEF Listing, LsQuery, LsRead, LsStat, LsMeta, Fav, RootCount, RootId, Scanning, Down
  <2> QED
    BY <1>1, <2>1, <2>2
<1>4. ASSUME NEW p \in Handles, Playing(p) PROVE ReadsOwn'
  <2>1. ASSUME NEW why, Down(why) PROVE ReadsOwn'
    BY <1>1, <2>1 DEF Down, devvars
  <2>2. ASSUME mishaps \subseteq mishaps', \A q \in Handles : q # p => plays'[q] = plays[q], ~plays'[p].foreign
        PROVE  ReadsOwn'
    BY <2>2 DEF ReadsOwn
  <2>3. plays[p].foreign => plays[p].pc \in {"file", "dvb"}
    BY DEF ReadsOwn
  <2>4. DOMAIN plays = Handles /\ ~NoPlay.foreign
    BY <1>0, NoPlayIs DEF PlaysShape
  <2>5. CASE PlayStat(p)
    <3>1. PICK id : StatData(id) /\ plays' = [plays EXCEPT ![p] = [NoPlay EXCEPT !.pc = "stated", !.id = id]]
      BY <2>5 DEF PlayStat
    <3>2. [NoPlay EXCEPT !.pc = "stated", !.id = id]
            = [pc |-> "stated", id |-> id, fd |-> NoPlay.fd, path |-> NoPlay.path, foreign |-> NoPlay.foreign]
      BY NoPlayIs, PlayStated
    <3>3. ~plays'[p].foreign /\ \A q \in Handles : q # p => plays'[q] = plays[q]
      BY <2>4, <3>1, <3>2
    <3>4. mishaps \subseteq mishaps'
      BY <1>0, <3>1, StatIsStill
    <3> QED
      BY <2>2, <3>3, <3>4
  <2>6. CASE PlayOpenFile(p)
    <3>1. plays[p].pc = "stated" /\ mishaps' = mishaps
      BY <2>6 DEF PlayOpenFile, devvars
    <3>2. \E n, s : plays' = [plays EXCEPT ![p].pc = "file", ![p].fd = n, ![p].path = s]
      BY <2>6 DEF PlayOpenFile
    <3>3. plays'[p].foreign = plays[p].foreign /\ \A q \in Handles : q # p => plays'[q] = plays[q]
      BY <1>0, <3>2 DEF PlaysShape
    <3> QED
      BY <2>2, <2>3, <3>1, <3>3
  <2>7. CASE PlayOpenDvb(p)
    <3>1. CASE \E s : DvbStream(p, s) /\ plays' = [plays EXCEPT ![p].pc = "dvb", ![p].path = s]
      <4>1. plays[p].pc = "stated" /\ mishaps \subseteq mishaps'
        BY <1>0, <2>7, <3>1, OpeningKeepsDevice DEF PlayOpenDvb
      <4>2. plays'[p].foreign = plays[p].foreign /\ \A q \in Handles : q # p => plays'[q] = plays[q]
        BY <1>0, <3>1 DEF PlaysShape
      <4> QED
        BY <2>2, <2>3, <4>1, <4>2
    <3> QED
      BY <2>1, <2>7, <3>1 DEF PlayOpenDvb
  <2>8. CASE PlayReadFile(p)
    <3> DEFINE n == plays[p].fd
               b == fds[n].of = "file" /\ fds[n] # FileAt(plays[p].path)
               of == IF n = -1 THEN "none" ELSE fds[n].of
    <3>1. CASE /\ plays' = [plays EXCEPT ![p].foreign = of = "file" /\ fds[n] # FileAt(plays[p].path)]
               /\ UNCHANGED devvars /\ n # -1 /\ plays[p].pc = "file"
      <4>1. OpenFile(p) /\ mishaps' = mishaps
        BY <3>1 DEF OpenFile, devvars
      <4>2. plays' = [plays EXCEPT ![p].foreign = b]
        BY <3>1
      <4>3. ~b \/ "descriptor" \in mishaps
        BY <4>1, OwnFile
      <4>4. b \in BOOLEAN
        OBVIOUS
      <4> HIDE DEF b
      <4>5. plays'[p].foreign = b /\ \A q \in Handles : q # p => plays'[q] = plays[q]
        BY <1>0, <4>2 DEF PlaysShape
      <4>6. \A q \in Handles : plays'[q].pc = plays[q].pc
        <5>1. PlayInv
          BY DEF ServerInv
        <5> QED
          BY <3>1, <4>2, <4>4, <5>1, ReadKeepsPlays
      <4>7. plays'[p].foreign => "descriptor" \in mishaps'
        BY <4>1, <4>3, <4>5, Zenon
      <4> QED
        BY <3>1, <4>1, <4>5, <4>6, <4>7 DEF ReadsOwn
    <3>2. Down("count") \/ /\ plays' = [plays EXCEPT ![p].foreign = of = "file" /\ fds[n] # FileAt(plays[p].path)]
                           /\ UNCHANGED devvars /\ n # -1 /\ plays[p].pc = "file"
      BY <2>8 DEF PlayReadFile
    <3> QED
      BY <2>1, <3>1, <3>2
  <2>9. CASE PlayReadDvb(p)
    <3>1. CASE UNCHANGED <<plays, devvars>>
      BY <1>1, <3>1 DEF devvars
    <3>2. CASE /\ \E packet \in Received(p) : plays' = [plays EXCEPT ![p].foreign = ~OfService(p, packet)]
               /\ UNCHANGED devvars /\ streams[p] # Null /\ plays[p].pc = "dvb"
      <4>1. PICK packet \in Received(p) : plays' = [plays EXCEPT ![p].foreign = ~OfService(p, packet)]
        BY <3>2
      <4>2. IsOpen(p)
        <5>1. streams[p] \in StreamSet /\ streams[p] # Closed
          BY <1>0, <3>2 DEF DeviceInv, DeviceShape, StreamSet, PlaysShape
        <5> QED
          BY <3>2, <5>1, StreamIs DEF IsOpen
      <4>3. /\ plays'[p].foreign <=> ~OfService(p, packet)
            /\ \A q \in Handles : q # p => plays'[q] = plays[q]
        <5> DEFINE b == ~OfService(p, packet)
        <5> HIDE DEF b
        <5>1. plays' = [plays EXCEPT ![p].foreign = b]
          BY <4>1 DEF b
        <5>2. plays'[p].foreign = b /\ \A q \in Handles : q # p => plays'[q] = plays[q]
          BY <1>0, <5>1 DEF PlaysShape
        <5> QED
          BY <5>2, Zenon DEF b
      <4>4. \A q \in Handles : plays'[q].pc = plays[q].pc
        <5>1. (~OfService(p, packet)) \in BOOLEAN /\ PlayInv
          BY DEF ServerInv
        <5> QED
          BY <3>2, <4>1, <5>1, ReadKeepsPlays
      <4>6. mishaps' = mishaps
        BY <3>2 DEF devvars
      <4>5. plays'[p].foreign => mishaps' \cap {"interrupted", "lost", "deaf"} # {}
        BY <3>2, <4>2, <4>3, <4>6, OwnPackets
      <4> QED
        BY <3>2, <4>3, <4>4, <4>5, <4>6 DEF ReadsOwn
    <3> QED
      BY <2>1, <2>9, <3>1, <3>2 DEF PlayReadDvb
  <2>10. CASE PlayClose(p)
    <3>1. plays' = [plays EXCEPT ![p] = NoPlay]
      BY <2>10 DEF PlayClose
    <3>2. mishaps \subseteq mishaps'
      BY <1>0, <2>10, ClosingKeepsDevice DEF PlayClose, Close
    <3>3. ~plays'[p].foreign /\ \A q \in Handles : q # p => plays'[q] = plays[q]
      BY <2>4, <3>1
    <3> QED
      BY <2>2, <3>2, <3>3
  <2>11. CASE PlayCloseFreed(p)
    BY <2>1, <2>11 DEF PlayCloseFreed
  <2> QED
    BY <1>4, <2>5, <2>6, <2>7, <2>8, <2>9, <2>10, <2>11 DEF Playing
<1> QED
  BY <1>2, <1>3, <1>4 DEF Next

\* A player reads what it opened (src/serve.c, srvread): unless a stat has closed the
\* descriptor of somebody, or the frontend of its stream was tuned away or is not the
\* one that its demuxer is wired to, no player is given the bytes of another file or
\* the packets of another service.
THEOREM PlayersReadTheirOwn == Spec => []ReadsOwn
<1>1. Init => ReadsOwn
  <2> SUFFICES ASSUME Init PROVE ReadsOwn
    OBVIOUS
  <2>1. plays = [p \in Handles |-> NoPlay]
    BY DEF Init
  <2>2. \A p \in Handles : ~plays[p].foreign
    BY <2>1, NoPlayIs
  <2> QED
    BY <2>2 DEF ReadsOwn
<1> QED
  BY <1>1, NextKeepsOwn, ServerHolds, PTL DEF Spec

-------------------------------------------------------------------------------
(* The whole server: why it goes on *)
\* Every service has a pid to read, and lists none of them twice: otherwise a
\* read waits for packets that no filter lets through, with no mishap at all
ServicesAreWhole ==
  /\ NoDoubles
  /\ \A p \in DOMAIN marks : \A k \in DOMAIN At(device, p).services : Pids(p, k) # <<>>

\* A filter that is started taps its pid
LEMMA TappedIs ==
  ASSUME NEW n \in DOMAIN fds, NEW a, NEW x, fds[n] = FilterFor(a, x, TRUE)
  PROVE  x \in Tapped(a)
<1> DEFINE v == TRUE
<1> HIDE DEF v
<1>1. LET d == FilterFor(a, x, v) IN d.of = "filter" /\ d.adapter = a /\ d.pid = x /\ d.on = v
  BY DEF FilterFor
<1>2. fds[n].of = "filter" /\ fds[n].adapter = a /\ fds[n].pid = x /\ fds[n].on
  BY <1>1 DEF v
<1> QED
  BY <1>2 DEF Tapped

\* A stream that nothing has happened to gets packets
LEMMA PacketsCome ==
  ASSUME ServerInv, ServicesAreWhole, NEW h \in Handles, IsOpen(h),
         mishaps \cap {"interrupted", "lost", "cloned", "strayed", "unfiltered", "deaf", "descriptor"} = {}
  PROVE  Received(h) # {}
<1> DEFINE i == streams[h].inst
           f == FrontOf(i.at)
           q == Pids(i.at, i.number)
           x == q[1]
<1>1. DeviceShape /\ TunedInv /\ LockInv /\ SoleInv /\ HearsInv /\ CountsInv /\ RunsInv
  BY DEF ServerInv, DeviceInv, FiltersInv
<1>2. streams \in [Handles -> StreamSet]
  BY <1>1 DEF DeviceShape, StreamSet
<1>3. i \in Instances
  BY <1>2, StreamIs DEF IsOpen
<1>4. /\ i.at \in Places /\ f \in AllFronts /\ q \in Seq(AllPids)
      /\ i.number \in DOMAIN At(device, i.at).services /\ i.at # Nowhere
  BY <1>1, <1>3, InstancePids, PlacesAre
<1>5. locked[f] = i.at /\ i \in served[f] /\ Hears(f)
  BY <1>1 DEF TunedInv, LockInv, SoleInv, HearsInv
<1>6. q # <<>>
  BY <1>4 DEF ServicesAreWhole, Places
<1>7. Counted(f) /\ Running(f)
  <2>1. Clean /\ NoDoubles
    BY DEF Clean, ServicesAreWhole
  <2> QED
    BY <2>1, <1>1, <1>4 DEF CountsInv, RunsInv
<1>8. 1 \in DOMAIN q /\ x \in AllPids /\ x \in ToSet(q)
  <2> HIDE DEF q
  <2>1. Len(q) \in Nat \ {0} /\ DOMAIN q = 1 .. Len(q)
    BY <1>4, <1>6, EmptySeq
  <2>2. 1 \in DOMAIN q
    BY <2>1
  <2> QED
    BY <2>2, <1>4 DEF ToSet
<1>9. <<h, 1>> \in Uses(f, x)
  <2>1. h \in {g \in Handles : streams[g].state = "open" /\ FrontOf(streams[g].inst.at) = f}
    BY DEF IsOpen
  <2>2. 1 \in {j \in DOMAIN q : q[j] = x}
    BY <1>8
  <2> QED
    BY <2>1, <2>2 DEF Uses
<1>10. x \in Tapped(f[1])
  <2>1. IsFiniteSet(Uses(f, x))
    BY <1>1, <1>2, UsesAre, UsesFinite
  <2>2. Cardinality(Uses(f, x)) # 0 /\ Cardinality(Uses(f, x)) \in Nat
    BY <1>9, <2>1, FS_EmptySet, FS_CardinalityType
  <2> HIDE DEF x, f
  <2>3. refs[f][x] > 0
    BY <1>7, <1>8, <2>2 DEF Counted
  <2>4. fds[handle[f][x]] = FilterFor(f[1], x, TRUE)
    BY <1>7, <1>8, <2>3 DEF Running
  <2>5. handle[f][x] \in DOMAIN fds
    BY <1>1, <1>4, <1>8, <2>3 DEF DeviceShape
  <2> QED
    BY <2>4, <2>5, TappedIs
<1>11. x \in Carried(i.at)
  BY <1>4, <1>8 DEF Carried
<1> HIDE DEF x
<1>12. <<i.at, x>> \in Handed(f[1])
  BY <1>1, <1>4, <1>5, <1>10, <1>11, HandedIs
<1>13. <<i.at, x>> \in Received(h)
  <2>1. <<i.at, x>>[2] = x /\ Reads(f)
    BY <1>5 DEF Hears
  <2> QED
    BY <2>1, <1>5, <1>8, <1>12 DEF Received
<1> QED
  BY <1>13

\* A freed transponder is only met after a refusal or a retuning
LEMMA FreedBefore ==
  ASSUME ServerInv, NEW name, NEW lock, OpenFreed(name, lock)
  PROVE  mishaps \cap {"refused", "interrupted"} # {}
<1> DEFINE places == Candidates(name)
           fits == Fits(name, places, lock)
           first == places[1]
<1>1. DeviceShape /\ TunedInv /\ OriginalInv /\ DeletedInv
  BY DEF ServerInv, DeviceInv
<1>2. deleted # {} => "refused" \in mishaps
  BY <1>1 DEF DeletedInv
<1>3. /\ places # <<>>
      /\ \/ deleted # {}
         \/ /\ Playable(ServiceAt(first, getService(first, name)))
            /\ fits = {} /\ Original(name) \in served[FrontOf(first)]
  BY DEF OpenFreed, Original
<1>4. ASSUME /\ Playable(ServiceAt(first, getService(first, name)))
             /\ fits = {} /\ Original(name) \in served[FrontOf(first)]
             /\ "interrupted" \notin mishaps
      PROVE  FALSE
  <2>1. Original(name).at = first /\ NameOf(Original(name)) = name
    BY <1>1, <1>3, OriginalIs
  <2>2. FrontOf(first) \in AllFronts /\ 1 \in DOMAIN places
    <3>1. first \in Places /\ 1 \in DOMAIN places
      BY <1>1, <1>3, CandidatesAre
    <3> QED
      BY <3>1, <1>1, PlacesAre
  <2> HIDE DEF first
  <2>3. PICK h \in Handles : IsOpen(h) /\ streams[h].inst = Original(name)
    BY <1>1, <1>4, <2>1, <2>2 DEF OriginalInv
  <2>4. tuned[FrontOf(first)] = first
    BY <1>1, <1>4, <2>1, <2>3 DEF TunedInv
  <2>5. ~ServiceAt(first, getService(first, name)).scrambled
    BY <1>4 DEF Playable
  <2>6. 1 \in Usable(name, places)
    BY <2>2, <2>5 DEF Usable, first
  <2>7. 1 \in fits
    BY <2>4, <2>6 DEF Fits, first
  <2> QED
    BY <1>4, <2>7
<1> QED
  BY <1>2, <1>3, <1>4

\* ServerLives is inductive for services that are whole, given ServerInv
LEMMA NextKeepsLives == ServerInv /\ (ServicesAreWhole => ServerLives) /\ [Next]_vars
                          => (ServicesAreWhole => ServerLives)'
<1> SUFFICES ASSUME ServerInv, ServicesAreWhole => ServerLives, [Next]_vars, ServicesAreWhole'
             PROVE  ServerLives'
  OBVIOUS
<1>0. /\ PlaysShape /\ StreamsInv /\ FilesInv /\ DeviceInv /\ DeviceShape /\ DeletedInv
      /\ GenShape /\ TablesThere /\ ScannerShape
  BY DEF ServerInv, PlayInv, DeviceInv, RequestInv, DbInv
<1>1. device' = device /\ smap' = smap /\ DOMAIN marks' = DOMAIN marks /\ mishaps \subseteq mishaps'
  <2>1. CASE DeviceStill
    BY <2>1 DEF DeviceStill, dvbvars
  <2>2. CASE UNCHANGED vars
    BY <1>0, <2>1, <2>2, UnchangedIsStill DEF vars
  <2>3. ASSUME NEW p \in Handles, Playing(p)
        PROVE  device' = device /\ smap' = smap /\ DOMAIN marks' = DOMAIN marks /\ mishaps \subseteq mishaps'
    <3>1. CASE PlayStat(p) \/ PlayOpenFile(p) \/ PlayReadFile(p) \/ PlayReadDvb(p) \/ PlayCloseFreed(p)
      BY <1>0, <2>1, <3>1, PlayingIsStill
    <3>2. CASE UNCHANGED devvars
      BY <1>0, <2>1, <3>2, UnchangedIsStill
    <3>3. ASSUME device' = device, smap' = smap, mishaps \subseteq mishaps', DeviceInv'
          PROVE  DOMAIN marks' = DOMAIN marks
      BY <1>0, <3>3 DEF DeviceInv, DeviceShape, Places
    <3>4. CASE \E s : DvbStream(p, s)
      BY <1>0, <3>3, <3>4, OpeningKeepsDevice
    <3>5. CASE DvbFreeStream(p)
      BY <1>0, <3>3, <3>5, ClosingKeepsDevice
    <3>6. CASE PlayOpenDvb(p)
      BY <3>2, <3>4, <3>6 DEF PlayOpenDvb, Down
    <3>7. CASE PlayClose(p)
      <4>1. (UNCHANGED dvbvars /\ mishaps' \in {mishaps, mishaps \cup {"descriptor"}}) \/ DvbFreeStream(p)
        BY <3>7 DEF PlayClose, Close
      <4> QED
        BY <3>5, <4>1 DEF dvbvars
    <3> QED
      BY <2>3, <3>1, <3>6, <3>7 DEF Playing
  <2> QED
    BY <1>0, <2>1, <2>2, <2>3, ServingIsStill DEF Next
<1>2. ServicesAreWhole /\ \A n : Candidates(n)' = Candidates(n)
  <2>1. /\ \A p, k : Pids(p, k)' = Pids(p, k)
        /\ \A n : Candidates(n)' = Candidates(n) /\ NoDoubles' = NoDoubles
    BY <1>1, SameDevice
  <2> QED
    BY <1>1, <2>1 DEF ServicesAreWhole
<1>3. ServerLives
  BY <1>2
<1>4. ASSUME UNCHANGED vars PROVE ServerLives'
  BY <1>2, <1>3, <1>4 DEF ServerLives, vars, devvars, scanvars
<1>5. ASSUME down' = "none", blocked' = blocked PROVE ServerLives'
  BY <1>1, <1>3, <1>5 DEF ServerLives
<1>6. ASSUME down = "none", NEW why, Down(why),
             why = "exit" => refused # {} \/ scanner.pc \in {"dropfav", "createobj", "createfav"},
             why = "count" =>
               "descriptor" \in mishaps
               \/ \E p \in Handles : plays[p].pc = "file" /\ plays[p].path \notin Disk,
             why = "null" =>
               "refused" \in mishaps
               \/ \E p \in Handles : plays[p].pc = "dvb" /\ Candidates(plays[p].path) = <<>>,
             why = "freed" => mishaps \cap {"refused", "interrupted"} # {}
      PROVE  ServerLives'
  <2>1. UNCHANGED <<mishaps, refused, scanner, plays, blocked>> /\ down' = why
    BY <1>6 DEF Down, devvars, scanvars
  <2> QED
    BY <1>2, <1>3, <1>6, <2>1 DEF ServerLives
<1>7. CASE down = "none" /\ \E c \in Controllers \cap active : Listing(c) \/ Fav(c)
  BY <1>5, <1>7 DEF Listing, LsQuery, LsRead, LsStat, LsMeta, Fav
<1>8. CASE down = "none" /\ Scanning
  BY <1>5, <1>8 DEF Scanning
<1>9. CASE down = "none" /\ (RootCount \/ RootId)
  <2>1. CASE down' = down /\ blocked' = blocked
    BY <1>5, <1>9, <2>1
  <2>2. CASE ~Prepared /\ Down("exit")
    <3>1. gen.at \in active \cap (Controllers \cup Handles)
      BY <1>0, <1>9, GenIs DEF RootCount, RootId
    <3>2. ~(hasObj /\ hasFav)
      BY <2>2 DEF Prepared
    <3>3. refused # {} \/ scanner.pc \notin {"none", "dropobj", "scan", "done"}
      BY <1>0, <3>1, <3>2 DEF TablesThere
    <3>4. refused # {} \/ scanner.pc \in {"dropfav", "createobj", "createfav"}
      BY <1>0, <3>3 DEF ScannerShape, ScanPcs
    <3> QED
      BY <1>6, <1>9, <2>2, <3>4
  <2> QED
    BY <1>9, <2>1, <2>2 DEF RootCount, RootId
<1>10. ASSUME down = "none", NEW p \in Handles, Playing(p) PROVE ServerLives'
  <2>1. CASE PlayStat(p) \/ PlayOpenFile(p) \/ PlayClose(p)
    BY <1>5, <1>10, <2>1 DEF PlayStat, PlayOpenFile, PlayClose
  <2>2. CASE PlayOpenDvb(p)
    <3>1. CASE down' = down /\ blocked' = blocked
      BY <1>5, <1>10, <3>1
    <3>2. CASE Down("freed") /\ \E s, lock : OpenFreed(s, lock)
      <4>1. mishaps \cap {"refused", "interrupted"} # {}
        BY <3>2, FreedBefore
      <4> QED
        BY <1>6, <1>10, <3>2, <4>1
    <3> QED
      BY <2>2, <3>1, <3>2 DEF PlayOpenDvb, DvbStreamFreed
  <2>3. CASE PlayReadFile(p)
    <3>1. CASE down' = down /\ blocked' = blocked
      BY <1>5, <1>10, <3>1
    <3>2. CASE Down("count") /\ plays[p].pc = "file" /\ (plays[p].fd = -1 \/ fds[plays[p].fd].of # "file")
      <4>1. plays[p].fd = -1 => plays[p].path \notin Disk
        BY <1>0, <3>2 DEF FilesInv
      <4>2. plays[p].fd # -1 => "descriptor" \in mishaps
        BY <3>2, OwnFile DEF OpenFile
      <4>3. "descriptor" \in mishaps
            \/ \E q \in Handles : plays[q].pc = "file" /\ plays[q].path \notin Disk
        BY <3>2, <4>1, <4>2
      <4> QED
        BY <1>6, <1>10, <3>2, <4>3
    <3> QED
      BY <2>3, <3>1, <3>2 DEF PlayReadFile
  <2>4. CASE PlayReadDvb(p)
    <3>1. CASE down' = down /\ blocked' = blocked
      BY <1>5, <1>10, <3>1
    <3>2. CASE Down("null") /\ plays[p].pc = "dvb" /\ streams[p] = Null
      <4>1. "refused" \in mishaps \/ Candidates(plays[p].path) = <<>>
        BY <1>0, <3>2 DEF StreamsInv
      <4>2. "refused" \in mishaps
            \/ \E q \in Handles : plays[q].pc = "dvb" /\ Candidates(plays[q].path) = <<>>
        BY <3>2, <4>1
      <4> QED
        BY <1>6, <1>10, <3>2, <4>2
    <3>3. CASE /\ Received(p) = {} /\ streams[p] # Null /\ plays[p].pc = "dvb"
               /\ UNCHANGED <<mishaps, down>>
      <4>1. IsOpen(p)
        <5>1. streams[p] \in StreamSet /\ streams[p] # Closed
          BY <1>0, <3>3 DEF DeviceShape, StreamSet, PlaysShape
        <5> QED
          BY <3>3, <5>1, StreamIs DEF IsOpen
      <4>2. mishaps \cap {"interrupted", "lost", "cloned", "strayed", "unfiltered", "deaf", "descriptor"} # {}
        BY <1>2, <3>3, <4>1, PacketsCome
      <4> QED
        BY <1>10, <3>3, <4>2 DEF ServerLives
    <3> QED
      BY <2>4, <3>1, <3>2, <3>3 DEF PlayReadDvb, devvars
  <2>5. CASE PlayCloseFreed(p)
    <3>1. deleted # {} /\ Down("freed")
      BY <2>5 DEF PlayCloseFreed, DvbFreeStreamFreed
    <3>2. mishaps \cap {"refused", "interrupted"} # {}
      BY <1>0, <3>1 DEF DeletedInv
    <3> QED
      BY <1>6, <1>10, <3>1, <3>2
  <2> QED
    BY <1>10, <2>1, <2>2, <2>3, <2>4, <2>5 DEF Playing
<1> QED
  BY <1>4, <1>7, <1>8, <1>9, <1>10 DEF Next

\* The server goes on (src/serve.c, threadmain): where every service of the
\* device has a pid and lists none twice, no sequence of requests, of scans and of
\* answers of the hardware ends the server or leaves it in a read for ever, but for
\* the mishaps that ServerLives names.
THEOREM ServerGoesOn == Spec => [](ServicesAreWhole => ServerLives)
<1>1. Init => ServerLives
  BY DEF Init, ServerLives
<1> QED
  BY <1>1, NextKeepsLives, ServerHolds, PTL DEF Spec

-------------------------------------------------------------------------------
(* What a listing selects *)
\* Matches of the query, and the rows and the favourites that the statements look at
Matches(r) == querystr = NoQuery \/ querystr \in r.words
MatchingRows == {k \in DOMAIN rows : Matches(rows[k])}
ListedFavs == {k \in DOMAIN favs : favs[k].list = favid}
RowsOf(id) == {k \in DOMAIN rows : rows[k].id = id /\ Matches(rows[k])}
\* The selection of a list: one sequence of rows for each favourite
OfFavs == [i \in DOMAIN Picked(favs, ListedFavs) |->
             Picked(rows, RowsOf(Picked(favs, ListedFavs)[i].objid))]

\* Rows of fav are their list and their object
AreFavs(s) ==
  /\ IsSeq(s)
  /\ \A k \in DOMAIN s : s[k] = [list |-> s[k].list, objid |-> s[k].objid]

\* The selection in these words
LEMMA SelectionPicks ==
  ASSUME IsSeq(favs)
  PROVE  /\ favid = <<>> => Selection = Picked(rows, MatchingRows)
         /\ favid # <<>> => Selection = FlattenSeq(OfFavs)
<1>1. CASE favid = <<>>
  <2>1. Selection = Those(rows, Matches)
    BY <1>1 DEF Selection, Matches
  <2>2. Those(rows, Matches) = Picked(rows, MatchingRows)
    BY DEF Those, MatchingRows
  <2> QED
    BY <1>1, <2>1, <2>2
<1>2. CASE favid # <<>>
  <2> DEFINE listed == Picked(favs, ListedFavs)
             object(v) == Those(rows, LAMBDA r : r.id = v.objid /\ Matches(r))
  <2>1. Those(favs, LAMBDA v : v.list = favid) = listed
    BY DEF Those, ListedFavs
  <2>2. Selection = FlattenSeq(Map(object, listed))
    BY <1>2, <2>1 DEF Selection, Matches
  <2>3. \A v : object(v) = Picked(rows, RowsOf(v.objid))
    BY DEF Those, RowsOf
  <2>4. IsSeq(listed)
    BY PickedIs
  <2> HIDE DEF listed
  <2>5. [i \in DOMAIN listed |-> object(listed[i])]
           = [i \in DOMAIN listed |-> Picked(rows, RowsOf(listed[i].objid))]
    BY <2>3
  <2>6. Map(object, listed) = <<>> \o [i \in DOMAIN listed |-> object(listed[i])]
    BY DEF Map
  <2> HIDE DEF object
  <2>7. <<>> \o [i \in DOMAIN listed |-> Picked(rows, RowsOf(listed[i].objid))]
         = [i \in DOMAIN listed |-> Picked(rows, RowsOf(listed[i].objid))]
    BY <2>4, FunIs
  <2>8. Map(object, listed) = OfFavs
    BY <2>5, <2>6, <2>7 DEF OfFavs, listed
  <2> QED
    BY <1>2, <2>2, <2>8
<1> QED
  BY <1>1, <1>2

\* The objects of a selection are rows
LEMMA SelectionRows ==
  ASSUME IsSeq(rows), IsSeq(favs)
  PROVE  /\ IsSeq(Selection)
         /\ \A j \in DOMAIN Selection : \E k \in DOMAIN rows : Selection[j] = rows[k] /\ Matches(rows[k])
<1>1. CASE favid = <<>>
  <2> DEFINE s == Picked(rows, MatchingRows)
  <2>1. Selection = s
    BY <1>1, SelectionPicks
  <2>2. PICK f \in Bijection(DOMAIN s, MatchingRows \cap DOMAIN rows) :
          \A j \in DOMAIN s : s[j] = rows[f[j]]
    BY PickedIs
  <2>3. IsSeq(s)
    BY PickedIs
  <2> HIDE DEF s
  <2>4. \A j \in DOMAIN s : f[j] \in MatchingRows /\ f[j] \in DOMAIN rows
    BY <2>2, Fun_BijectionProperties
  <2> QED
    BY <2>1, <2>2, <2>3, <2>4 DEF MatchingRows
<1>2. CASE favid # <<>>
  <2>1. Selection = FlattenSeq(OfFavs)
    BY <1>2, SelectionPicks
  <2>2. IsSeq(OfFavs) /\ \A i \in DOMAIN OfFavs : IsSeq(OfFavs[i])
    BY PickedIs, FunIs DEF OfFavs
  <2>3. PICK f \in Bijection(DOMAIN FlattenSeq(OfFavs), PairsTo(OfFavs, Len(OfFavs))) :
          \A j \in DOMAIN FlattenSeq(OfFavs) : FlattenSeq(OfFavs)[j] = OfFavs[f[j][1]][f[j][2]]
    BY <2>2, FlattenIs
  <2>4. IsSeq(FlattenSeq(OfFavs))
    BY <2>2, FlattenIs
  <2>5. ASSUME NEW j \in DOMAIN Selection
        PROVE  \E k \in DOMAIN rows : Selection[j] = rows[k] /\ Matches(rows[k])
    <3>1. f[j] \in PairsTo(OfFavs, Len(OfFavs))
      BY <2>1, <2>3, Fun_BijectionProperties
    <3>2. PICK i \in 1 .. Len(OfFavs) : \E p \in DOMAIN OfFavs[i] : f[j] = <<i, p>>
      BY <3>1 DEF PairsTo
    <3>3. PICK p \in DOMAIN OfFavs[i] : f[j] = <<i, p>>
      BY <3>2
    <3>4. i \in DOMAIN OfFavs
      BY <2>2, SeqIs
    <3> DEFINE v == Picked(favs, ListedFavs)[i]
               s == Picked(rows, RowsOf(v.objid))
    <3>5. OfFavs[i] = s /\ Selection[j] = s[p] /\ p \in DOMAIN s
      BY <2>1, <2>3, <3>3, <3>4 DEF OfFavs
    <3>6. PICK g \in Bijection(DOMAIN s, RowsOf(v.objid) \cap DOMAIN rows) :
            \A q \in DOMAIN s : s[q] = rows[g[q]]
      BY PickedIs
    <3> HIDE DEF v, s
    <3>7. g[p] \in RowsOf(v.objid) /\ s[p] = rows[g[p]]
      BY <3>5, <3>6, Fun_BijectionProperties
    <3> QED
      BY <3>5, <3>7 DEF RowsOf
  <2> QED
    BY <2>1, <2>4, <2>5
<1> QED
  BY <1>1, <1>2

\* How often the list and the query have an object
Times(r) ==
  IF ~Matches(r) THEN 0
  ELSE IF favid = <<>> THEN 1
  ELSE Cardinality({k \in DOMAIN favs : favs[k] = [list |-> favid, objid |-> r.id]})

\* Sets with a bijection between them
LEMMA SameSize ==
  ASSUME NEW S, NEW T, NEW h \in [S -> T], IsFiniteSet(S),
         \A a, b \in S : h[a] = h[b] => a = b,
         \A t \in T : \E a \in S : h[a] = t
  PROVE  Cardinality(S) = Cardinality(T)
<1>1. h \in Bijection(S, T)
  BY Fun_IsBij
<1> QED
  BY <1>1, FS_Bijection DEF ExistsBijection

\* The selection has each object as often as it belongs there
LEMMA SelectionCounts ==
  ASSUME AreRows(rows), AreFavs(favs), NEW k \in DOMAIN rows
  PROVE  Cardinality({j \in DOMAIN Selection : Selection[j].id = rows[k].id}) = Times(rows[k])
<1> DEFINE B == {j \in DOMAIN Selection : Selection[j].id = rows[k].id}
<1>1. IsSeq(rows) /\ IsSeq(favs) /\ \A i, j \in DOMAIN rows : rows[j].id = rows[i].id => j = i
  BY DEF AreRows, AreFavs
<1>2. IsSeq(Selection) /\ IsFiniteSet(B)
  <2>1. IsSeq(Selection)
    BY <1>1, SelectionRows
  <2>2. DOMAIN Selection = 1 .. Len(Selection) /\ Len(Selection) \in Nat
    BY <2>1, SeqIs
  <2>3. IsFiniteSet(1 .. Len(Selection))
    BY <2>2, FS_Interval
  <2> QED
    BY <2>1, <2>2, <2>3, FS_Subset
<1>3. CASE ~Matches(rows[k])
  <2>1. B = {}
    BY <1>1, <1>3, SelectionRows
  <2> HIDE DEF B
  <2>2. Cardinality(B) = 0
    BY <2>1, FS_EmptySet
  <2> QED
    BY <1>3, <2>2 DEF Times, B
<1>4. CASE Matches(rows[k]) /\ favid = <<>>
  <2> DEFINE s == Picked(rows, MatchingRows)
  <2>1. Selection = s
    BY <1>1, <1>4, SelectionPicks
  <2>2. PICK f \in Bijection(DOMAIN s, MatchingRows \cap DOMAIN rows) :
          \A j \in DOMAIN s : s[j] = rows[f[j]]
    BY <1>1, PickedIs
  <2> HIDE DEF s
  <2>3. /\ \A j \in DOMAIN s : f[j] \in DOMAIN rows
        /\ \A a, b \in DOMAIN s : f[a] = f[b] => a = b
        /\ \A t \in MatchingRows \cap DOMAIN rows : \E a \in DOMAIN s : f[a] = t
    BY <2>2, Fun_BijectionProperties
  <2>4. k \in MatchingRows \cap DOMAIN rows
    BY <1>4 DEF MatchingRows
  <2>5. PICK j \in DOMAIN s : f[j] = k
    BY <2>3, <2>4
  <2>6. B = {j}
    BY <1>1, <2>1, <2>2, <2>3, <2>5
  <2>7. Cardinality(B) = 1
    BY <2>6, FS_Singleton
  <2> QED
    BY <1>4, <2>7 DEF Times
<1>5. CASE Matches(rows[k]) /\ favid # <<>>
  <2> DEFINE C == {n \in DOMAIN favs : favs[n] = [list |-> favid, objid |-> rows[k].id]}
             l == Picked(favs, ListedFavs)
  <2>1. Selection = FlattenSeq(OfFavs)
    BY <1>1, <1>5, SelectionPicks
  <2>2. IsSeq(OfFavs) /\ \A i \in DOMAIN OfFavs : IsSeq(OfFavs[i])
    BY <1>1, PickedIs, FunIs DEF OfFavs
  <2>3. PICK f \in Bijection(DOMAIN FlattenSeq(OfFavs), PairsTo(OfFavs, Len(OfFavs))) :
          \A j \in DOMAIN FlattenSeq(OfFavs) : FlattenSeq(OfFavs)[j] = OfFavs[f[j][1]][f[j][2]]
    BY <2>2, FlattenIs
  <2>4. /\ \A j \in DOMAIN Selection : f[j] \in PairsTo(OfFavs, Len(OfFavs))
        /\ \A a, b \in DOMAIN Selection : f[a] = f[b] => a = b
        /\ \A t \in PairsTo(OfFavs, Len(OfFavs)) : \E a \in DOMAIN Selection : f[a] = t
    BY <2>1, <2>3, Fun_BijectionProperties
  <2>5. PICK g \in Bijection(DOMAIN l, ListedFavs \cap DOMAIN favs) :
          \A j \in DOMAIN l : l[j] = favs[g[j]]
    BY <1>1, PickedIs
  <2>6. /\ \A j \in DOMAIN l : g[j] \in ListedFavs /\ g[j] \in DOMAIN favs
        /\ \A a, b \in DOMAIN l : g[a] = g[b] => a = b
        /\ \A t \in ListedFavs \cap DOMAIN favs : \E a \in DOMAIN l : g[a] = t
    <3> HIDE DEF l
    <3>1. g \in Bijection(DOMAIN l, ListedFavs \cap DOMAIN favs)
      BY <2>5
    <3> DEFINE T == ListedFavs \cap DOMAIN favs
    <3>2. \A j \in T : j \in ListedFavs /\ j \in DOMAIN favs
      OBVIOUS
    <3> HIDE DEF T
    <3>3. /\ \A j \in DOMAIN l : g[j] \in T
          /\ \A a, b \in DOMAIN l : g[a] = g[b] => a = b
          /\ \A t \in T : \E a \in DOMAIN l : g[a] = t
      <4> DEFINE S == DOMAIN l
      <4>1. g \in Bijection(S, T)
        BY <3>1 DEF T
      <4> HIDE DEF S
      <4>2. /\ g \in [S -> T]
            /\ \A a, b \in S : g[a] = g[b] => a = b
            /\ \A t \in T : \E a \in S : g[a] = t
        BY <4>1, Fun_BijectionProperties
      <4> QED
        BY <4>2 DEF S
    <3> QED
      BY <3>2, <3>3 DEF T
  <2>7. DOMAIN OfFavs = DOMAIN l
    BY DEF OfFavs
  <2>8. DOMAIN OfFavs = 1 .. Len(OfFavs)
    BY <2>2, SeqIs
  <2>9. ASSUME NEW i \in DOMAIN l
        PROVE  \E G \in Bijection(DOMAIN OfFavs[i], RowsOf(l[i].objid)) :
                 \A q \in DOMAIN OfFavs[i] : OfFavs[i][q] = rows[G[q]]
    <3>1. OfFavs[i] = Picked(rows, RowsOf(l[i].objid))
      BY DEF OfFavs
    <3>2. RowsOf(l[i].objid) \cap DOMAIN rows = RowsOf(l[i].objid)
      BY DEF RowsOf
    <3> QED
      BY <1>1, <3>1, <3>2, PickedIs
  <2> HIDE DEF l, C
  <2>10. ASSUME NEW j \in B
         PROVE  /\ f[j][1] \in DOMAIN l /\ f[j][2] \in DOMAIN OfFavs[f[j][1]]
                /\ f[j] = <<f[j][1], f[j][2]>> /\ l[f[j][1]].objid = rows[k].id
    <3>1. j \in DOMAIN Selection /\ Selection[j].id = rows[k].id
      OBVIOUS
    <3>2. PICK i \in 1 .. Len(OfFavs) : f[j] \in {<<i, p>> : p \in DOMAIN OfFavs[i]}
      BY <2>4, <3>1 DEF PairsTo
    <3>3. PICK p \in DOMAIN OfFavs[i] : f[j] = <<i, p>>
      BY <3>2
    <3>4. i \in DOMAIN l
      BY <2>7, <2>8
    <3>5. PICK G \in Bijection(DOMAIN OfFavs[i], RowsOf(l[i].objid)) :
            \A q \in DOMAIN OfFavs[i] : OfFavs[i][q] = rows[G[q]]
      BY <2>9, <3>4
    <3>6. G[p] \in RowsOf(l[i].objid) /\ OfFavs[i][p] = rows[G[p]]
      BY <3>5, Fun_BijectionProperties
    <3>7. rows[G[p]].id = l[i].objid
      BY <3>6 DEF RowsOf
    <3>8. Selection[j] = OfFavs[i][p]
      BY <2>1, <2>3, <3>1, <3>3
    <3> QED
      BY <3>1, <3>3, <3>4, <3>6, <3>7, <3>8
  <2>11. ASSUME NEW i \in DOMAIN l, l[i].objid = rows[k].id
         PROVE  \E p \in DOMAIN OfFavs[i] : /\ OfFavs[i][p] = rows[k]
                                            /\ \A q \in DOMAIN OfFavs[i] : q = p
    <3>1. PICK G \in Bijection(DOMAIN OfFavs[i], RowsOf(l[i].objid)) :
            \A q \in DOMAIN OfFavs[i] : OfFavs[i][q] = rows[G[q]]
      BY <2>9
    <3>2. /\ \A q \in DOMAIN OfFavs[i] : G[q] \in RowsOf(l[i].objid)
          /\ \A a, b \in DOMAIN OfFavs[i] : G[a] = G[b] => a = b
          /\ \A t \in RowsOf(l[i].objid) : \E a \in DOMAIN OfFavs[i] : G[a] = t
      BY <3>1, Fun_BijectionProperties
    <3>3. RowsOf(l[i].objid) = {k}
      BY <1>1, <1>5, <2>11 DEF RowsOf
    <3>4. PICK p \in DOMAIN OfFavs[i] : G[p] = k
      BY <3>2, <3>3
    <3> QED
      BY <3>1, <3>2, <3>3, <3>4
  <2> DEFINE h == [j \in B |-> g[f[j][1]]]
  <2>12. ASSUME NEW i \in DOMAIN l, l[i].objid = rows[k].id PROVE g[i] \in C
    <3>1. g[i] \in DOMAIN favs /\ favs[g[i]].list = favid /\ l[i] = favs[g[i]]
      BY <2>5, <2>6 DEF ListedFavs
    <3>2. favs[g[i]] = [list |-> favs[g[i]].list, objid |-> favs[g[i]].objid]
      BY <3>1 DEF AreFavs
    <3> QED
      BY <2>12, <3>1, <3>2 DEF C
  <2>13. h \in [B -> C]
    BY <2>10, <2>12
  <2>14. ASSUME NEW a \in B, NEW b \in B, h[a] = h[b] PROVE a = b
    <3>1. f[a][1] = f[b][1]
      BY <2>6, <2>10, <2>14
    <3>2. f[a][2] = f[b][2]
      BY <2>10, <2>11, <3>1
    <3>3. f[a] = f[b]
      <4>1. f[a] = <<f[a][1], f[a][2]>> /\ f[b] = <<f[b][1], f[b][2]>>
        BY <2>10
      <4> QED
        BY <3>1, <3>2, <4>1
    <3> QED
      BY <2>4, <3>3
  <2>15. ASSUME NEW n \in C PROVE \E a \in B : h[a] = n
    <3>1. n \in DOMAIN favs /\ favs[n].list = favid /\ favs[n].objid = rows[k].id
      BY DEF C
    <3>2. PICK i \in DOMAIN l : g[i] = n
      BY <2>6, <3>1 DEF ListedFavs
    <3>3. l[i].objid = rows[k].id
      BY <2>5, <3>1, <3>2
    <3>4. PICK p \in DOMAIN OfFavs[i] : OfFavs[i][p] = rows[k]
      BY <2>11, <3>3
    <3>5. <<i, p>> \in PairsTo(OfFavs, Len(OfFavs))
      BY <2>7, <2>8, <3>2 DEF PairsTo
    <3>6. PICK j \in DOMAIN Selection : f[j] = <<i, p>>
      BY <2>4, <3>5
    <3>7. f[j][1] = i /\ f[j][2] = p
      BY <3>6
    <3>8. Selection[j] = OfFavs[i][p]
      BY <2>1, <2>3, <3>7
    <3>9. j \in B
      BY <3>4, <3>8
    <3> HIDE DEF B
    <3> QED
      BY <3>2, <3>7, <3>9
  <2> HIDE DEF h, B
  <2>16. Cardinality(B) = Cardinality(C)
    BY <1>2, <2>13, <2>14, <2>15, SameSize
  <2> QED
    BY <1>5, <2>16 DEF Times, B, C
<1> QED
  BY <1>3, <1>4, <1>5

-------------------------------------------------------------------------------
(* What a listing has shown *)
\* A listing of the query that is in force has got from the selection what it has
\* read, in its order: first the entries of the root directory up to its index, and
\* then what it shows and what it has still to do
Shows(l, s) ==
  /\ l.query = querystr
  /\ l.pc = "dir" => /\ l.shown = <<>> /\ l.index <= Len(s) + 2
                     /\ Len(l.todo) = IF l.index < 2 THEN 0 ELSE l.index - 2
  /\ l.pc # "dir" => Len(l.shown) + Len(l.todo) = Len(s)
  /\ l.pc = "done" => l.todo = <<>>
  /\ \A k \in DOMAIN l.shown : l.shown[k] = s[k].id
  /\ \A k \in DOMAIN l.todo : l.todo[k] = s[Len(l.shown) + k].id
\* The record of a listing
IsListing(l) ==
  /\ l.index \in Nat /\ IsSeq(l.todo) /\ IsSeq(l.shown)
  /\ l.pc \in {"print", "meta"} => l.todo # <<>>
Good(l) == IsListing(l) /\ (l.pc # "idle" /\ ~l.disturbed => Shows(l, Selection))
\* The directory read that is handled is that of a listing which has not reached
\* the end of the directory when an entry of it is asked for
GenInv == gen # NoGen =>
  /\ lists[gen.at].pc = "dir"
  /\ gen.step = "id" =>
       /\ lists[gen.at].index >= 2
       /\ ~lists[gen.at].disturbed => lists[gen.at].index < Len(Selection) + 2
\* The name of the list that the server uses is the one that was set last
NameKept == "tail" \notin mishaps => favid = wanted
\* The inductive invariant of the listings
ListingInv == NameKept /\ AreFavs(favs) /\ GenInv /\ \A c \in Controllers : Good(lists[c])

\* The selection is a sequence as long as the tables are
LEMMA SelectionSeq == DbInv /\ AreFavs(favs) => IsSeq(Selection) /\ Len(Selection) \in Nat
  BY SelectionRows, SeqIs DEF DbInv, RowsInv, AreRows, AreFavs

\* The selection is a sequence
LEMMA SelectionSequence == IsSeq(rows) /\ IsSeq(favs) => IsSeq(Selection)
  BY SelectionRows

\* What the selection depends on
Given == <<querystr, favid, favs, rows>>
LEMMA SelectionKept ==
  ASSUME UNCHANGED Given
  PROVE  Selection' = Selection /\ querystr' = querystr
<1>1. querystr' = querystr /\ favid' = favid /\ favs' = favs /\ rows' = rows
  BY DEF Given
<1> QED
  BY <1>1 DEF Selection, Those, Map

\* Such a step keeps a record good
LEMMA GoodKept ==
  ASSUME UNCHANGED Given, NEW l, Good(l), NEW d, lists'[d] = l
  PROVE  Good(lists[d])'
<1>1. Selection' = Selection /\ querystr' = querystr
  BY SelectionKept
<1> QED
  BY <1>1 DEF Good, Shows, IsListing

\* A listing steps
LEMMA OneListing ==
  ASSUME AreLists(lists), \A d \in Controllers : Good(lists[d]), NEW c \in Controllers,
         NEW r, Good(r), lists' = [lists EXCEPT ![c] = r], UNCHANGED Given
  PROVE  \A d \in Controllers : Good(lists[d])'
<1>1. TAKE d \in Controllers
<1>2. Good(lists[d]) /\ lists'[d] \in {lists[d], r}
  BY DEF AreLists
<1> QED
  BY <1>2, GoodKept

\* Others list on, unless what they list changes: then they are disturbed
LEMMA OtherListings ==
  ASSUME AreLists(lists), \A d \in Controllers : Good(lists[d]), NEW c, NEW r, NEW change,
         lists' = [Disturb(c, change) EXCEPT ![c] = r], ~change => UNCHANGED Given
  PROVE  \A d \in Controllers \ {c} :
           /\ Good(lists[d])'
           /\ \/ lists'[d] = lists[d]
              \/ change /\ lists'[d] = [lists[d] EXCEPT !.disturbed = TRUE] /\ lists'[d].disturbed
<1> TAKE d \in Controllers \ {c}
<1>1. /\ lists'[d] = IF change /\ lists[d].pc # "idle"
                     THEN [lists[d] EXCEPT !.disturbed = TRUE] ELSE lists[d]
      /\ ListOk(lists[d]) /\ Good(lists[d])
  BY DEF Disturb, AreLists
<1>2. CASE change /\ lists[d].pc # "idle"
  <2>1. lists'[d] = [lists[d] EXCEPT !.disturbed = TRUE]
    BY <1>1, <1>2
  <2> DEFINE l == lists[d]
             r2 == [l EXCEPT !.disturbed = TRUE]
  <2>2. /\ r2.disturbed = TRUE /\ r2.index = l.index /\ r2.todo = l.todo
        /\ r2.shown = l.shown /\ r2.pc = l.pc
    BY <1>1 DEF ListOk
  <2> HIDE DEF r2
  <2>3. IsListing(r2)
    BY <1>1, <2>2 DEF Good, IsListing
  <2>4. lists'[d] = r2
    BY <2>1 DEF r2
  <2>5. IsListing(lists[d])' /\ lists'[d].disturbed
    BY <2>2, <2>3, <2>4 DEF IsListing
  <2> QED
    BY <1>2, <2>1, <2>5 DEF Good
<1>3. CASE ~change
  <2>1. Selection' = Selection /\ querystr' = querystr
    BY <1>3, SelectionKept
  <2>2. lists'[d] = lists[d]
    BY <1>1, <1>3
  <2> QED
    BY <1>1, <2>1, <2>2 DEF Good, Shows, IsListing
<1>4. CASE lists[d].pc = "idle"
  <2>1. lists'[d] = lists[d]
    BY <1>1, <1>4
  <2> QED
    BY <1>1, <1>4, <2>1 DEF Good, IsListing
<1> QED
  BY <1>2, <1>3, <1>4

\* Nothing that the listings depend on changes
LEMMA StillKeepsListings ==
  ASSUME ListingInv, UNCHANGED Given, lists' = lists, wanted' = wanted,
         gen' = gen \/ GenInv', "tail" \in mishaps => "tail" \in mishaps'
  PROVE  ListingInv'
<1>1. Selection' = Selection /\ querystr' = querystr /\ favs' = favs /\ favid' = favid
  BY SelectionKept DEF Given
<1>2. NameKept' /\ AreFavs(favs)'
  BY <1>1 DEF ListingInv, NameKept, AreFavs
<1>3. GenInv'
  BY <1>1 DEF ListingInv, GenInv
<1>4. \A c \in Controllers : Good(lists[c])'
  BY <1>1 DEF ListingInv, Good, Shows, IsListing
<1> QED
  BY <1>2, <1>3, <1>4 DEF ListingInv

\* A step of one listing keeps ListingInv when it keeps its own record good
LEMMA StepKeepsListings ==
  ASSUME ListingInv, RequestInv, UNCHANGED Given, wanted' = wanted,
         "tail" \in mishaps => "tail" \in mishaps',
         NEW c \in Controllers, NEW r, Good(r), lists' = [lists EXCEPT ![c] = r], GenInv'
  PROVE  ListingInv'
<1>1. favs' = favs /\ favid' = favid
  BY DEF Given
<1>2. NameKept' /\ AreFavs(favs)'
  BY <1>1 DEF ListingInv, NameKept, AreFavs
<1>3. \A d \in Controllers : Good(lists[d])'
  BY OneListing DEF ListingInv, RequestInv
<1> QED
  BY <1>2, <1>3 DEF ListingInv

-------------------------------------------------------------------------------
(* What a listing has shown: the root directory is read *)
\* The place where a directory read takes the next entry
LEMMA GenHas ==
  ASSUME ListingInv, RequestInv, gen.step \in {"count", "id"}
  PROVE  /\ gen \in Gens /\ gen # NoGen /\ gen.at \in Controllers
         /\ ListOk(lists[gen.at]) /\ Good(lists[gen.at]) /\ lists[gen.at].pc = "dir"
         /\ gen.step = "id" =>
              /\ lists[gen.at].index >= 2
              /\ ~lists[gen.at].disturbed => lists[gen.at].index < Len(Selection) + 2
<1>1. gen # NoGen
  BY DEF NoGen
<1>2. gen \in Gens /\ gen.at \in Controllers
  BY GenIs DEF RequestInv
<1> QED
  BY <1>1, <1>2 DEF ListingInv, GenInv, RequestInv, AreLists

\* The end of the directory, or an entry of it, is read by a good listing
LEMMA EntryKeepsListings ==
  ASSUME ListingInv, RequestInv, DbInv, gen.step \in {"count", "id"}, NEW ids, Entry(ids),
         UNCHANGED <<dbvars, globals, mishaps>>,
         \/ lists[gen.at].index < 2 /\ ids = <<>>
         \/ /\ gen.step = "id"
            /\ ids = IF lists[gen.at].index - 1 \in DOMAIN Selection
                     THEN <<Selection[lists[gen.at].index - 1].id>> ELSE <<>>
  PROVE  ListingInv'
<1> DEFINE c == gen.at
           l == lists[c]
           r == [[l EXCEPT !.index = l.index + 1] EXCEPT !.todo = l.todo \o ids]
<1>1. /\ gen \in Gens /\ c \in Controllers /\ ListOk(l) /\ Good(l) /\ l.pc = "dir"
      /\ gen.step = "id" =>
           l.index >= 2 /\ (~l.disturbed => l.index < Len(Selection) + 2)
  BY GenHas
<1>2. IsSeq(Selection) /\ Len(Selection) \in Nat /\ DOMAIN Selection = 1 .. Len(Selection)
  BY SelectionSeq, SeqIs DEF ListingInv
<1>3. /\ r.pc = "dir" /\ r.query = l.query /\ r.index = l.index + 1 /\ r.todo = l.todo \o ids
      /\ r.shown = l.shown /\ r.disturbed = l.disturbed
  BY <1>1 DEF ListOk
<1>4. IsSeq(ids) /\ (ids = <<>> \/ (Len(ids) = 1 /\ DOMAIN ids = {1} /\ ids[1] = Selection[l.index - 1].id
                                    /\ l.index - 1 \in DOMAIN Selection))
  <2>1. CASE ids = <<>>
    BY <2>1, EmptyIsSeq
  <2>2. CASE l.index - 1 \in DOMAIN Selection /\ ids = <<Selection[l.index - 1].id>>
    <3> DEFINE e == Selection[l.index - 1].id
    <3> HIDE DEF e
    <3>1. ids = <<e>>
      BY <2>2 DEF e
    <3>2. <<e>> \in Seq({e}) /\ Len(<<e>>) = 1 /\ DOMAIN <<e>> = {1} /\ <<e>>[1] = e
      OBVIOUS
    <3>3. IsSeq(ids)
      BY <3>1, <3>2, ToSetSeq
    <3> QED
      BY <2>2, <3>1, <3>2, <3>3 DEF e
  <2> QED
    BY <2>1, <2>2
<1>5. IsSeq(l.todo) /\ l.index \in Nat /\ IsSeq(l.shown)
  BY <1>1 DEF Good, IsListing
<1>6. /\ IsSeq(l.todo \o ids) /\ Len(l.todo \o ids) = Len(l.todo) + Len(ids)
      /\ \A k \in DOMAIN l.todo : (l.todo \o ids)[k] = l.todo[k]
      /\ \A k \in DOMAIN ids : (l.todo \o ids)[Len(l.todo) + k] = ids[k]
      /\ \A k \in DOMAIN (l.todo \o ids) :
           k \in DOMAIN l.todo \/ (k - Len(l.todo) \in DOMAIN ids /\ (l.todo \o ids)[k] = ids[k - Len(l.todo)])
  BY <1>4, <1>5, ConcatIs
<1>7. lists' = [lists EXCEPT ![c] = r]
  <2>1. lists' = [lists EXCEPT ![c].index = l.index + 1, ![c].todo = l.todo \o ids]
    BY DEF Entry
  <2> HIDE DEF c
  <2> QED
    BY <2>1, TwoFields
<1>8. lists'[c].pc = "dir"
  <2>1. lists'[c] = r
    BY <1>1, <1>7 DEF RequestInv, AreLists
  <2> QED
    BY <1>3, <2>1
<1> HIDE DEF r
<1>9. IsListing(r)
  BY <1>3, <1>5, <1>6 DEF IsListing
<1>10. ASSUME ~l.disturbed PROVE Shows(r, Selection)
  <2>1. /\ l.query = querystr /\ l.shown = <<>>
        /\ l.index <= Len(Selection) + 2
        /\ Len(l.todo) = IF l.index < 2 THEN 0 ELSE l.index - 2
        /\ \A k \in DOMAIN l.todo : l.todo[k] = Selection[Len(l.shown) + k].id
    BY <1>1, <1>10 DEF Good, Shows
  <2>2. Len(<<>>) = 0 /\ DOMAIN <<>> = {} /\ DOMAIN l.todo = 1 .. Len(l.todo) /\ Len(l.todo) \in Nat
    BY <1>5, SeqIs
  <2> DEFINE todo == l.todo
             shown == l.shown
             index == l.index
             n == Len(Selection)
  <2>3. CASE ids = <<>>
    <3>1. l.todo \o ids = l.todo
      <4>1. l.todo \in Seq(ToSet(l.todo))
        BY <1>5 DEF IsSeq
      <4> QED
        BY <2>3, <4>1, ConcatEmptySeq
    <3>2. l.index < 2
      <4>1. CASE gen.step = "id"
        <5>1. l.index - 1 \in 1 .. Len(Selection)
          <6> HIDE DEF l
          <6> QED
            BY <1>1, <1>2, <1>5, <1>10, <4>1
        <5>2. ids # <<>> \/ l.index < 2
          <6> DEFINE e == Selection[l.index - 1].id
          <6>1. <<e>> # <<>>
            OBVIOUS
          <6> HIDE DEF e
          <6> QED
            BY <1>2, <5>1, <6>1 DEF e
        <5> QED
          BY <2>3, <5>2
      <4>2. CASE gen.step # "id"
        BY <4>2
      <4> QED
        BY <4>1, <4>2
    <3>3. r.index <= Len(Selection) + 2 /\ Len(r.todo) = IF r.index < 2 THEN 0 ELSE r.index - 2
      <4>1. Len(r.todo) = 0 /\ r.index = index + 1 /\ index < 2 /\ index \in Nat /\ n \in Nat
        BY <1>2, <1>3, <1>5, <2>1, <3>1, <3>2
      <4> HIDE DEF index, n
      <4> QED
        BY <4>1 DEF n
    <3> QED
      BY <1>3, <2>1, <2>2, <3>1, <3>3 DEF Shows
  <2>4. CASE ids # <<>>
    <3>1. /\ Len(ids) = 1 /\ DOMAIN ids = {1} /\ ids[1] = Selection[l.index - 1].id
          /\ l.index - 1 \in 1 .. Len(Selection)
      BY <1>2, <1>4, <2>4
    <3>2. Len(l.todo) = l.index - 2 /\ l.index >= 2
      BY <1>5, <2>1, <3>1
    <3>3. r.index <= Len(Selection) + 2 /\ Len(r.todo) = IF r.index < 2 THEN 0 ELSE r.index - 2
      <4>1. /\ Len(r.todo) = Len(todo) + 1 /\ r.index = index + 1 /\ index - 1 \in 1 .. n /\ n \in Nat
            /\ Len(todo) = index - 2 /\ index \in Nat
        BY <1>2, <1>3, <1>5, <1>6, <3>1, <3>2
      <4> HIDE DEF index, n, todo
      <4> QED
        BY <4>1 DEF n
    <3>4. ASSUME NEW k \in DOMAIN r.todo PROVE r.todo[k] = Selection[Len(r.shown) + k].id
      <4>1. r.todo = l.todo \o ids /\ r.shown = l.shown
        BY <1>3
      <4>2. CASE k \in DOMAIN l.todo
        BY <1>6, <2>1, <4>1, <4>2
      <4>3. CASE k - Len(l.todo) \in DOMAIN ids /\ (l.todo \o ids)[k] = ids[k - Len(l.todo)]
        <5>1. k - Len(l.todo) = 1 /\ r.todo[k] = Selection[l.index - 1].id
          BY <3>1, <4>1, <4>3
        <5>2. DOMAIN r.todo = 1 .. Len(r.todo) /\ Len(r.todo) \in Nat
          BY <1>6, <4>1, SeqIs
        <5>3. Len(r.shown) = 0 /\ k \in Nat
          BY <2>1, <2>2, <4>1, <5>2
        <5>4. Len(r.shown) + k = l.index - 1
          <6> DEFINE m == Len(todo)
                     sh == Len(r.shown)
          <6>1. m \in Nat /\ k - m = 1 /\ m = index - 2 /\ index \in Nat /\ sh = 0
            BY <1>5, <2>2, <3>2, <5>1, <5>3
          <6> HIDE DEF m, index, sh
          <6>2. sh + k = index - 1
            BY <5>3, <6>1
          <6> QED
            BY <6>2 DEF index, sh
        <5> QED
          BY <5>1, <5>4
      <4> QED
        BY <1>6, <4>1, <4>2, <4>3
    <3> QED
      BY <1>3, <2>1, <2>2, <3>3, <3>4 DEF Shows
  <2> QED
    BY <2>3, <2>4
<1>11. Good(r)
  BY <1>3, <1>9, <1>10 DEF Good
<1>12. GenInv'
  <2>1. CASE gen.room = 1
    BY <2>1 DEF Entry, GenInv
  <2>2. CASE gen.room # 1
    <3>1. gen' = [gen EXCEPT !.room = gen.room - 1, !.step = "count"]
      BY <2>2 DEF Entry
    <3>2. gen'.at = c /\ gen'.step = "count"
      BY <1>1, <3>1 DEF Gens
    <3> QED
      BY <1>8, <3>2 DEF GenInv
  <2> QED
    BY <2>1, <2>2
<1>13. UNCHANGED Given /\ wanted' = wanted
  BY DEF Given, dbvars, globals
<1> HIDE DEF c
<1> QED
  BY <1>1, <1>7, <1>11, <1>12, <1>13, StepKeepsListings DEF c

\* The answer is sent: when it is empty the listing goes on with what it has read
LEMMA RespondKeepsListings ==
  ASSUME ListingInv, RequestInv, DbInv, gen.step = "count", RespondDir,
         lists[gen.at].index >= Len(Selection) + 2, UNCHANGED <<dbvars, globals, mishaps>>
  PROVE  ListingInv'
<1> DEFINE c == gen.at
           l == lists[c]
           r == [l EXCEPT !.pc = Printing(l.todo)]
<1>1. c \in Controllers /\ ListOk(l) /\ Good(l) /\ l.pc = "dir"
  BY GenHas
<1>2. Len(Selection) \in Nat
  BY SelectionSeq DEF ListingInv
<1>3. GenInv' /\ UNCHANGED Given /\ wanted' = wanted
  BY DEF RespondDir, GenInv, Given, dbvars, globals
<1>4. /\ r.pc = Printing(l.todo) /\ r.query = l.query /\ r.index = l.index /\ r.todo = l.todo
      /\ r.shown = l.shown /\ r.disturbed = l.disturbed
  BY <1>1 DEF ListOk
<1>5. lists' = lists \/ lists' = [lists EXCEPT ![c] = r]
  BY DEF RespondDir
<1> HIDE DEF r
<1>6. Good(r)
  <2>1. IsListing(r)
    BY <1>1, <1>4 DEF Good, IsListing, Printing
  <2>2. ASSUME ~l.disturbed PROVE Shows(r, Selection)
    <3>1. /\ l.query = querystr /\ l.shown = <<>> /\ l.index <= Len(Selection) + 2
          /\ Len(l.todo) = IF l.index < 2 THEN 0 ELSE l.index - 2
          /\ \A k \in DOMAIN l.todo : l.todo[k] = Selection[Len(l.shown) + k].id
      BY <1>1, <2>2 DEF Good, Shows
    <3>2. Len(l.shown) + Len(l.todo) = Len(Selection)
      <4> DEFINE m == Len(l.todo)
                 i == l.index
                 n == Len(Selection)
      <4>1. n \in Nat /\ i \in Nat /\ i >= n + 2 /\ i <= n + 2 /\ m = IF i < 2 THEN 0 ELSE i - 2
        BY <1>1, <1>2, <3>1 DEF Good, IsListing
      <4>2. Len(l.shown) = 0
        BY <3>1
      <4> HIDE DEF m, i, n
      <4>3. m = n
        BY <4>1
      <4> QED
        BY <1>2, <4>2, <4>3 DEF m, n
    <3>3. DOMAIN l.shown = {}
      BY <3>1
    <3> QED
      BY <1>4, <3>1, <3>2, <3>3 DEF Shows, Printing
  <2> QED
    BY <1>4, <2>1, <2>2 DEF Good
<1>7. CASE lists' = lists
  BY <1>3, <1>7, StillKeepsListings
<1>8. CASE lists' = [lists EXCEPT ![c] = r]
  <2> HIDE DEF c, l
  <2> QED
    BY <1>1, <1>3, <1>6, <1>8, StepKeepsListings
<1> QED
  BY <1>5, <1>7, <1>8

\* The generators of the root directory
LEMMA RootKeepsListings ==
  ASSUME ListingInv, RequestInv, DbInv, RootCount \/ RootId
  PROVE  ListingInv'
<1>1. gen.step \in {"count", "id"} /\ UNCHANGED <<dbvars, globals, mishaps>>
  BY DEF RootCount, RootId, Down, devvars
<1>2. CASE Down("exit")
  <2>1. UNCHANGED Given /\ lists' = lists /\ wanted' = wanted /\ gen' = gen /\ mishaps' = mishaps
    BY <1>2 DEF Down, Given, dbvars, globals, devvars
  <2> QED
    BY <2>1, StillKeepsListings
<1>3. CASE RootCount /\ ~Down("exit")
  <2>1. gen.step = "count"
    BY <1>3 DEF RootCount
  <2>2. CASE lists[gen.at].index >= Len(Selection) + 2
    <3>1. RespondDir
      BY <1>3, <2>2 DEF RootCount
    <3> QED
      BY <1>1, <2>1, <2>2, <3>1, RespondKeepsListings
  <2>3. CASE ~(lists[gen.at].index >= Len(Selection) + 2) /\ lists[gen.at].index < 2
    <3>1. Entry(<<>>)
      BY <1>3, <2>3 DEF RootCount
    <3> QED
      BY <1>1, <2>3, <3>1, EntryKeepsListings
  <2>4. CASE ~(lists[gen.at].index >= Len(Selection) + 2) /\ ~(lists[gen.at].index < 2)
    <3>1. gen' = [gen EXCEPT !.step = "id"] /\ lists' = lists
      BY <1>3, <2>4 DEF RootCount
    <3> DEFINE l == lists[gen.at]
               n == Len(Selection)
               i == l.index
    <3>2. /\ gen \in Gens /\ gen.at \in Controllers /\ l.pc = "dir" /\ i \in Nat /\ n \in Nat
      BY <1>1, GenHas, SelectionSeq DEF ListingInv, Good, IsListing
    <3>3. gen'.at = gen.at /\ gen'.step = "id"
      BY <3>1, <3>2 DEF Gens
    <3>4. i >= 2 /\ i < n + 2
      <4>1. ~(i >= n + 2) /\ ~(i < 2)
        BY <2>4
      <4> HIDE DEF i, n
      <4> QED
        BY <3>2, <4>1
    <3>5. UNCHANGED Given /\ wanted' = wanted
      BY <1>1 DEF Given, dbvars, globals
    <3>6. Selection' = Selection
      BY <3>5, SelectionKept
    <3>7. GenInv'
      BY <3>1, <3>2, <3>3, <3>4, <3>6 DEF GenInv
    <3> QED
      BY <1>1, <3>1, <3>5, <3>7, StillKeepsListings
  <2> QED
    BY <2>2, <2>3, <2>4
<1>4. CASE RootId /\ ~Down("exit")
  <2> DEFINE ids == IF lists[gen.at].index - 1 \in DOMAIN Selection
                    THEN <<Selection[lists[gen.at].index - 1].id>> ELSE <<>>
  <2>1. gen.step = "id" /\ Entry(ids)
    BY <1>4 DEF RootId
  <2>2. ids = IF lists[gen.at].index - 1 \in DOMAIN Selection
              THEN <<Selection[lists[gen.at].index - 1].id>> ELSE <<>>
    OBVIOUS
  <2> HIDE DEF ids
  <2> QED
    BY <1>1, <2>1, <2>2, EntryKeepsListings
<1> QED
  BY <1>2, <1>3, <1>4

-------------------------------------------------------------------------------
(* What a listing has shown: its other requests *)
\* While a request of others is handled no directory is read
LEMMA NoGenKeeps ==
  ASSUME gen = NoGen, gen' = gen
  PROVE  GenInv'
  BY DEF GenInv

\* A search begins, and others that list are disturbed
LEMMA QueryKeepsListings ==
  ASSUME ListingInv, RequestInv, DbInv, NEW c \in Controllers, LsQuery(c)
  PROVE  ListingInv'
<1>1. PICK q \in Queries :
        /\ querystr' = q
        /\ lists' = [Disturb(c, q # querystr) EXCEPT ![c] = [NoLs EXCEPT !.pc = "dir", !.query = q]]
  BY DEF LsQuery
<1> DEFINE r == [NoLs EXCEPT !.pc = "dir", !.query = q]
           change == q # querystr
<1>2. /\ gen' = gen /\ gen = NoGen /\ favs' = favs /\ rows' = rows /\ favid' = favid
      /\ wanted' = wanted /\ mishaps' = mishaps /\ UNCHANGED dbvars
  BY DEF LsQuery, Free, dbvars, devvars
<1>3. ~change => UNCHANGED Given
  BY <1>1, <1>2 DEF Given
<1>4. NameKept' /\ AreFavs(favs)' /\ GenInv'
  BY <1>2, NoGenKeeps DEF ListingInv, NameKept, AreFavs
<1>5. /\ r.pc = "dir" /\ r.query = q /\ r.index = 0 /\ r.todo = <<>> /\ r.shown = <<>>
      /\ r.disturbed = FALSE
  BY DEF NoLs
<1>6. lists'[c] = r
  <2>1. DOMAIN Disturb(c, q # querystr) = Controllers
    BY DEF Disturb
  <2> HIDE DEF r
  <2> QED
    BY <1>1, <2>1 DEF r
<1>7. lists' = [Disturb(c, change) EXCEPT ![c] = r]
  BY <1>1
<1> HIDE DEF r, change
<1>8. \A d \in Controllers \ {c} : Good(lists[d])'
  BY <1>3, <1>7, OtherListings DEF ListingInv, RequestInv
<1>9. Len(Selection') \in Nat
  <2>1. querystr' = q /\ favs' = favs /\ rows' = rows
    BY <1>1, <1>2
  <2>2. IsSeq(rows)' /\ IsSeq(favs)'
    BY <2>1 DEF DbInv, RowsInv, AreRows, ListingInv, AreFavs
  <2>3. IsSeq(rows) /\ IsSeq(favs) => IsSeq(Selection)
    BY SelectionRows
  <2>4. IsSeq(Selection)'
    BY <2>2, SelectionSequence, PTL
  <2>5. \A s : IsSeq(s) => Len(s) \in Nat
    BY SeqIs
  <2> QED
    BY <2>4, <2>5 DEF IsSeq
<1>10. Good(lists[c])'
  <2>1. Good(lists[c])' = Good(r)'
    BY <1>6 DEF Good, IsListing, Shows
  <2>2. IsListing(r)'
    BY <1>5, EmptyIsSeq DEF IsListing, IsSeq
  <2>3. Shows(r, Selection)'
    BY <1>1, <1>5, <1>9 DEF Shows
  <2> QED
    BY <2>1, <2>2, <2>3 DEF Good
<1> QED
  BY <1>4, <1>8, <1>10 DEF ListingInv

\* A directory read begins
LEMMA ReadKeepsListings ==
  ASSUME ListingInv, NEW c \in Controllers, LsRead(c)
  PROVE  ListingInv'
<1>1. /\ UNCHANGED Given /\ lists' = lists /\ wanted' = wanted /\ mishaps' = mishaps
      /\ gen' = [at |-> c, room |-> PerMessage, step |-> "count"] /\ lists[c].pc = "dir"
  BY DEF LsRead, Given, dbvars, globals, devvars
<1>2. gen'.at = c /\ gen'.step = "count"
  BY <1>1
<1>3. GenInv'
  BY <1>1, <1>2 DEF GenInv
<1> QED
  BY <1>1, <1>3, StillKeepsListings

\* To close a descriptor forgets no mishap
LEMMA CloseRemembers == \A n, mine : Close(n, mine) => mishaps \subseteq mishaps'
  BY DEF Close

\* Nor does a stat
LEMMA StatRemembers == \A id : StatData(id) => mishaps \subseteq mishaps'
  BY CloseRemembers DEF StatData

\* The size of an object is asked for
LEMMA StatKeepsListings ==
  ASSUME ListingInv, RequestInv, NEW c \in Controllers, LsStat(c)
  PROVE  ListingInv'
<1> DEFINE l == lists[c]
           r == [l EXCEPT !.pc = "meta"]
<1>1. /\ UNCHANGED Given /\ wanted' = wanted /\ gen' = gen /\ gen = NoGen
      /\ lists' = [lists EXCEPT ![c] = r] /\ l.pc = "print"
      /\ \E id : StatData(id)
  BY DEF LsStat, Given, dbvars, globals, Free
<1>2. "tail" \in mishaps => "tail" \in mishaps'
  BY <1>1, StatRemembers
<1>3. ListOk(l) /\ Good(l)
  BY DEF RequestInv, AreLists, ListingInv
<1>4. /\ r.pc = "meta" /\ r.query = l.query /\ r.index = l.index /\ r.todo = l.todo
      /\ r.shown = l.shown /\ r.disturbed = l.disturbed
  BY <1>3 DEF ListOk
<1> HIDE DEF r, l
<1>5. Good(r)
  BY <1>1, <1>3, <1>4 DEF Good, IsListing, Shows
<1>6. GenInv'
  BY <1>1, NoGenKeeps
<1> QED
  BY <1>1, <1>2, <1>5, <1>6, StepKeepsListings

\* The first element of a sequence, and the others
LEMMA HeadTailIs ==
  ASSUME NEW s, IsSeq(s), s # <<>>
  PROVE  /\ Head(s) = s[1] /\ IsSeq(Tail(s)) /\ Len(Tail(s)) = Len(s) - 1 /\ Len(s) >= 1
         /\ \A k \in DOMAIN Tail(s) : Tail(s)[k] = s[k + 1] /\ k + 1 \in DOMAIN s
         /\ 1 \in DOMAIN s
<1>1. s \in Seq(ToSet(s)) /\ DOMAIN s = 1 .. Len(s) /\ Len(s) \in Nat /\ Len(s) # 0
  BY SeqIs DEF IsSeq
<1>2. /\ Head(s) = s[1] /\ Tail(s) \in Seq(ToSet(s)) /\ Len(Tail(s)) = Len(s) - 1
      /\ \A k \in 1 .. Len(Tail(s)) : Tail(s)[k] = s[k + 1]
  BY <1>1, HeadTailProperties
<1>3. IsSeq(Tail(s)) /\ DOMAIN Tail(s) = 1 .. Len(Tail(s))
  BY <1>2, ToSetSeq, SeqIs
<1> QED
  BY <1>1, <1>2, <1>3

\* The meta data of an object is shown; when it has none, it is not among what the
\* selection has
LEMMA MetaKeepsListings ==
  ASSUME ListingInv, RequestInv, DbInv, NEW c \in Controllers, LsMeta(c)
  PROVE  ListingInv'
<1> DEFINE l == lists[c]
           id == Head(l.todo)
           left == Tail(l.todo)
           all == Append(l.shown, id)
<1>1. /\ UNCHANGED Given /\ wanted' = wanted /\ gen' = gen /\ gen = NoGen
      /\ l.pc = "meta" /\ mishaps' = mishaps
      /\ lists' = IF ObjectOf(id) = <<>> THEN [lists EXCEPT ![c].pc = "done"]
                  ELSE [lists EXCEPT ![c].pc = Printing(left), ![c].todo = left, ![c].shown = all]
  BY DEF LsMeta, Given, dbvars, globals, devvars, Free
<1>2. ListOk(l) /\ Good(l)
  BY DEF RequestInv, AreLists, ListingInv
<1>3. GenInv'
  BY <1>1, NoGenKeeps
<1>4. /\ IsSeq(l.todo) /\ IsSeq(l.shown) /\ l.todo # <<>>
      /\ l.index \in Nat
  BY <1>1, <1>2 DEF Good, IsListing
<1>5. /\ id = l.todo[1] /\ IsSeq(left) /\ Len(left) = Len(l.todo) - 1 /\ Len(l.todo) >= 1
      /\ \A k \in DOMAIN left : left[k] = l.todo[k + 1] /\ k + 1 \in DOMAIN l.todo
      /\ 1 \in DOMAIN l.todo
  BY <1>4, HeadTailIs
<1>6. /\ Len(l.todo) \in Nat /\ Len(l.shown) \in Nat /\ DOMAIN l.shown = 1 .. Len(l.shown)
      /\ DOMAIN left = 1 .. Len(left) /\ DOMAIN l.todo = 1 .. Len(l.todo)
      /\ (left = <<>> <=> Len(left) = 0)
  BY <1>4, <1>5, SeqIs
<1>7. /\ IsSeq(all) /\ Len(all) = Len(l.shown) + 1
      /\ \A k \in DOMAIN l.shown : all[k] = l.shown[k]
      /\ all[Len(l.shown) + 1] = id
  BY <1>4, AppendIs
<1>8. IsSeq(Selection) /\ Len(Selection) \in Nat /\ DOMAIN Selection = 1 .. Len(Selection)
  BY SelectionSeq, SeqIs DEF ListingInv
<1>9. ASSUME ~l.disturbed
      PROVE  /\ l.query = querystr /\ Len(l.shown) + Len(l.todo) = Len(Selection)
             /\ \A k \in DOMAIN l.shown : l.shown[k] = Selection[k].id
             /\ \A k \in DOMAIN l.todo : l.todo[k] = Selection[Len(l.shown) + k].id
  BY <1>1, <1>2, <1>9 DEF Good, Shows
<1>10. CASE ObjectOf(id) = <<>>
  <2> DEFINE r == [l EXCEPT !.pc = "done"]
  <2>1. lists' = [lists EXCEPT ![c] = r]
    BY <1>1, <1>10
  <2>2. /\ r.pc = "done" /\ r.query = l.query /\ r.index = l.index /\ r.todo = l.todo
        /\ r.shown = l.shown /\ r.disturbed = l.disturbed
    BY <1>2 DEF ListOk
  <2>3. ASSUME ~l.disturbed PROVE FALSE
    <3> DEFINE j == Len(l.shown) + 1
    <3>1. id = Selection[j].id
      BY <1>5, <1>9, <2>3
    <3>2. j \in DOMAIN Selection
      <4> DEFINE m == Len(l.todo)
                 s == Len(l.shown)
                 n == Len(Selection)
      <4>1. m \in Nat /\ s \in Nat /\ n \in Nat /\ s + m = n /\ m >= 1 /\ j = s + 1
        BY <1>5, <1>6, <1>8, <1>9, <2>3
      <4> HIDE DEF m, s, n, j
      <4>2. j \in 1 .. n
        BY <4>1
      <4> QED
        BY <1>8, <4>2 DEF n
    <3> HIDE DEF j
    <3>3. IsSeq(rows) /\ IsSeq(favs)
      BY DEF DbInv, RowsInv, AreRows, ListingInv, AreFavs
    <3>4. PICK k \in DOMAIN rows : Selection[j] = rows[k]
      BY <3>2, <3>3, SelectionRows
    <3> DEFINE K == {i \in DOMAIN rows : rows[i].id = id}
    <3>5. ObjectOf(id) = Picked(rows, K)
      BY DEF ObjectOf, Those
    <3>6. k \in K \cap DOMAIN rows
      BY <3>1, <3>4
    <3> HIDE DEF K, id
    <3>7. PICK f \in Bijection(DOMAIN Picked(rows, K), K \cap DOMAIN rows) :
            \A q \in DOMAIN Picked(rows, K) : Picked(rows, K)[q] = rows[f[q]]
      BY <3>3, PickedIs
    <3>8. \E q \in DOMAIN Picked(rows, K) : f[q] = k
      BY <3>6, <3>7, Fun_BijectionProperties
    <3>9. DOMAIN <<>> = {}
      OBVIOUS
    <3> QED
      BY <1>10, <3>5, <3>8, <3>9
  <2> HIDE DEF r, l
  <2>4. Good(r)
    BY <1>2, <2>2, <2>3 DEF Good, IsListing
  <2> QED
    BY <1>1, <1>3, <2>1, <2>4, StepKeepsListings
<1>11. CASE ObjectOf(id) # <<>>
  <2> DEFINE one == [l EXCEPT !.pc = Printing(left)]
             two == [one EXCEPT !.todo = left]
             r == [two EXCEPT !.shown = all]
  <2>1. lists' = [lists EXCEPT ![c] = r]
    <3>1. lists' = [lists EXCEPT ![c].pc = Printing(left), ![c].todo = left, ![c].shown = all]
      BY <1>1, <1>11
    <3> HIDE DEF left, all
    <3> QED
      BY <3>1
  <2>2. /\ r.pc = Printing(left) /\ r.query = l.query /\ r.index = l.index /\ r.todo = left
        /\ r.shown = all /\ r.disturbed = l.disturbed
    <3> HIDE DEF left, all
    <3>1. /\ one.pc = Printing(left) /\ one.query = l.query /\ one.index = l.index /\ one.todo = l.todo
          /\ one.shown = l.shown /\ one.disturbed = l.disturbed
          /\ DOMAIN one = {"pc", "query", "index", "todo", "shown", "disturbed"}
      BY <1>2 DEF ListOk
    <3> HIDE DEF one
    <3>2. /\ two.pc = Printing(left) /\ two.query = l.query /\ two.index = l.index /\ two.todo = left
          /\ two.shown = l.shown /\ two.disturbed = l.disturbed
          /\ DOMAIN two = {"pc", "query", "index", "todo", "shown", "disturbed"}
      BY <3>1
    <3> HIDE DEF two
    <3> QED
      BY <3>2
  <2> HIDE DEF r
  <2>3. IsListing(r)
    BY <1>4, <1>5, <1>7, <2>2 DEF IsListing, Printing
  <2>4. ASSUME ~l.disturbed PROVE Shows(r, Selection)
    <3> DEFINE m == Len(l.todo)
               s == Len(l.shown)
               n == Len(Selection)
    <3>1. m \in Nat /\ s \in Nat /\ n \in Nat /\ s + m = n /\ m >= 1
      BY <1>5, <1>6, <1>8, <1>9, <2>4
    <3>2. Len(all) = s + 1 /\ Len(left) = m - 1 /\ DOMAIN left = 1 .. (m - 1)
      BY <1>5, <1>6, <1>7
    <3>3. DOMAIN all = 1 .. (s + 1)
      BY <1>7, <3>2, SeqIs
    <3>4. /\ \A k \in 1 .. s : l.shown[k] = Selection[k].id
          /\ \A k \in 1 .. m : l.todo[k] = Selection[s + k].id
          /\ \A k \in 1 .. s : all[k] = l.shown[k]
          /\ all[s + 1] = l.todo[1]
          /\ \A k \in 1 .. (m - 1) : left[k] = l.todo[k + 1]
      BY <1>5, <1>6, <1>7, <1>9, <2>4, <3>2
    <3>5. r.query = querystr /\ r.pc \in {"done", "print"} /\ (r.pc = "done" => r.todo = <<>>)
      BY <1>9, <2>2, <2>4 DEF Printing
    <3> HIDE DEF m, s, n, left, all
    <3>6. Len(all) + Len(left) = n
      BY <3>1, <3>2
    <3>7. ASSUME NEW k \in 1 .. (s + 1) PROVE all[k] = Selection[k].id
      <4>1. CASE k = s + 1
        <5>1. 1 \in 1 .. m
          BY <3>1
        <5> QED
          BY <3>4, <4>1, <5>1
      <4>2. CASE k # s + 1
        <5>1. k \in 1 .. s
          BY <3>1, <4>2
        <5> QED
          BY <3>4, <5>1
      <4> QED
        BY <4>1, <4>2
    <3>8. ASSUME NEW k \in 1 .. (m - 1) PROVE left[k] = Selection[Len(all) + k].id
      <4>1. k + 1 \in 1 .. m /\ s + (k + 1) = (s + 1) + k
        BY <3>1
      <4> QED
        BY <3>2, <3>4, <4>1
    <3> QED
      BY <2>2, <3>2, <3>3, <3>5, <3>6, <3>7, <3>8 DEF Shows, n
  <2>5. Good(r)
    BY <2>2, <2>3, <2>4 DEF Good
  <2> QED
    BY <1>1, <1>3, <2>1, <2>5, StepKeepsListings
<1> QED
  BY <1>10, <1>11

-------------------------------------------------------------------------------
(* What a listing has shown: favourites, the scanner and the players *)
\* Rows that are appended or picked are rows of fav
LEMMA FavsAppended ==
  ASSUME AreFavs(favs), NEW x, NEW y
  PROVE  AreFavs(Append(favs, [list |-> x, objid |-> y]))
<1> DEFINE e == [list |-> x, objid |-> y]
           new == Append(favs, e)
<1>1. e = [list |-> e.list, objid |-> e.objid]
  OBVIOUS
<1> HIDE DEF e
<1>2. /\ IsSeq(new) /\ Len(new) = Len(favs) + 1
      /\ \A k \in DOMAIN favs : new[k] = favs[k]
      /\ new[Len(favs) + 1] = e
  BY AppendIs DEF AreFavs
<1>3. DOMAIN new = 1 .. Len(new) /\ DOMAIN favs = 1 .. Len(favs) /\ Len(favs) \in Nat
  BY <1>2, SeqIs DEF AreFavs
<1> HIDE DEF new
<1>4. \A k \in DOMAIN new : k \in DOMAIN favs \/ k = Len(favs) + 1
  BY <1>2, <1>3
<1>5. AreFavs(new)
  BY <1>1, <1>2, <1>4 DEF AreFavs
<1> QED
  BY <1>5 DEF new, e

\* Some of the favourites are favourites
LEMMA FavsPicked ==
  ASSUME AreFavs(favs), NEW K
  PROVE  AreFavs(Picked(favs, K))
<1> DEFINE s == Picked(favs, K)
<1>1. IsSeq(s)
  BY PickedIs DEF AreFavs
<1>2. PICK f \in Bijection(DOMAIN s, K \cap DOMAIN favs) : \A j \in DOMAIN s : s[j] = favs[f[j]]
  BY PickedIs DEF AreFavs
<1> HIDE DEF s
<1>3. \A j \in DOMAIN s : f[j] \in DOMAIN favs
  BY <1>2, Fun_BijectionProperties
<1>4. AreFavs(s)
  BY <1>1, <1>2, <1>3 DEF AreFavs
<1> QED
  BY <1>4 DEF s

\* A name that is no shorter than the one before replaces it
LEMMA NameReplaced ==
  ASSUME NEW old \in Seq(STRING), NEW new \in Seq(STRING), ~(Len(new) < Len(old))
  PROVE  new \o SubSeq(old, Len(new) + 1, Len(old)) = new
<1>1. Len(old) \in Nat /\ Len(new) \in Nat
  BY LenProperties
<1>2. SubSeq(old, Len(new) + 1, Len(old)) = <<>>
  BY <1>1
<1> QED
  BY <1>2, ConcatEmptySeq

\* A controller changes the favourites, and others that list are disturbed
LEMMA FavKeepsListings ==
  ASSUME ListingInv, RequestInv, NamesShape, NEW c \in Controllers, Fav(c)
  PROVE  ListingInv'
<1>1. PICK words \in Commands :
        FavAdd(c, words) \/ FavDel(c, words) \/ FavSet(c, words) \/ FavSetNone(c, words)
  BY DEF Fav
<1>2. gen' = gen /\ gen = NoGen /\ rows' = rows
  BY DEF Fav, Free
<1>3. GenInv'
  BY <1>2, NoGenKeeps
<1>4. querystr' = querystr
  BY <1>1 DEF FavAdd, FavDel, FavSet, FavSetNone, FavWrites, globals
<1>5. NameKept' /\ AreFavs(favs)'
  <2>1. ASSUME NEW new, FavWrites(c, new), AreFavs(new) PROVE NameKept' /\ AreFavs(favs)'
    <3>1. favs' \in {favs, new} /\ favid' = favid /\ wanted' = wanted /\ mishaps' = mishaps
      BY <2>1 DEF FavWrites, globals
    <3> QED
      BY <2>1, <3>1 DEF ListingInv, NameKept, AreFavs
  <2>2. CASE FavAdd(c, words)
    BY <2>1, <2>2, FavsAppended DEF FavAdd, ListingInv
  <2>3. CASE FavDel(c, words)
    <3> DEFINE K == {k \in DOMAIN favs : favs[k] # [list |-> words[3], objid |-> words[4]]}
    <3>1. FavWrites(c, Picked(favs, K))
      BY <2>3 DEF FavDel, Those
    <3> HIDE DEF K
    <3> QED
      BY <2>1, <3>1, FavsPicked DEF ListingInv
  <2>4. CASE FavSet(c, words)
    <3>1. /\ favid' = words[3] \o SubSeq(favid, Len(words[3]) + 1, Len(favid)) /\ wanted' = words[3]
          /\ mishaps' = IF Len(words[3]) < Len(favid) THEN mishaps \cup {"tail"} ELSE mishaps
          /\ favs' = favs /\ Len(words) = 3
      BY <2>4 DEF FavSet
    <3>2. words[3] \in Seq(STRING) /\ favid \in Seq(STRING)
      BY <3>1, CommandAssumption DEF NamesShape
    <3>3. ~(Len(words[3]) < Len(favid)) => favid' = wanted'
      BY <3>1, <3>2, NameReplaced
    <3> QED
      BY <3>1, <3>3 DEF ListingInv, NameKept, AreFavs
  <2>5. CASE FavSetNone(c, words)
    BY <2>5 DEF FavSetNone, ListingInv, NameKept, AreFavs
  <2> QED
    BY <1>1, <2>2, <2>3, <2>4, <2>5
<1>6. \E change : /\ lists' = [Disturb(c, change) EXCEPT ![c] = NoLs]
                  /\ ~change => favs' = favs /\ favid' = favid
  <2>1. ASSUME NEW new, FavWrites(c, new)
        PROVE  lists' = [Disturb(c, favs' # favs) EXCEPT ![c] = NoLs] /\ favid' = favid
    BY <2>1 DEF FavWrites, globals
  <2>2. CASE FavAdd(c, words) \/ FavDel(c, words)
    <3>1. lists' = [Disturb(c, favs' # favs) EXCEPT ![c] = NoLs] /\ favid' = favid
      BY <2>1, <2>2 DEF FavAdd, FavDel
    <3> DEFINE change == favs' # favs
    <3>2. lists' = [Disturb(c, change) EXCEPT ![c] = NoLs] /\ (~change => favs' = favs /\ favid' = favid)
      BY <3>1
    <3> HIDE DEF change
    <3> QED
      BY <3>2
  <2>3. CASE FavSet(c, words) \/ FavSetNone(c, words)
    <3> DEFINE change == favid' # favid
    <3>1. lists' = [Disturb(c, change) EXCEPT ![c] = NoLs] /\ (~change => favs' = favs /\ favid' = favid)
      BY <2>3 DEF FavSet, FavSetNone
    <3> HIDE DEF change
    <3> QED
      BY <3>1
  <2> QED
    BY <1>1, <2>2, <2>3
<1>7. PICK change : /\ lists' = [Disturb(c, change) EXCEPT ![c] = NoLs]
                    /\ ~change => favs' = favs /\ favid' = favid
  BY <1>6
<1>8. ~change => UNCHANGED Given
  BY <1>2, <1>4, <1>7 DEF Given
<1>9. \A d \in Controllers \ {c} : Good(lists[d])'
  BY <1>7, <1>8, OtherListings DEF ListingInv, RequestInv
<1>10. Good(lists[c])'
  <2>1. lists'[c] = NoLs
    BY <1>7 DEF Disturb
  <2>2. /\ NoLs.pc = "idle" /\ NoLs.index = 0 /\ NoLs.todo = <<>> /\ NoLs.shown = <<>>
    BY DEF NoLs
  <2> QED
    BY <2>1, <2>2, EmptyIsSeq DEF Good, IsListing, IsSeq
<1> QED
  BY <1>3, <1>5, <1>9, <1>10 DEF ListingInv

\* The scanner writes: a listing whose tables it changes is disturbed
LEMMA ScanningKeepsListings ==
  ASSUME ListingInv, RequestInv, Scanning
  PROVE  ListingInv'
<1>1. /\ lists' = Disturb(None, Changes) /\ gen' = gen /\ mishaps' = mishaps
      /\ querystr' = querystr /\ favid' = favid /\ wanted' = wanted
      /\ \E lock : ScanStep(lock)
  BY DEF Scanning, globals, devvars
<1>2. favs' = favs \/ favs' = <<>>
  BY <1>1 DEF ScanStep, ScanStart, DropObj, DropFav, CreateObj, CreateFav, Tag, Commit, Refused, dbvars
<1>3. NameKept' /\ AreFavs(favs)'
  BY <1>1, <1>2, EmptyIsSeq DEF ListingInv, NameKept, AreFavs
<1>4. ~Changes => UNCHANGED Given
  BY <1>1 DEF Given, Changes
<1> DEFINE change == Changes
<1>5. None \notin Controllers
  BY ServerAssumption DEF None
<1>6. lists' = [Disturb(None, change) EXCEPT ![None] = NoLs]
  <2>1. Disturb(None, change) = [d \in Controllers |-> Disturb(None, change)[d]]
    BY DEF Disturb
  <2> QED
    BY <1>1, <1>5, <2>1
<1>7. ~change => UNCHANGED Given
  BY <1>4
<1> HIDE DEF change
<1>8. \A d \in Controllers \ {None} :
        /\ Good(lists[d])'
        /\ \/ lists'[d] = lists[d]
           \/ change /\ lists'[d] = [lists[d] EXCEPT !.disturbed = TRUE] /\ lists'[d].disturbed
  BY <1>6, <1>7, OtherListings DEF ListingInv, RequestInv
<1>9. GenInv'
  <2>1. CASE gen = NoGen
    BY <1>1, <2>1, NoGenKeeps
  <2>2. CASE gen # NoGen
    <3>1. gen.at \in Controllers
      BY <2>2 DEF RequestInv, GenShape, Gens
    <3> DEFINE l == lists[gen.at]
               m == lists'[gen.at]
    <3>2. m = l \/ (change /\ m = [l EXCEPT !.disturbed = TRUE] /\ m.disturbed)
      BY <1>5, <1>8, <3>1
    <3>3. ListOk(l) /\ l.pc = "dir" /\ (gen.step = "id" => l.index >= 2
            /\ (~l.disturbed => l.index < Len(Selection) + 2))
      BY <2>2, <3>1 DEF RequestInv, AreLists, ListingInv, GenInv
    <3>4. m.pc = l.pc /\ m.index = l.index /\ (~m.disturbed => m = l)
      BY <3>2, <3>3 DEF ListOk
    <3>5. CASE change
      <4>1. lists[gen.at].pc = "dir" => m.disturbed
        <5>1. m = IF change /\ lists[gen.at].pc # "idle"
                  THEN [lists[gen.at] EXCEPT !.disturbed = TRUE] ELSE lists[gen.at]
          BY <1>5, <1>6, <3>1 DEF Disturb
        <5> QED
          BY <3>3, <3>5, <5>1 DEF ListOk
      <4> QED
        BY <1>1, <3>3, <3>4, <4>1 DEF GenInv
    <3>6. CASE ~change
      <4>1. Selection' = Selection
        BY <1>7, <3>6, SelectionKept
      <4>2. m = l
        BY <3>2, <3>6
      <4> QED
        BY <1>1, <3>3, <4>1, <4>2 DEF GenInv
    <3> QED
      BY <3>5, <3>6
  <2> QED
    BY <2>1, <2>2
<1> QED
  BY <1>3, <1>5, <1>8, <1>9 DEF ListingInv

\* A player leaves the listings alone
LEMMA PlayingKeepsListings ==
  ASSUME ListingInv, NEW p, Playing(p)
  PROVE  ListingInv'
<1>1. UNCHANGED <<dbvars, globals, gen, lists>>
  BY DEF Playing, PlayStat, PlayOpenFile, PlayOpenDvb, PlayReadFile, PlayReadDvb, PlayClose,
         PlayCloseFreed, Down
<1>2. "tail" \in mishaps => "tail" \in mishaps'
  <2>1. CASE mishaps' = mishaps
    BY <2>1
  <2>2. CASE PlayStat(p)
    BY <2>2, StatRemembers DEF PlayStat
  <2>3. CASE PlayOpenDvb(p)
    <3>1. CASE Down("freed")
      BY <2>1, <3>1 DEF Down, devvars
    <3>2. CASE DvbStream(p, AuxObj(plays[p].id).objpath)
      BY <3>2 DEF DvbStream, Unknown, Refuse, Start, NoFrontend
    <3> QED
      BY <2>3, <3>1, <3>2 DEF PlayOpenDvb
  <2>4. CASE PlayClose(p)
    BY <2>4, CloseRemembers DEF PlayClose, DvbFreeStream
  <2>5. CASE PlayOpenFile(p) \/ PlayReadFile(p) \/ PlayReadDvb(p) \/ PlayCloseFreed(p)
    BY <2>1, <2>5 DEF PlayOpenFile, PlayReadFile, PlayReadDvb, PlayCloseFreed, Down, devvars
  <2> QED
    BY <2>2, <2>3, <2>4, <2>5 DEF Playing
<1> QED
  BY <1>1, <1>2, StillKeepsListings DEF Given, dbvars, globals

\* ListingInv is inductive, given DbInv, RequestInv and NamesShape
LEMMA NextKeepsListings ==
  ListingInv /\ DbInv /\ RequestInv /\ NamesShape /\ [Next]_vars => ListingInv'
<1> SUFFICES ASSUME ListingInv, DbInv, RequestInv, NamesShape, [Next]_vars PROVE ListingInv'
  OBVIOUS
<1>1. CASE UNCHANGED vars
  BY <1>1, StillKeepsListings DEF vars, dbvars, globals, devvars, Given
<1>2. CASE \E c \in Controllers \cap active : Listing(c) \/ Fav(c)
  BY <1>2, QueryKeepsListings, ReadKeepsListings, StatKeepsListings, MetaKeepsListings,
     FavKeepsListings DEF Listing
<1>3. CASE RootCount \/ RootId
  BY <1>3, RootKeepsListings
<1>4. CASE \E p \in Handles \cap active : Playing(p)
  BY <1>4, PlayingKeepsListings
<1>5. CASE Scanning
  BY <1>5, ScanningKeepsListings
<1> QED
  BY <1>1, <1>2, <1>3, <1>4, <1>5 DEF Next

\* ListingInv holds at first
LEMMA ListingsStart == Init => ListingInv
<1> SUFFICES ASSUME Init PROVE ListingInv
  OBVIOUS
<1>1. favid = <<>> /\ wanted = <<>> /\ gen = NoGen /\ lists = [c \in Controllers |-> NoLs]
  BY DEF Init
<1>2. PICK w \in Worlds : favs = w.favs
  BY DEF Init
<1>3. AreFavs(favs)
  BY <1>2, WorldAssumption DEF AreFavs, IsSeq
<1>4. NoLs.pc = "idle" /\ NoLs.index = 0 /\ NoLs.todo = <<>> /\ NoLs.shown = <<>>
  BY DEF NoLs
<1>5. \A c \in Controllers : Good(lists[c])
  BY <1>1, <1>4, EmptyIsSeq DEF Good, IsListing
<1> QED
  BY <1>1, <1>3, <1>5 DEF ListingInv, NameKept, GenInv

\* A complete listing shows what belongs into it
LEMMA ListingInvGives == DbInv /\ ListingInv => ListingTrue
<1> SUFFICES ASSUME DbInv, ListingInv, NEW c \in Controllers,
                    lists[c].pc = "done", ~lists[c].disturbed, "tail" \notin mishaps
             PROVE  LET shown == lists[c].shown
                        times(id) == Cardinality({k \in DOMAIN shown : shown[k] = id})
                    IN /\ \A k \in DOMAIN rows : times(rows[k].id) = Belongs(rows[k], lists[c].query)
                       /\ ToSet(shown) \subseteq IdsIn(rows)
  BY DEF ListingTrue
<1> DEFINE shown == lists[c].shown
<1>1. /\ IsSeq(shown) /\ Len(shown) + Len(lists[c].todo) = Len(Selection) /\ lists[c].todo = <<>>
      /\ lists[c].query = querystr /\ \A k \in DOMAIN shown : shown[k] = Selection[k].id
  BY DEF ListingInv, Good, IsListing, Shows
<1>2. IsSeq(Selection) /\ AreRows(rows) /\ AreFavs(favs) /\ IsSeq(rows) /\ IsSeq(favs)
  BY SelectionSeq DEF DbInv, RowsInv, ListingInv, AreRows, AreFavs
<1>3. DOMAIN shown = DOMAIN Selection
  <2>1. Len(lists[c].todo) = 0
    BY <1>1
  <2>2. Len(shown) \in Nat /\ Len(Selection) \in Nat
    BY <1>1, <1>2, SeqIs
  <2> DEFINE m == Len(shown)
             n == Len(Selection)
             z == Len(lists[c].todo)
  <2>3. m \in Nat /\ n \in Nat /\ z = 0 /\ m + z = n
    BY <1>1, <2>1, <2>2
  <2> HIDE DEF m, n, z
  <2>4. m = n
    BY <2>3
  <2> QED
    BY <1>1, <1>2, <2>4, SeqIs DEF m, n
<1>4. favid = wanted
  BY DEF ListingInv, NameKept
<1>5. ASSUME NEW k \in DOMAIN rows
      PROVE  Cardinality({j \in DOMAIN shown : shown[j] = rows[k].id}) = Belongs(rows[k], lists[c].query)
  <2>1. {j \in DOMAIN shown : shown[j] = rows[k].id}
          = {j \in DOMAIN Selection : Selection[j].id = rows[k].id}
    BY <1>1, <1>3
  <2>2. Times(rows[k]) = Belongs(rows[k], lists[c].query)
    BY <1>1, <1>4 DEF Times, Belongs, Matches
  <2> QED
    BY <1>2, <2>1, <2>2, SelectionCounts
<1>6. ToSet(shown) \subseteq IdsIn(rows)
  <2>1. \A j \in DOMAIN shown : \E k \in DOMAIN rows : Selection[j] = rows[k]
    BY <1>2, <1>3, SelectionRows
  <2> QED
    BY <1>1, <2>1 DEF ToSet, IdsIn
<1> QED
  BY <1>5, <1>6

\* A listing is true (src/serve.c, rootgen and srvread; src/control.c, xls), although
\* it is put together from many requests between which others act: a listing that is
\* complete and was not disturbed shows each object that matches its query as often
\* as the list that was set last has it, and nothing else.
THEOREM ListingsAreTrue == Spec => []ListingTrue
<1>1. Init => ServerInv /\ ListingInv
  BY DbStarts, DeviceStarts, PlaysStart, RequestsStart, NamesStart, TablesStart, ListingsStart DEF ServerInv
<1>2. ServerInv /\ ListingInv /\ [Next]_vars => (ServerInv /\ ListingInv)'
  BY NextKeepsDb, NextKeepsDevice, NextKeepsPlays, NextKeepsRequests, NextKeepsNames, NextKeepsTables,
     NextKeepsListings DEF ServerInv
<1>3. ServerInv /\ ListingInv => ListingTrue
  BY ListingInvGives DEF ServerInv
<1> QED
  BY <1>1, <1>2, <1>3, PTL DEF Spec

===============================================================================
