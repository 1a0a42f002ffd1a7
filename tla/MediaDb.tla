------------------------------- MODULE MediaDb -------------------------------
(***************************************************************************)
(* The database of the media server and the scanner that fills it          *)
(* (scan.c). The scanner is a process of its own: it drops and creates the *)
(* tables one statement after the other, and then puts a row for each file *)
(* of the directory into them in one transaction.                          *)
(*                                                                         *)
(* A row of obj is its id, its type, the words by which a query finds it,  *)
(* and its path. Statements that meet a lock of the other process fail,    *)
(* and nobody looks at that.                                               *)
(***************************************************************************)
EXTENDS Integers, Sequences, FiniteSets, SequencesExt

CONSTANTS
  Files,     \* the paths of the files in the directory of the scanner
  Words,     \* what a query may find in the tags of each file
  MaxScans   \* bound: runs of the scanner

ASSUME DbAssumption == MaxScans \in Nat /\ DOMAIN Words = Files /\ IsFiniteSet(Files)

VARIABLES
  hasObj, hasFav,  \* the tables there are
  rows,            \* the rows of obj, in the order in which they were inserted
  favs,            \* the rows of fav: the list and the object
  scanner,         \* the scanner: where it is and what it has
  scans,           \* the runs it has begun
  refused          \* history: the runs in which a statement met a lock of the server

dbvars == <<hasObj, hasFav, rows, favs>>
scanvars == <<scanner, scans, refused>>

IdsIn(rs) == {rs[k].id : k \in DOMAIN rs}
PathsIn(rs) == {rs[k].path : k \in DOMAIN rs}

Asleep ==
  [pc |-> "none", append |-> FALSE, prepared |-> FALSE, objid |-> 0, todo |-> {}, pending |-> <<>>]

DbTypeOK ==
  /\ {hasObj, hasFav} \subseteq BOOLEAN
  /\ \A k \in DOMAIN rows : rows[k].id \in Nat /\ rows[k].type \in {"file", "dvb"}
  /\ ~hasObj => rows = <<>>
  /\ ~hasFav => favs = <<>>
  /\ scanner.pc \in {"none", "dropobj", "dropfav", "createobj", "createfav", "scan", "done"}
  /\ scanner.todo \subseteq Files
  /\ Len(scanner.pending) <= Cardinality(Files)
  /\ scans \in 0 .. MaxScans /\ refused \subseteq 1 .. scans

-----------------------------------------------------------------------------
Goto(pc) == scanner' = [scanner EXCEPT !.pc = pc]

\* Mutant: the ids start anew.
maxidBug == 0

\* maxid: 1 if its statement could not be prepared, 0 if the table is empty.
maxid == IF ~hasObj THEN 1 ELSE IF rows = <<>> THEN 0 ELSE Max(IdsIn(rows))

\* main, down to the first statement: the statement that inserts is prepared before
\* the tables are made. Both that and maxid may meet a lock.
ScanStart(lock) ==
  /\ scanner.pc \in {"none", "done"} /\ scans < MaxScans
  /\ \E append \in BOOLEAN : \E refuses \in SUBSET {"insert", "maxid"} :
       /\ refuses # {} => lock
       /\ scanner' = [pc |-> IF append THEN "scan" ELSE "dropobj", append |-> append,
                      prepared |-> hasObj /\ "insert" \notin refuses,
                      objid |-> IF ~append THEN 0 ELSE IF "maxid" \in refuses THEN 1 ELSE maxid,
                      todo |-> Files, pending |-> <<>>]
       /\ refused' = IF refuses = {} THEN refused ELSE refused \cup {scans + 1}
  /\ scans' = scans + 1
  /\ UNCHANGED dbvars

\* A statement of drop_tables or create_tables fails: the rest of them is left out.
Refused(lock, next) ==
  lock /\ Goto(next) /\ refused' = refused \cup {scans} /\ UNCHANGED <<dbvars, scans>>

DropObj(lock) ==
  /\ scanner.pc = "dropobj"
  /\ \/ Refused(lock, "createobj")
     \/ /\ hasObj' = FALSE /\ rows' = <<>> /\ Goto("dropfav")
        /\ UNCHANGED <<hasFav, favs, scans, refused>>

DropFav(lock) ==
  /\ scanner.pc = "dropfav"
  /\ \/ Refused(lock, "createobj")
     \/ /\ hasFav' = FALSE /\ favs' = <<>> /\ Goto("createobj")
        /\ UNCHANGED <<hasObj, rows, scans, refused>>

\* The index cannot be made again if the table was not dropped: then this ends too.
CreateObj(lock) ==
  /\ scanner.pc = "createobj"
  /\ \/ Refused(lock, "scan")
     \/ /\ hasObj' = TRUE
        /\ Goto(IF hasObj THEN "scan" ELSE "createfav")
        /\ UNCHANGED <<hasFav, rows, favs, scans, refused>>

CreateFav(lock) ==
  /\ scanner.pc = "createfav"
  /\ \/ Refused(lock, "scan")
     \/ /\ hasFav' = TRUE /\ Goto("scan")
        /\ UNCHANGED <<hasObj, rows, favs, scans, refused>>

\* tag, for the files in any order. A row whose id there is already is not inserted,
\* nor one that meets a lock: the transaction keeps others from writing only from
\* its first row on.
Tag(lock) ==
  /\ scanner.pc = "scan" /\ scanner.todo # {}
  /\ \E f \in scanner.todo : \E refuses \in BOOLEAN :
       LET id == scanner.objid + 1
           fits == scanner.prepared /\ hasObj /\ id \notin IdsIn(rows) \cup IdsIn(scanner.pending)
           row == [id |-> id, type |-> "file", words |-> Words[f], path |-> f]
       IN /\ refuses => lock /\ fits /\ scanner.pending = <<>>
          /\ scanner' = [scanner EXCEPT !.objid = id, !.todo = @ \ {f},
                           !.pending = IF fits /\ ~refuses THEN Append(@, row) ELSE @]
          /\ refused' = IF refuses THEN refused \cup {scans} ELSE refused
  /\ UNCHANGED <<dbvars, scans>>

\* COMMIT, or the rows are lost with the process.
Commit(lock) ==
  /\ scanner.pc = "scan" /\ scanner.todo = {}
  /\ scanner' = [scanner EXCEPT !.pc = "done", !.pending = <<>>]
  /\ \/ lock /\ refused' = refused \cup {scans} /\ UNCHANGED rows
     \/ rows' = rows \o scanner.pending /\ UNCHANGED refused
  /\ UNCHANGED <<hasObj, hasFav, favs, scans>>

\* "lock" is TRUE while the server may have a statement open.
ScanStep(lock) ==
  \/ ScanStart(lock) \/ DropObj(lock) \/ DropFav(lock) \/ CreateObj(lock) \/ CreateFav(lock)
  \/ Tag(lock) \/ Commit(lock)

\* The scanner keeps others from writing from its first row on.
Writing == scanner.pending # <<>>

\* What a client of the server sees is going to change, or has changed.
Changes == rows' # rows \/ favs' # favs \/ hasObj' # hasObj \/ hasFav' # hasFav

-----------------------------------------------------------------------------
(* Properties *)

\* After a scan every file of the directory can be found, in a scan that does not
\* append exactly once, and no id stands for two objects, though statements fail
\* silently. It fails for the first scan of a new database, and when the server
\* was reading at the wrong moment.
ScanKeeps ==
  /\ Cardinality(IdsIn(rows)) = Len(rows)
  /\ scanner.pc = "done" /\ scanner.prepared /\ scans \notin refused =>
       /\ Files \subseteq PathsIn(rows)
       /\ ~scanner.append => PathsIn(rows) = Files /\ Len(rows) = Cardinality(Files)

=============================================================================
