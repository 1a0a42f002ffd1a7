----------------------------- MODULE MediaServer -----------------------------
(***************************************************************************)
(* The media server (serve.c) with its clients: controllers that list the  *)
(* objects and change the favourites (control.c), and players that read    *)
(* them (vlc_acc9p_plugin.c). It answers from the database, which a        *)
(* scanner may be rewriting (MediaDb), with the data of files and of       *)
(* streams of the DVB device (DvbDevice).                                  *)
(*                                                                         *)
(* One thread handles the requests, one after the other. A handler is one  *)
(* step, but for the two queries for an entry of the root directory: there *)
(* the scanner may come between. A stat is the walk, the stat and the      *)
(* clunk, which no request of others can tell apart. While the read of a   *)
(* DVB stream waits, nobody else is served. A state in which the server    *)
(* has ended, or is undefined, has no next step ("down").                  *)
(*                                                                         *)
(* The descriptors of files and those of the filters of the demuxers are   *)
(* taken from the same numbers (DvbDevice).                                *)
(***************************************************************************)
EXTENDS DvbDevice, MediaDb

CONSTANTS
  Worlds,       \* the databases at the start, with the scans that made them, who is
                \* active, and which nodes of the device may be without answer: records
  Controllers,  \* clients that list; the players are the Handles of the device
  Queries,      \* what controllers search for
  NoQuery,          \* the empty query
  Commands,     \* what they write to ctl: sequences of words
  Disk,         \* the paths that can be opened
  OldIds,       \* ids which players have from a database of before
  PerMessage,   \* entries of a directory in the answer to one read
  MaxFavs       \* bound: rows of fav

ASSUME ServerAssumption ==
  /\ PerMessage \in Nat \ {0} /\ MaxFavs \in Nat
  /\ NoQuery \in Queries /\ OldIds \subseteq Nat
  /\ "" \notin Disk /\ {"", "scan"} \cap (Controllers \cup Handles) = {}

\* A database is as a scanner leaves it: id is the primary key of obj. Without the
\* tables opendb ends the server at once, and only the scanner acts.
ASSUME WorldAssumption ==
  \A w \in Worlds :
    /\ w.tables \in BOOLEAN /\ w.scans \in 0 .. MaxScans
    /\ w.rows \in Seq(ToSet(w.rows))
    /\ \A k \in DOMAIN w.rows : w.rows[k].id \in Nat /\ w.rows[k].type \in {"file", "dvb"}
    /\ \A j, k \in DOMAIN w.rows : w.rows[j].id = w.rows[k].id => j = k
    /\ w.favs \in Seq(ToSet(w.favs))
    /\ \A k \in DOMAIN w.favs : w.favs[k] = [list |-> w.favs[k].list, objid |-> w.favs[k].objid]
    /\ ~w.tables => w.rows = <<>> /\ w.favs = <<>> /\ w.active \subseteq {"scan"}

\* The names of lists are letters.
ASSUME CommandAssumption ==
  \A words \in Commands : Len(words) = 3 => words[3] \in Seq(STRING)

\* The file of the device is as a scan has written it (DvbScan), so that the readers
\* make of it what Readable says, whichever nodes answer.
ASSUME FileAssumption ==
  \A w \in Worlds : \A silent \in w.silents :
    Readable(DeviceReadXml(detectAdapters(Hardware, silent), File))

VARIABLES
  active,    \* who acts: controllers, players, and "scan"
  querystr,  \* the query, of all clients
  favid,     \* the list of favourites, of all clients: the letters of its name
  wanted,    \* history: the name that was set last
  gen,       \* the directory read that is handled: for whom, and how far
  lists,     \* the ls of each controller
  plays,     \* the stream of each player, and whether it has read what is not its own
  blocked,   \* the player whose DVB read waits
  down       \* why the server has ended, or what is undefined

globals == <<querystr, favid, wanted>>
vars == <<devvars, dbvars, scanvars, active, globals, gen, lists, plays, blocked, down>>

None == ""
NoGen == [at |-> None, room |-> 0, step |-> "none"]
NoLs == [pc |-> "idle", query |-> NoQuery, index |-> 0, todo |-> <<>>, shown |-> <<>>, disturbed |-> FALSE]
NoPlay == [pc |-> "idle", id |-> 0, fd |-> -1, path |-> None, foreign |-> FALSE]

TypeOK ==
  /\ DeviceTypeOK /\ DbTypeOK
  /\ querystr \in Queries /\ favid \in Seq(STRING)
  /\ gen.at \in Controllers \cup {None} /\ gen.room \in 0 .. PerMessage
  /\ gen.step \in {"none", "count", "id"}
  /\ \A c \in Controllers : lists[c].pc \in {"idle", "dir", "print", "meta", "done"}
  /\ \A p \in Handles :
       /\ plays[p].pc \in {"idle", "stated", "file", "dvb"} /\ plays[p].fd \in -1 .. MaxFd
       /\ (plays[p].pc = "dvb") <=> (streams[p] # Closed)
  /\ blocked \in Handles \cup {None}
  /\ gen = NoGen \/ blocked = None
  /\ down \in {"none", "exit", "count", "null", "freed"}

\* opendb ends the server unless there are the tables.
Init ==
  /\ \E w \in Worlds : \E silent \in w.silents :
       /\ DeviceInit(silent)
       /\ hasObj = w.tables /\ hasFav = w.tables /\ rows = w.rows /\ favs = w.favs
       /\ active = w.active /\ scans = w.scans
  /\ scanner = Asleep /\ refused = {}
  /\ querystr = NoQuery /\ favid = <<>> /\ wanted = <<>>
  /\ gen = NoGen /\ lists = [c \in Controllers |-> NoLs]
  /\ plays = [p \in Handles |-> NoPlay]
  /\ blocked = None /\ down = "none"

-----------------------------------------------------------------------------
(* Objects *)

\* The thread of the server takes the next request.
Free == gen = NoGen /\ blocked = None

Down(why) ==
  /\ down' = why
  /\ UNCHANGED <<devvars, dbvars, scanvars, active, globals, gen, lists, plays, blocked>>

\* metaqry: the row of an id, if there is one.
ObjectOf(id) == Those(rows, LAMBDA r : r.id = id)

\* initaux: type and path of the object; without a row it is a file without a path.
AuxObj(id) ==
  LET of == ObjectOf(id)
  IN IF of = <<>> THEN [ot |-> "file", objpath |-> None]
     ELSE [ot |-> Head(of).type, objpath |-> Head(of).path]

\* Lists that are being shown, and which it is no longer certain what they show.
Disturb(but, change) ==
  [c \in Controllers |->
     IF change /\ c # but /\ lists[c].pc # "idle"
     THEN [lists[c] EXCEPT !.disturbed = TRUE] ELSE lists[c]]

\* srvdestroyfid closes a descriptor, whosoever it is by now. To close one that is in
\* use by somebody else is a mishap.
Close(n, mine) ==
  /\ fds' = [fds EXCEPT ![n] = Unused]
  /\ mishaps' = IF fds[n] \in {Unused, StdIn} \cup mine THEN mishaps ELSE mishaps \cup {"descriptor"}

\* srvstat, and srvdestroyfid of a fid that was never opened: its handle is 0.
StatData(id) == IF AuxObj(id).ot = "dvb" THEN UNCHANGED <<fds, mishaps>> ELSE Close(0, {})

-----------------------------------------------------------------------------
(* Listing *)

\* The objects that the queries select: those of the list, as often as they are in
\* it, or all, and of these those that match.
Selection ==
  LET matches(r) == querystr = NoQuery \/ querystr \in r.words
      listed == Those(favs, LAMBDA v : v.list = favid)
      object(v) == Those(rows, LAMBDA r : r.id = v.objid /\ matches(r))
  IN IF favid = <<>> THEN Those(rows, matches) ELSE FlattenSeq(Map(object, listed))

\* The queries can be prepared.
Prepared == hasObj /\ (favid # <<>> => hasFav)

\* xls: the search string is written, and the root directory opened.
LsQuery(c) ==
  /\ Free /\ lists[c].pc \in {"idle", "done"}
  /\ \E q \in Queries :
       /\ querystr' = q
       /\ lists' = [Disturb(c, q # querystr) EXCEPT ![c] = [NoLs EXCEPT !.pc = "dir", !.query = q]]
  /\ UNCHANGED <<devvars, dbvars, scanvars, active, favid, wanted, gen, plays, blocked, down>>

\* srvread of the root directory ...
LsRead(c) ==
  /\ Free /\ lists[c].pc = "dir"
  /\ gen' = [at |-> c, room |-> PerMessage, step |-> "count"]
  /\ UNCHANGED <<devvars, dbvars, scanvars, active, globals, lists, plays, blocked, down>>

\* Where xls goes on when it has read all entries.
Printing(todo) == IF todo = <<>> THEN "done" ELSE "print"

\* An entry of the directory: the answer may be full then. ls skips those that are
\* no directories, "ids" is empty for them.
Entry(ids) ==
  /\ lists' = [lists EXCEPT ![gen.at].index = @ + 1, ![gen.at].todo = @ \o ids]
  /\ gen' = IF gen.room = 1 THEN NoGen ELSE [gen EXCEPT !.room = @ - 1, !.step = "count"]

\* The answer is sent; an empty one ends the directory.
RespondDir ==
  /\ lists' = IF gen.room = PerMessage
              THEN [lists EXCEPT ![gen.at].pc = Printing(lists[gen.at].todo)] ELSE lists
  /\ gen' = NoGen

\* Mutant: the entries of the two files are forgotten in the comparison.
RootCountBug ==
  /\ gen.step = "count"
  /\ IF ~Prepared THEN Down("exit")
     ELSE /\ IF lists[gen.at].index >= Len(Selection) + 1 THEN RespondDir
             ELSE IF lists[gen.at].index < 2 THEN Entry(<<>>)
             ELSE gen' = [gen EXCEPT !.step = "id"] /\ UNCHANGED lists
          /\ UNCHANGED <<devvars, dbvars, scanvars, active, globals, plays, blocked, down>>

\* ... calls rootgen for each entry, which counts: behind "ctl" and "query" come the
\* objects.
RootCount ==
  /\ gen.step = "count"
  /\ IF ~Prepared THEN Down("exit")
     ELSE /\ IF lists[gen.at].index >= Len(Selection) + 2 THEN RespondDir
             ELSE IF lists[gen.at].index < 2 THEN Entry(<<>>)
             ELSE gen' = [gen EXCEPT !.step = "id"] /\ UNCHANGED lists
          /\ UNCHANGED <<devvars, dbvars, scanvars, active, globals, plays, blocked, down>>

\* ... and selects by the offset. Without a row the entry is empty.
RootId ==
  /\ gen.step = "id"
  /\ IF ~Prepared THEN Down("exit")
     ELSE LET k == lists[gen.at].index - 1
          IN /\ Entry(IF k \in DOMAIN Selection THEN <<Selection[k].id>> ELSE <<>>)
             /\ UNCHANGED <<devvars, dbvars, scanvars, active, globals, plays, blocked, down>>

\* For each directory: the size of the data,
LsStat(c) ==
  /\ Free /\ lists[c].pc = "print"
  /\ StatData(Head(lists[c].todo))
  /\ lists' = [lists EXCEPT ![c].pc = "meta"]
  /\ UNCHANGED <<dvbvars, dbvars, scanvars,
                 active, globals, gen, plays, blocked, down>>

\* and the meta data. An object without meta data ends the listing.
LsMeta(c) ==
  /\ Free /\ lists[c].pc = "meta"
  /\ LET id == Head(lists[c].todo)
         left == Tail(lists[c].todo)
     IN lists' = IF ObjectOf(id) = <<>> THEN [lists EXCEPT ![c].pc = "done"]
                 ELSE [lists EXCEPT ![c].pc = Printing(left), ![c].todo = left,
                                    ![c].shown = Append(@, id)]
  /\ UNCHANGED <<devvars, dbvars, scanvars, active, globals, gen, plays, blocked, down>>

Listing(c) == LsQuery(c) \/ LsRead(c) \/ LsStat(c) \/ LsMeta(c)

-----------------------------------------------------------------------------
(* Favourites: a command is its words, which parse_args separates *)

\* The statements of the server fail while the scanner is writing.
MayWrite == hasFav /\ ~Writing

FavWrites(c, new) ==
  /\ favs' = IF MayWrite THEN new ELSE favs
  /\ lists' = [Disturb(c, favs' # favs) EXCEPT ![c] = NoLs]
  /\ UNCHANGED <<globals, mishaps>>

FavAdd(c, words) ==
  /\ Len(words) = 4 /\ words[2] = "add" /\ Len(favs) < MaxFavs
  /\ FavWrites(c, Append(favs, [list |-> words[3], objid |-> words[4]]))

FavDel(c, words) ==
  /\ Len(words) = 4 /\ words[2] = "del"
  /\ FavWrites(c, Those(favs, LAMBDA v : v # [list |-> words[3], objid |-> words[4]]))

\* memcpy without the end of the name: a longer name before it is left over in part.
FavSet(c, words) ==
  /\ Len(words) = 3 /\ words[2] = "set"
  /\ favid' = words[3] \o SubSeq(favid, Len(words[3]) + 1, Len(favid)) /\ wanted' = words[3]
  /\ mishaps' = IF Len(words[3]) < Len(favid) THEN mishaps \cup {"tail"} ELSE mishaps
  /\ lists' = [Disturb(c, favid' # favid) EXCEPT ![c] = NoLs]
  /\ UNCHANGED <<querystr, favs>>

FavSetNone(c, words) ==
  /\ Len(words) = 2 /\ words[2] = "set"
  /\ favid' = <<>> /\ wanted' = <<>>
  /\ lists' = [Disturb(c, favid' # favid) EXCEPT ![c] = NoLs]
  /\ UNCHANGED <<querystr, favs, mishaps>>

\* xfav: everything else is skipped.
Fav(c) ==
  /\ Free /\ lists[c].pc \in {"idle", "done"}
  /\ \E words \in Commands :
       FavAdd(c, words) \/ FavDel(c, words) \/ FavSet(c, words) \/ FavSetNone(c, words)
  /\ UNCHANGED <<dvbvars, fds, hasObj, hasFav, rows,
                 scanvars, active, gen, plays, blocked, down>>

-----------------------------------------------------------------------------
(* Playing *)

\* Open of the plugin: the size decides whether it can seek ...
PlayStat(p) ==
  /\ Free /\ plays[p].pc = "idle"
  /\ \E id \in IdsIn(rows) \cup OldIds :
       /\ StatData(id)
       /\ plays' = [plays EXCEPT ![p] = [NoPlay EXCEPT !.pc = "stated", !.id = id]]
  /\ UNCHANGED <<dvbvars, dbvars, scanvars,
                 active, globals, gen, lists, blocked, down>>

LowestFree == {n \in DOMAIN fds : fds[n] = Unused /\ \A k \in 0 .. n - 1 : fds[k] # Unused}

\* ... and srvopen succeeds with a file, with -1 for a handle, ...
PlayOpenFile(p) ==
  /\ Free /\ plays[p].pc = "stated"
  /\ LET ao == AuxObj(plays[p].id)
         opened(n) == [plays EXCEPT ![p].pc = "file", ![p].fd = n, ![p].path = ao.objpath]
     IN /\ ao.ot = "file"
        /\ IF ao.objpath \in Disk
           THEN \E n \in LowestFree : fds' = [fds EXCEPT ![n] = FileAt(ao.objpath)] /\ plays' = opened(n)
           ELSE plays' = opened(-1) /\ UNCHANGED fds
  /\ UNCHANGED <<dvbvars, mishaps, dbvars, scanvars, active, globals, gen, lists, blocked, down>>

\* ... or with a stream, also with none.
PlayOpenDvb(p) ==
  /\ Free /\ plays[p].pc = "stated"
  /\ LET ao == AuxObj(plays[p].id)
     IN /\ ao.ot = "dvb"
        /\ \/ /\ DvbStream(p, ao.objpath)
              /\ plays' = [plays EXCEPT ![p].pc = "dvb", ![p].path = ao.objpath]
              /\ UNCHANGED <<dbvars, scanvars, active, globals, gen, lists, blocked, down>>
           \/ DvbStreamFreed(p, ao.objpath) /\ Down("freed")

\* srvread of a file: the file its descriptor is of by now. A descriptor that is none,
\* and a filter without data, give a count of -1, with which no read can be answered;
\* a filter that is not started gives no bytes.
PlayReadFile(p) ==
  /\ Free /\ plays[p].pc = "file"
  /\ LET n == plays[p].fd
         of == IF n = -1 THEN "none" ELSE fds[n].of
     IN \/ of \in {"none", "filter"} /\ Down("count")
        \/ /\ of = "file" \/ (of = "filter" /\ ~fds[n].on)
           /\ plays' = [plays EXCEPT ![p].foreign = of = "file" /\ fds[n] # FileAt(plays[p].path)]
           /\ UNCHANGED <<devvars, dbvars, scanvars, active, globals, gen, lists, blocked, down>>

\* A packet of the service that the player has opened.
OfService(p, packet) ==
  LET services == At(device, packet[1]).services
  IN \E k \in DOMAIN services :
       services[k].name = plays[p].path /\ packet[2] \in ToSet(Pids(packet[1], k))

\* srvread of a stream waits for packets.
PlayReadDvb(p) ==
  /\ Free /\ plays[p].pc = "dvb"
  /\ IF streams[p] = Null THEN Down("null")
     ELSE /\ IF Received(p) = {} THEN blocked' = p /\ UNCHANGED plays
             ELSE /\ \E packet \in Received(p) : plays' = [plays EXCEPT ![p].foreign = ~OfService(p, packet)]
                  /\ UNCHANGED blocked
          /\ UNCHANGED <<devvars, dbvars, scanvars, active, globals, gen, lists, down>>

\* Close of the plugin.
PlayClose(p) ==
  /\ Free
  /\ plays' = [plays EXCEPT ![p] = NoPlay]
  /\ \/ /\ plays[p].pc = "file"
        /\ IF plays[p].fd = -1 THEN UNCHANGED <<fds, mishaps>>
           ELSE Close(plays[p].fd, {FileAt(plays[p].path)})
        /\ UNCHANGED dvbvars
     \/ plays[p].pc = "dvb" /\ DvbFreeStream(p)
  /\ UNCHANGED <<dbvars, scanvars, active, globals, gen, lists, blocked, down>>

PlayCloseFreed(p) == Free /\ plays[p].pc = "dvb" /\ DvbFreeStreamFreed(p) /\ Down("freed")

Playing(p) ==
  \/ PlayStat(p) \/ PlayOpenFile(p) \/ PlayOpenDvb(p) \/ PlayReadFile(p) \/ PlayReadDvb(p)
  \/ PlayClose(p) \/ PlayCloseFreed(p)

-----------------------------------------------------------------------------
\* A handler may be running, also one that is a single step here: then a statement
\* of the scanner may meet a lock of the server.
InUse == blocked = None /\ active \cap (Controllers \cup Handles) # {}

Scanning ==
  /\ ScanStep(InUse)
  /\ lists' = Disturb(None, Changes)
  /\ UNCHANGED <<devvars, active, globals, gen, plays, blocked, down>>

Next ==
  /\ down = "none"
  /\ \/ \E c \in Controllers \cap active : Listing(c) \/ Fav(c)
     \/ RootCount \/ RootId
     \/ \E p \in Handles \cap active : Playing(p)
     \/ "scan" \in active /\ Scanning

Spec == Init /\ [][Next]_vars

-----------------------------------------------------------------------------
(* Properties *)

\* How often an object belongs into a listing of the query.
Belongs(r, query) ==
  IF query # NoQuery /\ query \notin r.words THEN 0
  ELSE IF wanted = <<>> THEN 1
  ELSE Cardinality({k \in DOMAIN favs : favs[k] = [list |-> wanted, objid |-> r.id]})

\* A listing, which is put together from many requests, shows the objects that match
\* its own query and the list that was set last, each as often as it belongs there.
\* It may show others when somebody changed the query, the list or the tables before
\* it was complete, and when the name of a list was set over a longer one.
ListingTrue ==
  \A c \in Controllers :
    lists[c].pc = "done" /\ ~lists[c].disturbed /\ "tail" \notin mishaps =>
      LET shown == lists[c].shown
          times(id) == Cardinality({k \in DOMAIN shown : shown[k] = id})
      IN /\ \A k \in DOMAIN rows : times(rows[k].id) = Belongs(rows[k], lists[c].query)
         /\ ToSet(shown) \subseteq IdsIn(rows)

\* What a player reads is its own object: its file, or a packet of its service. It
\* may be that of another one when a stat has closed the descriptor of somebody,
\* and when the frontend of its stream was tuned anew under it, or is not the one
\* that the demuxer of its adapter is wired to.
ReadsOwn ==
  \A p \in Handles : plays[p].foreign =>
    \/ plays[p].pc = "file" /\ "descriptor" \in mishaps
    \/ plays[p].pc = "dvb" /\ mishaps \cap {"interrupted", "lost", "deaf"} # {}

\* The server goes on serving all its clients, unless: the scanner has dropped the
\* tables; a player reads an object that there is not; a stat has closed the
\* descriptor of a file or of a filter; a DVB stream could not be opened, now or
\* before; and, for good, a stream that gets no packets, or none any more, is read.
\* A stream that was opened alone on a frontend of its own adapter does get them,
\* whatever was opened and closed before.
ServerLives ==
  /\ down = "exit" => refused # {} \/ scanner.pc \in {"dropfav", "createobj", "createfav"}
  /\ down = "count" =>
       "descriptor" \in mishaps
       \/ \E p \in Handles : plays[p].pc = "file" /\ plays[p].path \notin Disk
  /\ down = "null" =>
       "refused" \in mishaps
       \/ \E p \in Handles : plays[p].pc = "dvb" /\ Candidates(plays[p].path) = <<>>
  /\ down = "freed" => mishaps \cap {"refused", "interrupted"} # {}
  /\ blocked # None =>
       mishaps \cap {"interrupted", "lost", "cloned", "strayed", "unfiltered", "deaf", "descriptor"} # {}

=============================================================================
