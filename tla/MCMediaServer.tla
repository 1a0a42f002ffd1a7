--------------------------- MODULE MCMediaServer ----------------------------
(***************************************************************************)
(* An instance of MediaServer for TLC: worlds in which two controllers     *)
(* list and change favourites, a scanner rewrites the database under a     *)
(* controller, two players use files, and two players use a DVB device     *)
(* with up to three frontends on two adapters, of which those of the first *)
(* share its demuxer.                                                      *)
(***************************************************************************)
EXTENDS MediaServer, TLC

CONSTANTS c1, c2

Node(f) == [node |-> f, type |-> DVBT, name |-> "T"]
ThreeTuners ==
  <<[id |-> "0", frontends |-> <<Node("f0"), Node("f1")>>], [id |-> "1", frontends |-> <<Node("f2")>>]>>
TwoWirings == {<<"f0", "f2">>, <<"f1", "f2">>}

Tuning ==
  [bandwidth |-> "BANDWIDTH_8_MHZ", code_rate_HP |-> "FEC_2_3", code_rate_LP |-> "FEC_1_2",
   constellation |-> "QAM_16", transmission_mode |-> "TRANSMISSION_MODE_8K",
   guard_interval |-> "GUARD_INTERVAL_1_4", hierarchy_information |-> "HIERARCHY_NONE"]
Channel(name, sid, pids, scrambled) ==
  [name |-> <<name>>, sid |-> sid, pmtid |-> 31, pcr |-> pids[1], status |-> StatusRunning,
   scrambled |-> scrambled, provider |-> "P", type |-> "DigitalTelevision",
   streams |-> [k \in DOMAIN pids |-> [type |-> "videoMpeg2_H262", pid |-> pids[k]]]]
Transponder(freq, tsid, services) ==
  [kind |-> "terrestrial", freq |-> freq, tsid |-> tsid, tuning |-> Tuning, services |-> services]

\* "A" and "B" share the pid 50; "C" is on another transponder and has a pid of "A".
Found ==
  LET first == Transponder(698000000, 1,
                 <<Channel("A", 1, <<101, 50>>, FALSE), Channel("B", 2, <<50, 201>>, FALSE)>>)
      second == Transponder(706000000, 2,
                 <<Channel("C", 3, <<101>>, FALSE), Channel("S", 4, <<301>>, TRUE)>>)
      frontend(ts) == [type |-> DVBT, name |-> "T", sats |-> <<>>, transponders |-> ts]
  IN DeviceWriteXml(<<[id |-> "0", frontends |-> <<frontend(<<first, second>>), frontend(<<first>>)>>],
                      [id |-> "1", frontends |-> <<frontend(<<first>>)>>]>>)

SometimesWeak == {<<1, 1, 2>>}
OneScarce == {50}
TwoPlayers == {"p1", "p2"}
TwoControllers == {c1, c2}

\* All controllers do the same.
Alike == Permutations(TwoControllers)

TwoFiles == {"/m/one", "/m/two"}
WordsOf == [f \in TwoFiles |-> IF f = "/m/one" THEN {"x"} ELSE {}]
Kept == {"/m/one", "/m/two", "/m/three"}

FileRow(id, path, words) == [id |-> id, type |-> "file", words |-> words, path |-> path]
DvbRow(id, name) == [id |-> id, type |-> "dvb", words |-> {}, path |-> <<name>>]
Rows == <<FileRow(1, "/m/one", {"x"}), FileRow(2, "/m/three", {"x"}), FileRow(3, "/m/gone", {})>>

\* Letters of the names of lists.
a == <<"a">>
bc == <<"b", "c">>

World(rs, vs, past, who, silents) ==
  [rows |-> rs, favs |-> vs, tables |-> past > 0, scans |-> past, active |-> who,
   silents |-> silents]
NoDevice == {{"f0", "f1", "f2"}}
ScannedUnder(c) ==
  World(SubSeq(Rows, 1, 1), <<[list |-> a, objid |-> 1]>>, 1, {c, "scan"}, NoDevice)
EightWorlds ==
  {World(SubSeq(Rows, 1, 2), <<[list |-> a, objid |-> 2], [list |-> bc, objid |-> 1]>>, 1,
         TwoControllers, NoDevice),
   World(<<>>, <<>>, 0, {"scan"}, NoDevice),
   World(Rows, <<>>, 1, TwoPlayers, NoDevice),
   World(<<DvbRow(1, "A"), DvbRow(2, "B")>>, <<>>, 1, TwoPlayers, {{"f1"}}),
   World(<<DvbRow(1, "A"), DvbRow(3, "C")>>, <<>>, 1, TwoPlayers, {{"f1"}, {"f2"}}),
   World(<<DvbRow(1, "A"), FileRow(2, "/m/one", {})>>, <<>>, 1, TwoPlayers, {{"f1"}}),
   World(<<DvbRow(3, "C"), DvbRow(4, "S"), DvbRow(5, "none")>>, <<>>, 1, TwoPlayers, {{"f1"}})}
  \cup {ScannedUnder(c) : c \in TwoControllers}

TwoQueries == {"", "x"}
FavCommands ==
  {<<"fav", "set">>, <<"fav", "set", a>>, <<"fav", "set", bc>>, <<"fav", "add", a, 2>>,
   <<"fav", "del", bc, 1>>}
GoneIds == {6}

=============================================================================
