------------------------------ MODULE DvbConfig ------------------------------
(***************************************************************************)
(* The description of the DVB device, which the scanner writes and the     *)
(* media server reads: adapters, frontends, transponders, services and     *)
(* streams as the objects of dvb/, the readXml and writeXml of each, the   *)
(* conversions of the tuning parameters, and the service map.              *)
(*                                                                         *)
(* An XML element is its tag, its attributes and its children. A child     *)
(* that holds a text is written by Leaf: an empty text is no child for the *)
(* parser. Numbers are formatted and parsed in decimal, which gives the    *)
(* number back; the texts of enumerations are kept as texts. The name of a *)
(* service is the tuple of its words: <<>> is the empty name.              *)
(***************************************************************************)
EXTENDS Integers, Sequences, SequencesExt

Element(tag, attr, kids) == [tag |-> tag, attr |-> attr, kids |-> kids]
Leaf(tag, text) == Element(tag, <<>>, IF text = "" THEN <<>> ELSE <<text>>)
NumberLeaf(tag, n) == Element(tag, <<>>, <<n>>)

\* The loops that read children "while nodeName() == tag".
Leading(kids, tag) ==
  LET stop == {k \in DOMAIN kids : kids[k].tag # tag}
  IN SubSeq(kids, 1, (IF stop = {} THEN Len(kids) ELSE (CHOOSE k \in stop : \A j \in stop : k <= j) - 1))

\* A sequence of whatever its elements are.
IsSeq(s) == s \in Seq(ToSet(s))

\* The elements of s whose places are in K, in their order: a recursive function, so
\* that proofs can be about it.
Picked(s, K) ==
  LET picked[k \in 0 .. Len(s)] ==
        IF k = 0 THEN <<>> ELSE IF k \in K THEN Append(picked[k - 1], s[k]) ELSE picked[k - 1]
  IN picked[Len(s)]

\* The loops that keep what passes a test. (TLC evaluates the argument of a function
\* once, that of an operator whenever it meets it.)
Those(s, Test(_)) ==
  LET those[t \in {s}] == Picked(t, {k \in DOMAIN t : Test(t[k])}) IN those[s]

\* The loops in one another: the sequences of s, one behind the other.
Flat(s) == LET flat[t \in {s}] == FlattenSeq(t) IN flat[s]

Tagged(kids, tag) == Those(kids, LAMBDA e : e.tag = tag)

\* The loops that go through all children and keep what has a value: the last
\* child of a tag wins, and a field whose child is missing keeps its default.
Text(kids, tag, default) ==
  LET given == Those(kids, LAMBDA e : e.tag = tag /\ e.kids # <<>>)
  IN IF given = <<>> THEN default ELSE Last(given).kids[1]

\* The concatenation has TLC evaluate the elements once.
Map(Op(_), s) == <<>> \o [k \in DOMAIN s |-> Op(s[k])]

-----------------------------------------------------------------------------
(* The texts of the enumerations of linux/dvb/frontend.h *)

bandwidthToString ==
  [BANDWIDTH_8_MHZ |-> "8_MHZ", BANDWIDTH_7_MHZ |-> "7_MHZ", BANDWIDTH_6_MHZ |-> "6_MHZ",
   BANDWIDTH_AUTO |-> "AUTO", BANDWIDTH_5_MHZ |-> "5_MHZ", BANDWIDTH_10_MHZ |-> "10_MHZ",
   BANDWIDTH_1_712_MHZ |-> "1_712_MHZ"]

coderateToString ==
  [FEC_NONE |-> "NONE", FEC_1_2 |-> "1/2", FEC_2_3 |-> "2/3", FEC_3_4 |-> "3/4",
   FEC_4_5 |-> "4/5", FEC_5_6 |-> "5/6", FEC_6_7 |-> "6/7", FEC_7_8 |-> "7/8",
   FEC_8_9 |-> "8/9", FEC_AUTO |-> "AUTO", FEC_3_5 |-> "3/5", FEC_9_10 |-> "9/10"]

modulationToString ==
  [QPSK |-> "QPSK", QAM_16 |-> "QAM16", QAM_32 |-> "QAM32", QAM_64 |-> "QAM64",
   QAM_128 |-> "QAM128", QAM_256 |-> "QAM256", QAM_AUTO |-> "AUTO", VSB_8 |-> "8VSB",
   VSB_16 |-> "16VSB", PSK_8 |-> "8PSK", APSK_16 |-> "16APSK", APSK_32 |-> "32APSK",
   DQPSK |-> "DQPSK"]

transmitModeToString ==
  [TRANSMISSION_MODE_2K |-> "2k", TRANSMISSION_MODE_8K |-> "8k",
   TRANSMISSION_MODE_AUTO |-> "AUTO", TRANSMISSION_MODE_4K |-> "4k",
   TRANSMISSION_MODE_1K |-> "1k", TRANSMISSION_MODE_16K |-> "16k",
   TRANSMISSION_MODE_32K |-> "32k"]

guard_intervalToString ==
  [GUARD_INTERVAL_1_32 |-> "1/32", GUARD_INTERVAL_1_16 |-> "1/16",
   GUARD_INTERVAL_1_8 |-> "1/8", GUARD_INTERVAL_1_4 |-> "1/4",
   GUARD_INTERVAL_AUTO |-> "AUTO", GUARD_INTERVAL_1_128 |-> "1/128",
   GUARD_INTERVAL_19_128 |-> "19/128", GUARD_INTERVAL_19_256 |-> "19/256"]

hierarchyToString ==
  [HIERARCHY_NONE |-> "NONE", HIERARCHY_1 |-> "1", HIERARCHY_2 |-> "2",
   HIERARCHY_4 |-> "4", HIERARCHY_AUTO |-> "AUTO"]

\* The ...FromString of a table: a text it does not know leaves the function
\* without a return value.
Undefined == "undefined"
FromString(table, text) ==
  IF \E v \in DOMAIN table : table[v] = text
  THEN CHOOSE v \in DOMAIN table : table[v] = text
  ELSE Undefined

bandwidthFromString(text) == FromString(bandwidthToString, text)
coderateFromString(text) == FromString(coderateToString, text)
modulationFromString(text) == FromString(modulationToString, text)
transmitModeFromString(text) == FromString(transmitModeToString, text)
guard_intervalFromString(text) == FromString(guard_intervalToString, text)
hierarchyFromString(text) == FromString(hierarchyToString, text)

-----------------------------------------------------------------------------
(* Streams and services *)

StreamWriteXml(s) == Element("stream", [type |-> s.type, pid |-> s.pid], <<>>)

\* A service without a name gets one when it is asked for it.
getName(service, tsid) ==
  IF service.name \in {<<>>, <<".">>} THEN <<"Service", service.sid, tsid>> ELSE service.name

ServiceWriteXml(s, tsid) ==
  Element("service", [name |-> getName(s, tsid), sid |-> s.sid, pmtid |-> s.pmtid],
    Map(StreamWriteXml, s.streams) \o
    <<NumberLeaf("programClockPid", s.pcr), Leaf("status", s.status),
      Leaf("scrambled", IF s.scrambled THEN "true" ELSE "false"),
      Leaf("providerName", s.provider), Leaf("type", s.type)>>)

ServiceReadXml(e) ==
  [name |-> e.attr.name, sid |-> e.attr.sid, pmtid |-> e.attr.pmtid,
   streams |-> LET of(k) == [type |-> k.attr.type, pid |-> k.attr.pid]
               IN Map(of, Tagged(e.kids, "stream")),
   pcr |-> Text(e.kids, "programClockPid", 0),
   status |-> Text(e.kids, "status", ""),
   scrambled |-> Text(e.kids, "scrambled", "false") = "true",
   provider |-> Text(e.kids, "providerName", ""),
   type |-> Text(e.kids, "type", "")]

-----------------------------------------------------------------------------
(* Transponders: "tuning" holds the parameters of the kind *)

InvalidSatNum == -1
NoPolarization == ""

\* Mutant: the parameters come first.
TransponderElementBug(t, params) ==
  LET write(s) == ServiceWriteXml(s, t.tsid)
  IN Element("transponder", [frequency |-> t.freq, tsid |-> t.tsid],
             params \o Map(write, t.services))

\* Transponder::writeXml: the services of a transponder come before its parameters.
TransponderElement(t, params) ==
  LET write(s) == ServiceWriteXml(s, t.tsid)
  IN Element("transponder", [frequency |-> t.freq, tsid |-> t.tsid],
             Map(write, t.services) \o params)

\* Transponder::readXml: the services up to the first child that is none.
ReadServices(e) == Map(ServiceReadXml, Leading(e.kids, "service"))

\* The orbital position is not written: the number of the satellite is.
SatWriteXml(t) ==
  TransponderElement(t,
    <<NumberLeaf("satNum", t.tuning.satNum), NumberLeaf("symbolRate", t.tuning.symbolRate),
      Leaf("polarization", t.tuning.polarization)>>)

SatReadXml(e) ==
  [satPosition |-> "", satNum |-> Text(e.kids, "satNum", InvalidSatNum),
   symbolRate |-> Text(e.kids, "symbolRate", 0),
   polarization |-> Text(e.kids, "polarization", NoPolarization)]

TerrestrialWriteXml(t) ==
  TransponderElement(t,
    <<Leaf("bandwidth", bandwidthToString[t.tuning.bandwidth]),
      Leaf("codeRateHP", coderateToString[t.tuning.code_rate_HP]),
      Leaf("codeRateLP", coderateToString[t.tuning.code_rate_LP]),
      Leaf("constellation", modulationToString[t.tuning.constellation]),
      Leaf("transmissionMode", transmitModeToString[t.tuning.transmission_mode]),
      Leaf("guardInterval", guard_intervalToString[t.tuning.guard_interval]),
      Leaf("hierarchyInformation", hierarchyToString[t.tuning.hierarchy_information])>>)

TerrestrialReadXml(e) ==
  [bandwidth |-> bandwidthFromString(Text(e.kids, "bandwidth", "")),
   code_rate_HP |-> coderateFromString(Text(e.kids, "codeRateHP", "")),
   code_rate_LP |-> coderateFromString(Text(e.kids, "codeRateLP", "")),
   constellation |-> modulationFromString(Text(e.kids, "constellation", "")),
   transmission_mode |-> transmitModeFromString(Text(e.kids, "transmissionMode", "")),
   guard_interval |-> guard_intervalFromString(Text(e.kids, "guardInterval", "")),
   hierarchy_information |-> hierarchyFromString(Text(e.kids, "hierarchyInformation", ""))]

DVBS == "dvb-s"
DVBT == "dvb-t"

TransponderWriteXml(type, t) == IF type = DVBS THEN SatWriteXml(t) ELSE TerrestrialWriteXml(t)

TransponderReadXml(type, e) ==
  [freq |-> e.attr.frequency, tsid |-> e.attr.tsid, services |-> ReadServices(e),
   tuning |-> IF type = DVBS THEN SatReadXml(e) ELSE TerrestrialReadXml(e)]

-----------------------------------------------------------------------------
(* Frontends, adapters and the device *)

\* The satellites of a frontend's _satNumMap, in the order of their positions.
SatelliteElement(sat) ==
  Element("satellite", <<>>, <<Leaf("orbitalPosition", sat.pos), NumberLeaf("index", sat.num)>>)

FrontendWriteXml(f) ==
  LET write(t) == TransponderWriteXml(f.type, t)
  IN Element("frontend", [type |-> f.type, name |-> f.name],
             Map(write, f.transponders) \o
             (IF f.type = DVBS THEN Map(SatelliteElement, f.sats) ELSE <<>>))

\* The frontend keeps what it had, and the transponders of the file are added.
FrontendReadXml(f, e) ==
  LET read(k) == TransponderReadXml(e.attr.type, k)
      sat(k) == [pos |-> Text(k.kids, "orbitalPosition", ""),
                 num |-> Text(k.kids, "index", InvalidSatNum)]
  IN [type |-> e.attr.type, name |-> e.attr.name,
      transponders |-> f.transponders \o Map(read, Leading(e.kids, "transponder")),
      sats |-> IF e.attr.type = DVBS THEN Map(sat, Tagged(e.kids, "satellite")) ELSE <<>>]

AdapterWriteXml(a) ==
  Element("adapter", [id |-> a.id], Map(FrontendWriteXml, a.frontends))

\* The frontends of the file are those of the adapter, by their places: the
\* first that differs in type or name ends the reading.
AdapterReadXml(a, e) ==
  LET wanted == Leading(e.kids, "frontend")
      fits(k) == /\ k <= Len(a.frontends)
                 /\ wanted[k].attr.type = a.frontends[k].type
                 /\ wanted[k].attr.name = a.frontends[k].name
      read(k) == k <= Len(wanted) /\ \A j \in 1 .. k : fits(j)
      next(k) == IF read(k) THEN FrontendReadXml(a.frontends[k], wanted[k]) ELSE a.frontends[k]
  IN [a EXCEPT !.frontends = Map(next, [k \in DOMAIN @ |-> k])]

\* A device is the sequence of its adapters, in the order of their ids.
DeviceWriteXml(device) == Element("device", <<>>, Map(AdapterWriteXml, device))

DeviceReadXml(device, e) ==
  LET given == Leading(e.kids, "adapter")
      read(a) ==
        LET of == Those(given, LAMBDA k : k.attr.id = a.id)
            upto[k \in 0 .. Len(of)] == IF k = 0 THEN a ELSE AdapterReadXml(upto[k - 1], of[k])
        IN upto[Len(of)]
  IN Map(read, device)

\* detectAdapters and detectFrontend: a node that cannot be opened gives no
\* frontend, and those behind it take the places before them.
detectAdapters(hardware, silent) ==
  LET new(f) == [type |-> f.type, name |-> f.name, transponders |-> <<>>, sats |-> <<>>]
      adapter(a) == [id |-> a.id,
        frontends |-> Map(new, Those(a.frontends, LAMBDA f : f.node \notin silent))]
  IN Map(adapter, hardware)

\* All transponders of a device in the order of its loops: where each of them is.
TransponderPlaces(device) ==
  FlattenSeq([a \in DOMAIN device |->
    FlattenSeq([f \in DOMAIN device[a].frontends |->
      [t \in DOMAIN device[a].frontends[f].transponders |-> <<a, f, t>>]])])

At(device, p) == device[p[1]].frontends[p[2]].transponders[p[3]]

\* initServiceMap: the transponders of a name, one for each service that has it.
serviceMap(device, name) ==
  FlattenSeq([k \in DOMAIN TransponderPlaces(device) |->
    LET p == TransponderPlaces(device)[k]
        t == At(device, p)
        those == Those(t.services, LAMBDA s : getName(s, t.tsid) = name)
    IN [j \in DOMAIN those |-> p]])

=============================================================================
