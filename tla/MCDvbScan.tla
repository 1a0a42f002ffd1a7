----------------------------- MODULE MCDvbScan ------------------------------
(***************************************************************************)
(* An instance of DvbScan for TLC: a satellite frontend with two           *)
(* satellites and a terrestrial one. "plain" is an air whose tables the    *)
(* parsers take; "odd" has what they do not, the others have two           *)
(* multiplexes of one frequency on two satellites; some have two lists.    *)
(***************************************************************************)
EXTENDS DvbScan

\* The decimal digits of n.
Digits(n, len) == [k \in 1 .. len |-> (n \div (10 ^ (len - k))) % 10]

TwoAdapters ==
  <<[id |-> "0", frontends |-> <<[node |-> "a0f0", type |-> DVBS, name |-> "sat"]>>],
    [id |-> "1", frontends |-> <<[node |-> "a1f0", type |-> DVBT, name |-> "terr"]>>]>>

\* tsids 1 .. 5 are on satellites, 9 and 10 are terrestrial; 4 is the twin of 1.
SatFreq == <<11836000, 12545000, 11727000, 11836000, 11054000>>
SatPol  == <<"H", "V", "H", "H", "H">>
SatNo   == <<0, 0, 1, 1, 1>>
SatPos  == <<"019.2", "019.2", "013.0", "013.0", "013.0">>
TerrFreq(tsid) == 698000000 + (tsid - 9) * 8000000

SatDescriptor(tsid) ==
  [tag |-> SatelliteTag, frequency |-> Digits(SatFreq[tsid] \div 10, 8), position |-> SatPos[tsid],
   polarization |-> IF SatPol[tsid] = "H" THEN 0 ELSE 1, symbolRate |-> Digits(275000, 7)]
TerrDescriptor(tsid) ==
  [tag |-> TerrestrialTag, frequency |-> TerrFreq(tsid) \div 10, bandwidth |-> 0,
   codeRateHP |-> 1, codeRateLP |-> 0, constellation |-> 1, transmissionMode |-> 1,
   guardInterval |-> 3, hierarchy |-> 0]

Named(tsid) ==
  [tsid |-> tsid,
   descriptors |-> <<[tag |-> ServiceListTag],
                     IF tsid < 9 THEN SatDescriptor(tsid) ELSE TerrDescriptor(tsid)>>]
NitSectionOf(tsids) == [k \in DOMAIN tsids |-> Named(tsids[k])]

\* The programmes 1 and 2 of a multiplex. Only the first has a name.
Pmt(sid) == <<[sid |-> sid, pcr |-> 100 + sid,
               streams |-> <<[code |-> 2, pid |-> 100 + sid], [code |-> 129, pid |-> 200 + sid]>>]>>
Entry(tsid, sid, ds) ==
  [sid |-> sid, status |-> 4, scrambled |-> (sid = 2), size |-> 30, descriptors |-> ds]
ServiceD(tsid, sid) ==
  [tag |-> ServiceTag, type |-> 1, provider |-> "P",
   name |-> IF sid = 1 THEN <<"Channel", tsid>> ELSE <<>>]

Program(sid) == [sid |-> sid, pmtid |-> 30 + sid]
PlainTables(tsid) ==
  [pat |-> <<<<[sid |-> 0, pmtid |-> 16], Program(1), Program(2)>>>>,
   pmt |-> [pid \in {31, 32} |-> <<Pmt(pid - 30)>>],
   sdt |-> <<<<Entry(tsid, 1, <<ServiceD(tsid, 1)>>)>>, <<Entry(tsid, 2, <<ServiceD(tsid, 2)>>)>>>>]

\* A service list ahead of the description, unknown in its tag; a last service of
\* few bytes; a programme in a second section of the PAT; one pid for two PMTs; and
\* four sections.
OddTables(tsid) ==
  [pat |-> <<<<Program(1), [sid |-> 2, pmtid |-> 31]>>, <<Program(3)>>>>,
   pmt |-> [pid \in {31, 33} |-> IF pid = 31 THEN <<Pmt(1), Pmt(2)>> ELSE <<Pmt(3)>>],
   sdt |-> <<<<Entry(tsid, 1, <<[tag |-> 95], ServiceD(tsid, 1)>>)>>,
             <<Entry(tsid, 2, <<ServiceD(tsid, 2)>>),
               [Entry(tsid, 3, <<ServiceD(tsid, 3)>>) EXCEPT !.size = 6]>>, <<>>, <<>>>>]

Mux(tsid, tables, nit) ==
  tables @@ [tsid |-> tsid, nit |-> nit] @@
  (IF tsid < 9
   THEN [kind |-> "sat", satNum |-> SatNo[tsid], position |-> SatPos[tsid], freq |-> SatFreq[tsid],
         tuning |-> [polarization |-> SatPol[tsid]]]
   ELSE [kind |-> "terrestrial", freq |-> TerrFreq(tsid),
         tuning |-> [bandwidth |-> "BANDWIDTH_8_MHZ", constellation |-> "QAM_16",
                     code_rate_HP |-> "FEC_2_3"]])

SatLineOff(tsid, off) == <<"S", SatFreq[tsid] + off, SatPol[tsid], 27500000>>
SatLine(tsid) == SatLineOff(tsid, 0)
TerrLine(tsid) == <<"T", TerrFreq(tsid), "8_MHZ", "2/3", "1/2", "QAM16", "8k", "1/4", "NONE">>

PlainAir ==
  [muxes |-> {Mux(1, PlainTables(1), <<NitSectionOf(<<1, 2>>), NitSectionOf(<<3>>)>>),
              Mux(2, PlainTables(2), <<NitSectionOf(<<2, 1>>)>>),
              Mux(3, PlainTables(3), <<NitSectionOf(<<5, 1>>)>>),
              Mux(5, PlainTables(5), <<NitSectionOf(<<3>>)>>),
              Mux(9, PlainTables(9), <<NitSectionOf(<<10, 9>>)>>),
              Mux(10, PlainTables(10), <<NitSectionOf(<<9>>)>>)},
   lists |-> (DVBS :> <<<<SatLine(1), TerrLine(9), SatLineOff(2, -500)>>>>) @@ (DVBT :> <<<<TerrLine(9)>>>>)]

\* The NIT of a satellite names a terrestrial multiplex, to which no satellite
\* frontend tunes.
OddAir ==
  [muxes |-> {Mux(1, OddTables(1), <<NitSectionOf(<<1, 2>>)>>),
              Mux(2, PlainTables(2), <<NitSectionOf(<<2, 9>>)>>),
              Mux(9, PlainTables(9), <<NitSectionOf(<<9>>)>>),
              Mux(10, PlainTables(10), <<>>)},
   lists |-> (DVBS :> <<<<SatLineOff(1, 500)>>>>) @@ (DVBT :> <<<<TerrLine(9)>>, <<TerrLine(10)>>>>)]

TwinAir ==
  [muxes |-> {Mux(1, PlainTables(1), <<NitSectionOf(<<1, 3, 4>>)>>),
              Mux(3, PlainTables(3), <<NitSectionOf(<<4, 3>>)>>),
              Mux(4, PlainTables(4), <<NitSectionOf(<<4, 3>>)>>),
              Mux(9, PlainTables(9), <<NitSectionOf(<<9>>)>>)},
   lists |-> (DVBS :> <<<<SatLine(1)>>, <<SatLine(3)>>>>) @@ (DVBT :> <<<<TerrLine(9)>>>>)]

\* The twin of the initial transponder is met before it is known itself.
SkippedAir ==
  [muxes |-> {Mux(1, PlainTables(1), <<NitSectionOf(<<2>>), NitSectionOf(<<4>>), NitSectionOf(<<3>>)>>),
              Mux(2, PlainTables(2), <<NitSectionOf(<<2>>)>>),
              Mux(3, PlainTables(3), <<NitSectionOf(<<3>>)>>),
              Mux(4, PlainTables(4), <<NitSectionOf(<<3, 4>>)>>),
              Mux(9, PlainTables(9), <<NitSectionOf(<<9>>)>>)},
   lists |-> (DVBS :> <<<<SatLine(1)>>>>) @@ (DVBT :> <<<<TerrLine(9)>>>>)]

\* A satellite gets its number after the transponders that are tried next are made.
StaleAir ==
  [muxes |-> {Mux(1, PlainTables(1), <<NitSectionOf(<<2>>)>>),
              Mux(2, PlainTables(2), <<NitSectionOf(<<2>>)>>),
              Mux(3, PlainTables(3), <<NitSectionOf(<<3, 2, 1>>)>>),
              Mux(4, PlainTables(4), <<NitSectionOf(<<3>>)>>),
              Mux(9, PlainTables(9), <<NitSectionOf(<<9>>)>>)},
   lists |-> (DVBS :> <<<<SatLine(3)>>>>) @@ (DVBT :> <<<<TerrLine(9)>>>>)]

FiveAirs == {PlainAir, OddAir, TwinAir, SkippedAir, StaleAir}
TwoPositions == <<"013.0", "019.2">>
MayBeMute == {1, 2, 10}
MayBeLate == {{}, {<<1, "PAT">>}, {<<2, "PAT">>}, {<<1, "PMT">>, <<2, "SDT">>, <<3, "NIT">>}}

=============================================================================
