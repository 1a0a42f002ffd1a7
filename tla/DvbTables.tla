------------------------------ MODULE DvbTables ------------------------------
(***************************************************************************)
(* What the scanner learns from the tables of a transponder: the reading   *)
(* of a table section by section (Table::read), the parsers of the         *)
(* sections of dvb/Section.cpp, the descriptors of dvb/Descriptor.cpp, and *)
(* the codes of streams and services.                                      *)
(*                                                                         *)
(* A section is what its parser looks at: its number, the extension of its *)
(* table id, and the entries of its loops with the sizes they have on the  *)
(* air. A descriptor is a record with its tag; the codes in it are those   *)
(* of EN 300 468, the numbers are decoded.                                 *)
(***************************************************************************)
EXTENDS DvbConfig, FiniteSets, TLC

-----------------------------------------------------------------------------
(* Reading a table *)

\* Mutant: one read less.
MaxReadsBug(count) == count + 1

\* The reads of Table::read, of which it takes at most count + 2.
MaxReads(count) == count + 2

\* A carousel sends the sections of a table round and round. The reader tunes in
\* before section "first", and the read number "lost", if there is one, gets the
\* section behind the one it should have got.
Arrival(count, first, lost, k) ==
  (first + k - 1 + (IF lost # 0 /\ k >= lost THEN 1 ELSE 0)) % count

\* Table::read: the numbers of the sections it has when it stops.
SectionsRead(count, first, lost) ==
  {Arrival(count, first, lost, k) : k \in 1 .. MaxReads(count)}

\* Table::parse calls a method of every section, of a missing one as well.
Complete(count, first, lost) == SectionsRead(count, first, lost) = 0 .. count - 1

-----------------------------------------------------------------------------
(* Descriptors *)

NetworkNameTag == 64       \* 0x40
ServiceListTag == 65       \* 0x41
SatelliteTag == 67         \* 0x43
ServiceTag == 72           \* 0x48
TerrestrialTag == 90       \* 0x5A
FrequencyListTag == 98     \* 0x62
CellFrequencyTag == 109    \* 0x6D

\* createDescriptor knows these.
KnownTags == {NetworkNameTag, ServiceListTag, SatelliteTag, ServiceTag,
              TerrestrialTag, FrequencyListTag, CellFrequencyTag}

\* The loops that create descriptors end at the first one they do not know.
Descriptors(ds) ==
  LET unknown == {k \in DOMAIN ds : ds[k].tag \notin KnownTags}
      stop == CHOOSE k \in unknown : \A j \in unknown : k <= j
  IN IF unknown = {} THEN ds ELSE SubSeq(ds, 1, stop - 1)

polarization(code) == <<"H", "V", "CL", "CR">>[code + 1]

bandwidth(code) == IF code <= 3 THEN <<"8_MHZ", "7_MHZ", "6_MHZ", "5_MHZ">>[code + 1] ELSE ""
constellation(code) == IF code <= 2 THEN <<"QPSK", "QAM16", "QAM64">>[code + 1] ELSE ""
hierarchyInformation(code) == <<"NONE", "1", "2", "4">>[(code % 4) + 1]
codeRate(code) == IF code <= 4 THEN <<"1/2", "2/3", "3/4", "5/6", "7/8">>[code + 1] ELSE ""
guardInterval(code) == <<"1/32", "1/16", "1/8", "1/4">>[code + 1]
transmissionMode(code) == IF code <= 2 THEN <<"2k", "8k", "4k">>[code + 1] ELSE ""

\* getBcd: the digits of a number in binary coded decimal, and the units that
\* frequency() and symbolRate() make of it.
Bcd(digits) == FoldLeft(LAMBDA n, d : 10 * n + d, 0, digits)
SatFrequency(d) == Bcd(d.frequency) * 10
SatSymbolRate(d) == Bcd(d.symbolRate) * 100

-----------------------------------------------------------------------------
(* Codes of streams and services *)

StreamTypes ==
  <<"videoMpeg1_11172", "videoMpeg2_H262", "audioMpeg1_11172", "audioMpeg2_13818_3",
    "mpeg2PrivateTableSections", "mpeg2PesPrivateData", "mhegPackets",
    "mpeg2AnnexA_DSMCC", "itu-TRecH2221", "iso-13818_6_typeA", "iso-13818_6_typeB",
    "iso-13818_6_typeC", "iso-13818_6_typeD", "mpeg2ISO13818_1_Aux",
    "audioISO13818_7_ADTS", "mpeg4ISO14496_2", "audioISO14496_3",
    "iso-14496_1_PesPackets", "iso-14496_1_Sections", "iso-13818_6_DownloadProt",
    "metaDataPesPackets", "metaDataSections">>

\* Every code that it does not know is "mpeg2UserPrivate", as 0x80 is.
streamTypeToString(code) ==
  IF code \in DOMAIN StreamTypes THEN StreamTypes[code]
  ELSE IF code = 129 THEN "audioAtscAc3" ELSE "mpeg2UserPrivate"

typeToString(code) ==
  LET types == (1 :> "DigitalTelevision") @@ (2 :> "DigitalRadioSound") @@ (3 :> "Teletext")
        @@ (4 :> "NvodReference") @@ (5 :> "NodTimeShifted") @@ (6 :> "Mosaic")
        @@ (7 :> "FmRadio") @@ (8 :> "DvbSrm") @@ (10 :> "AdvancedCodecDigitalRadioSound")
        @@ (11 :> "AdvancedCodecMosaic") @@ (12 :> "DataBroadcastService") @@ (14 :> "RcsMap")
        @@ (15 :> "RcsFls") @@ (16 :> "DvbMhp") @@ (17 :> "Mpeg2HdDigitalTelevision")
        @@ (22 :> "AdvancedCodecSdDigitalTelevision") @@ (23 :> "AdvancedCodecSdNvodTimeShifted")
        @@ (24 :> "AdvancedCodecSdNvodReference") @@ (25 :> "AdvancedCodecHdDigitalTelevision")
        @@ (26 :> "AdvancedCodecHdNvodTimeShifted") @@ (27 :> "AdvancedCodecHdNvodReference")
        @@ [c \in 28 .. 30 |-> "AdvancedCodecFrameCompatiblePlanoStereoscopic"]
  IN IF code \in DOMAIN types THEN types[code] ELSE ""

isAudio(type) ==
  type \in {"DigitalRadioSound", "FmRadio", "AdvancedCodecDigitalRadioSound"}
isSdVideo(type) == type \in {"DigitalTelevision", "AdvancedCodecSdDigitalTelevision"}

statusToString(code) ==
  IF code <= 5
  THEN <<"Undefined", "NotRunning", "StartsShortly", "Pausing", "Running", "OffAir">>[code + 1]
  ELSE ""
StatusRunning == "Running"

-----------------------------------------------------------------------------
(* The parsers of the sections *)

\* SdtSection::parse: bytes of an entry with its descriptors, and the entries the
\* loop reads. It takes the length of the loop without its 11 bytes of head for
\* the end of the loop, which is counted with them.
EntrySize(e) == 5 + e.size
SdtRead(entries) ==
  LET ends[k \in 0 .. Len(entries)] ==
        IF k = 0 THEN 0 ELSE ends[k - 1] + EntrySize(entries[k])
      read(k) == ends[k - 1] + 11 < ends[Len(entries)]
  IN SubSeq(entries, 1, Cardinality({k \in DOMAIN entries : read(k)}))

\* A service after the entries of the SDT that are about it: the last one has its
\* state, and the last service descriptor of them names it.
Described(service, entries) ==
  LET known(e) == Descriptors(e.descriptors)
      names == Those(Flat(Map(known, entries)), LAMBDA d : d.tag = ServiceTag)
      state == IF entries = <<>> THEN service
               ELSE [service EXCEPT !.status = statusToString(Last(entries).status),
                                    !.scrambled = Last(entries).scrambled]
  IN IF names = <<>> THEN state
     ELSE [state EXCEPT !.type = typeToString(Last(names).type),
                        !.provider = Last(names).provider, !.name = Last(names).name]

\* The service which scanPatPmt makes of an entry of the PAT.
NewService(program) ==
  [name |-> <<>>, sid |-> program.sid, pmtid |-> program.pmtid, streams |-> <<>>,
   pcr |-> 0, status |-> "", scrambled |-> FALSE, provider |-> "", type |-> ""]

\* Each section of a PMT gives its streams, and the pid of the PMT itself as one.
WithPmt(service, sections) ==
  LET stream(s) == [type |-> streamTypeToString(s.code), pid |-> s.pid]
      streams(section) ==
        Map(stream, section.streams) \o <<[type |-> "programMapTable", pid |-> service.pmtid]>>
  IN [service EXCEPT !.streams = Flat(Map(streams, sections)),
                     !.pcr = IF sections = <<>> THEN @ ELSE Last(sections).pcr]

\* The transponders scanNit makes of the descriptors of one transport stream.
Delivered(ts) ==
  LET sat(d) ==
        [kind |-> "sat", freq |-> SatFrequency(d), tsid |-> ts.tsid, services |-> <<>>,
         tuning |-> [satPosition |-> d.position, satNum |-> InvalidSatNum,
                     symbolRate |-> SatSymbolRate(d), polarization |-> polarization(d.polarization)]]
      terrestrial(d) ==
        [kind |-> "terrestrial", freq |-> d.frequency * 10, tsid |-> ts.tsid, services |-> <<>>,
         tuning |-> [bandwidth |-> bandwidthFromString(bandwidth(d.bandwidth)),
                     code_rate_HP |-> coderateFromString(codeRate(d.codeRateHP)),
                     code_rate_LP |-> coderateFromString(codeRate(d.codeRateLP)),
                     constellation |-> modulationFromString(constellation(d.constellation)),
                     transmission_mode |-> transmitModeFromString(transmissionMode(d.transmissionMode)),
                     guard_interval |-> guard_intervalFromString(guardInterval(d.guardInterval)),
                     hierarchy_information |-> hierarchyFromString(hierarchyInformation(d.hierarchy))]]
      delivery == Those(Descriptors(ts.descriptors),
                            LAMBDA d : d.tag \in {SatelliteTag, TerrestrialTag})
      made(d) == IF d.tag = SatelliteTag THEN sat(d) ELSE terrestrial(d)
  IN Map(made, delivery)

=============================================================================
