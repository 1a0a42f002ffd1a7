# Verification of omm-9p

TLA+ models of *omm-9p* (Open Multimedia over 9P): a renderer, a media server
with DVB streaming, a controller and a scanner, which talk 9P with each other.
The models are checked with TLC on small instances, and what matters most is
proved with TLAPS for every value of the constants.

`PROJECT.json` lists the components, the runs, the mutants (a plausible bug per
property, which the property must detect), the source lines behind every
definition, the hazards of the code and the theorems.

## 1. Inventory

| component | source | state | operations | status |
|---|---|---|---|---|
| renderer, control core | `render.c` | `RendererCtx`: state, command queue `cmdq` (5), url | 9P write to `ctl`, keys, `read_cmd`, state functions | modelled, proved |
| renderer, FFmpeg backend | `render_ffmpeg.c` | picture and audio queue, `presq`, pause flag, codec contexts | `state_load/run/unload/engage/disengage`, `presenter_thread` | modelled, proved |
| renderer, libVLC backend | `render_vlc.c` | the media player | the same state functions | modelled, proved |
| blocking byte stream | `dvb/AvStream.*` | ring buffer, level, two conditions | `read`, `write`, `readSome`, `writeSome`, `clear` | modelled, proved |
| DVB services, remultiplexer | `dvb/Service.*`, `dvb/Remux.*`, `dvb/TransportStream.*`, `dvb/dvb.cpp` | list of services, packet queues, packet reference counts, threads | add/remove a service, read, queue, copy, stop, flush | modelled, proved |
| DVB device, tuner, demultiplexer | `dvb/Device.*`, `dvb/Frontend.*`, `dvb/Demux.*`, `dvb/Dvr.*` | adapters, frontends and their tuned transponder, service map, known transponders and satellites, pid filters with counts | detect, read and write XML, scan, tune, start and stop a service | modelled, proved but for what the scan finds |
| DVB tables | `dvb/Section.*`, `dvb/Descriptor.*`, `dvb/Transponder.*`, `dvb/Stream.*`, ... | sections of a table, descriptors, transponders, services, streams | read, parse, convert, read and write XML | modelled, without bit fields and checksums; proved |
| media server | `serve.c` | query string, favourites, database, the object of each fid | 9P walk, open, read, write, stat, clunk | modelled, proved |
| controller | `control.c` | the entries of a listing | `ls`, `fav`, queries, renderer commands | listing and favourites modelled |
| scanner | `scan.c` | database, next id | drop, create, insert, commit | modelled, proved |
| VLC 9P access plugin | `vlc_acc9p_plugin.c` | 9P connection, size | open, read, seek, close | as player of the media server |
| dummy backend, tools, `dvb/Mux.*` | | | | not modelled: stubs, command line I/O, unused |

How they interact. A controller, or any 9P client, writes words to the
renderer's `ctl` file. The renderer's 9P server process and its window send
commands to `cmdq`; the decoder thread reads them and drives the state machine,
whose state functions belong to the backend. The FFmpeg backend adds a presenter
thread per loaded audio stream, which empties two queues and sends a STOP to
`cmdq` at the end of the stream. The libVLC backend calls a player which has
threads of its own. The backends read from files, or through 9P from the media
server, which serves files, metadata and DVB streams in one thread. For a DVB
stream the device tunes a frontend, the remultiplexer's read thread hands
packets to the queue of each service, a thread per service writes them to a
byte queue, and the server's read takes them out of it.

What is hard in this code, and where the properties are aimed:

* commands of several senders enter one bounded queue and are applied to
  whatever state the decoder has reached by then;
* three preemptive threads (`THREAD_CREATE` is `proccreate`) share a context
  without locks; they meet in channels, a flag and pointers that are freed;
* every wait is for another thread: the server for the queue, the decoder for
  the presenter and the picture queue, the presenter for the audio queue, and for
  room in the command queue which the decoder reads;
* loads fail half-way, streams lack audio or video, decoding fails;
* the player of libVLC changes by itself, and nothing tells the renderer;
* the byte queue waits once and goes on without a second test; full and empty
  differ only in the level; a service is stopped while its thread waits;
* the media server has one thread and one set of globals for all clients, two
  processes write its database, and a read of a stream can stop everybody;
* frontends, transponders, filters and clones are shared by streams that are
  opened and closed in any order, and a transponder may be deleted under them;
* the frontends of an adapter all use its demux 0 and dvr 0, and filters and files
  share the descriptors of the process, some of which the server closes unasked;
* the scan recurses through tables that name each other, come in pieces or not
  at all, and finds out by trying where the satellites are.

The full list, line by line, is under `hazards` in `PROJECT.json`.

## 2. Plan

The first six points are done; the last two are left.

1. `RenderCommands`, `RenderControl` (core), `RenderFfmpeg` (refines it),
   `RenderVlc` (extends it), `ByteFifo`/`ByteQueue` (refinement), each with its
   MC module and runs; theorems about the core, the libVLC backend and the queue.
2. `DvbPipeline`: packets with reference counts, the remultiplexer's list
   of services, service queues at their limit, clones, start, stop and flush.
   Theorems about queues, wakeups and the list of services.
3. `DvbConfig`, `DvbTables`, `DvbScan`: the objects of the DVB part and their
   file, the tables of a transponder, the scan; each extends the one before.
4. `DvbDevice`: the device of the media server: transponders, frontends,
   filters, streams. `MediaDb`: the database and its scanner. `MediaServer`
   composes the two with its clients.
5. Theorems about what was only checked until then: the counts and the order of
   `DvbPipeline`; the invariants of `RenderFfmpeg` and its refinement of the core;
   the database, the device and the server (`MediaServer_proofs`).
6. Theorems about what a listing shows (`ListingTrue`), and about the scan: its heap and
   its stack of frames, short tables, the services of what is found, and the file
   that keeps it.
7. To prove: what the scan finds (`ScanComplete`, `SatMapTrue`).
8. To model: the comparison of times and the picture buffers of the FFmpeg
   backend; parsing of urls; the PAT and PMT which the remultiplexer injects.

## 3. Modules

### RenderCommands
The states, the commands, the words of the `ctl` file and the transition table
of `render.c`, one row per command. `Transition(cmd, state)` is
`transitions[cmd][state]`: only `STOP`, `RUN` and `IDLE` read commands and have
rows of interest; the other columns are the same in every row. What the table
gives in each state are the lemmas of `RenderCommands_proofs`, which the proofs
about the core and both backends use.

### RenderControl
The core without a backend. Variables: `rstate`, `cmdq`, `url` as in
`RendererCtx`; `outbox[s]`, the command a sender is in `send()` with (a 9P
server that is in `send()` serves nobody); `media`, which url is loaded; `proc`,
the process; and the history variable `named`, the url named by the last line
that was accepted. Actions: `SrvWrite`, `KeyPress`, `PresenterStop` (a sender
enters `send()`), `Send` (the queue takes the command), `ReadCmd` (`read_cmd`
with its handler, the free of the argument and the lookup of the next state),
`Load`, `Unload`, `Toggle`, `RunError`, `Exit`. Loads that fail are part of
`Load`, for both outcomes lead to `RUN`.

The two arrow keys send a string literal which `read_cmd` frees: such a command
carries `literal`, and the process has crashed when it was read. All properties
hold up to there. Fairness is not stated here: whether the decoder comes back to the
queue depends on the backend.

### RenderFfmpeg
The decoder thread as a program counter `dpc` with a step per channel operation
and per change of the shared context; a presenter thread per load `p` with
`ppc[p]`. Channels are named by the load that created them, so that a thread
which waits in a channel that `rctx` has left keeps waiting in it. The use of a
nil or freed channel ends the behaviour as `crashed`. Frames are abstract
(`"frame"`, `"eos"`); the decoder may take any number of packets for a frame.
The comparison of the times of picture and sample in `Show` is left open for
frames; the end-of-stream picture has the time 0 and no sample has, so that it stays
in the presenter's hand (`inhand`). A rendezvous on `presq` (a channel without a
buffer) is one step of both threads, in `Poll`. The decoder is in the channel from
`UnloadSendul` on, a step behind the last end-of-stream item (`UnloadEos`): between
the two the presenter may poll and find nothing.

What a load has allocated is `ready`. A failed allocation takes the error transition
and the load's own one comes on top of it (`AllocBuffers`): one failure leads to
`RUN`, two lead to `STOP` with a presenter running (`AllocErrors`). An unload after a
load that failed uses a nil packet (`UnloadNoPacket`), a frame that is not there is
decoded into (`RecvNoFrame`): the process crashes.

The three threads can hang, each of the first two with the 9P server behind them:
* the decoder in `sendul(presq)` (`u_stop`) and the presenter in `recv` of an empty
  queue, because it took the end-of-stream items too early (the finding of
  `ffmpeg_unload`), or in `send` to a full command queue (`stop`);
* the decoder in `send_eos_frames` (`render_ffmpeg.c:1046`) and the presenter paused,
  after a STOP in IDLE with full queues; or, at an end of the stream or an unload, in
  the one queue while the presenter waits in the other;
* the decoder in `send_picture_to_queue` and the presenter in the audio queue, for
  samples that come behind the pictures in the file; a stream without audio has no
  presenter at all, so that its decoder stays at a full picture queue.

Not modelled: `resize_video` by the window's thread, the contents of pictures
and samples, the connection to a 9P file server (part of a load that fails).

`ImplementsControl` maps this state to that of `RenderControl`: the abstract
senders are the 9P server and one presenter, `media` is loaded when the demuxer
is ready, and its words are all those of the table, since the backend does not say
which of them a client writes. It is checked without decoding and loading errors,
and proved with loading errors, but for the two failed allocations, and up to the
first decoding error (`RenderFfmpeg_proofs`). A decoder that hangs stutters.

### RenderVlc
`RenderControl` and the state of the player: what `libvlc_media_player_pause`
(which toggles) and `libvlc_media_player_stop` do is external and taken from
how `render_vlc.c` uses it. `PlayerEvent` is the player by itself: it starts,
ends, or fails. `hasty` records that a pause came while the player was opening.
Here the decoder waits for nothing but commands, so that `SendersServed` can be
claimed (`VlcFairSpec`): whoever sends a command gets it into the queue.

### ByteFifo and ByteQueue
`ByteFifo` is what the header of `AvStream` promises: bytes leave in the order
in which they came in, each once, and a call that returns has moved something.
`ByteQueue` is `RingBuffer` with its two positions, and `ByteQueue` with its
level and conditions. What runs under the lock is one step; a waiting thread
becomes `woken` by a broadcast and then goes on without a second test, as the
code does (`if`, not `while`). Conditions of Poco have no spurious wakeups.
There is one writer (the queue thread of the service) and one reader (the
server's thread, which also clears). `clear` reads the level twice and outside
the lock: two steps.

### DvbPipeline
The three kinds of threads between the DVB device and the media server: the read
thread of the remultiplexer (`walk`: its place in the loop, its packet, its
iterator), a queue thread per service in use (`thread[i]`, with the packet it has
taken in `held[i]`), and the one thread of the server, which opens, reads and
closes streams (`srv`). A service is an instance `<<name, k>>`: `k = 0` is the
object the device keeps, the others are the clones `addService` makes while that
one is in use. Packets are numbered as they are received, `ref[p]` is
`_refCounter`; a byte queue holds whole packets, because `ByteQueue` has shown
how its bytes travel.

What the code does under `_serviceLock` is one step. `delService` holds
`_remuxLock` from `Close` to `Flush`, and the read thread takes that lock only
at the head of its loop: it goes through the list without it. So `services` may
change between any two steps of `WalkNext`, `WalkGive` (the iterator is read
twice) and `QueueTsPacket`; an iterator that has gone past the end, or whose
vector may have moved (`push_back`, left open), ends the behaviour with a fault,
and so does the use of a packet that was freed. A close always stops the
original, also when the stream was that of a clone (`dvb.cpp:91`); clones go on
for ever. History: `mishaps` records that a packet met a full queue (`"full"`) or
that a service was erased while a packet was given out (`"shift"`). `RefsExact`
and the half of `InOrder` that excludes a packet given twice are claimed up to
that, since the code does not keep them further; the finding shows the first,
and a close and reopen between two reads of the iterator leads to the second.
`Pending(i)` is all that an instance has still to give its reader: the bytes, the
packet its thread holds, and the queue. `InOrder` compares any two of them.

Assumed: `tryJoin` of the queue thread does not time out. `StopEnds` shows that
the thread needs nobody else to end once it is told. Not modelled: tuning and
filters (`DvbDevice` has them), the start and stop of the remultiplexer with the device, the
injected PAT packets (they go to the byte queue together with the packet), pid 0.

### DvbConfig
Operators only. The objects a device consists of (adapters, frontends,
transponders, services, streams) as records; the `writeXml` and `readXml` of each
over XML elements; the conversions of the tuning parameters; `detectAdapters`;
and the service map. The readers keep the habits of the code: children are read
while they have the expected name (`Leading`), the last value of a name wins and
a missing one leaves the default (`Text`), frontends of the file are matched by
place, type and name, a text that is not known has no value (`Undefined`).
The folds over sequences are `Picked` (the elements at given places), `Those`, `Map`
and `Flat`; what they return is stated and proved in `DvbConfig_proofs`.

### DvbTables
Operators only. How a table is collected from sections that arrive in a circle
with at most one lost (`SectionsRead`), what the loops over descriptors and over
the services of an SDT take (`Descriptors`, `SdtRead`), and what a service or a
transponder becomes by the entries of PAT, PMT, SDT and NIT. A section is a
record of what its parser looks at; `EntrySize` keeps the sizes, since the loop of
the SDT parser compares them; where its entries end (`ends`) is a function defined by
recursion.

### DvbScan
`Frontend::scan` with the recursion of `scanTransponder` and `scanNit` as a stack
of frames; `Device::scan` over all frontends; the file that is written, and the
device a server reads from it. Transponders are objects at addresses (`heap`):
`_scannedTransponders` (`known`) keeps the addresses of deleted ones
(`dangling`), and new objects may get them again. The air (`air`: multiplexes
with their true parameters and tables), which multiplexes do not lock (`dead`)
and which tables time out (`late`) are chosen at the start. Actions: `StartList`,
`ScanInitial`, `ScanRefused`, `ScanTables` (PAT, PMT, SDT and NIT of one
transponder: nothing else runs in between), `TableTorn` (parsing an incomplete
table, undefined), `NitKnown`, `NitTune`, `NitReturn`, `InitialReturn`,
`EndList`, `EndFrontend`, `WriteFile`.

The heap has the addresses `1 .. Places`. `HasRoom` is the bound: a step that makes
more objects than there are free addresses is not taken. A frontend tunes to
transponders of its own kind only (`Kind`): the `dynamic_cast` in `tune` refuses the
others, which a NIT may name.
`ScanAssumption` says that there is a frontend, that adapters and their frontends
are numbered from one without gaps, and that each receives from satellites or
terrestrially. `AirAssumption` says that lists and tables are sequences, that a PAT has
at least one section, and that the PMT of a programme is sent: one that is not times
out, which is `late`. `TextAssumption`: adapters have ids of their own, `Positions` is
a sequence, the bit of an SDT entry that says scrambled is a bit, and the
terrestrial parameters in the lists and the NITs are among those that the
`...FromString` know. What they return for other texts is undefined: they fall off
their end without a return value (`Transponder.cpp:534`), and what was made of that
by one process need not be what another reads. TLC evaluates the three for the airs of
the run.

What was met and is part of the properties' conditions: the frontend is closed
after its first list, so that later ones find nothing (`Frontend.cpp:270`);
`equal` compares unsigned frequencies, so that its tolerance holds on one side
only (`Above`, `Transponder.cpp:149`), and ignores satellite and polarisation
(`Distinct`); an address that is used again makes a new transponder look known
(`reused`); an orbital position may be given the number of another satellite
(`Twins`); the parsers lose services (`Odd`).

### DvbDevice
`dvb_stream`, `dvb_read_stream` and `dvb_free_stream` with what they call in
`Device`, `Frontend` and `Demux`. A transponder is its place in `device`, which
is what `DvbConfig` reads from the file; an instance of a service is
`[at, number, clone]`. `tuned` and `locked` differ after a retune without lock
(the hardware keeps what it received, receives nothing, or locks too late), `refs` and
`handle` are the filters, `served` what the remultiplexer gives packets to
(`DvbPipeline` models how), `marks` the running services of a transponder, `deleted`
the transponders that `dvb_stream` has deleted. An opening chooses among the
transponders that lock and the pids that get no filter.

Two things are shared. All frontends of an adapter open its demux 0 and dvr 0
(`Frontend.cpp:112`): only the first with transponders gets to read the dvr (`Reads`),
what comes there is of the frontend that the hardware wires to demux 0 (`feeder`,
chosen among `Wirings`), and of all pids for which anybody has started a filter
(`Handed`). And a filter is a descriptor: `fds` says of each number whether it is
standard input, a file, or a filter for a pid, started or not. The server's files and
the filters get the lowest free one (`Openings`, `LowestFree`). Left out are the
descriptors that are opened once and stay, which only shift the others, and those
that SQLite opens for the time of a statement.

`Unselect` goes by `handle`, whatever the descriptor is of by then: `Stopped` and
`Unselected` are how far `runService` and `unselectService` come.

`mishaps` is history: `refused` (a transponder was deleted), `interrupted` (a
frontend was tuned anew under a stream), `lost` (without lock), `cloned`,
`strayed` (a stream from another transponder than the first of its name),
`unfiltered`, `deaf` (a stream on a frontend whose packets do not get to its dvr),
and `descriptor` (a stat has closed a descriptor of somebody, in `MediaServer`).
They are consequences of the code, and each property says which of them it excuses,
and by that which it does not.

`FiltersExact` compares the count of a pid (`refs`), where the open streams list it
(`Uses`), and the descriptor of its filter, which is its own, and started; and it says
that no descriptor of a filter is left over. Only where no service lists a pid twice
(`NoDoubles`) does each pid in use have a running filter: `runStream` starts a filter
that is counted once, so that a service which counts a pid twice at once starts none
for it, and neither does the next one with this pid. `Readable` is what the readers of
`DvbConfig` make of the file of the device.

### MediaDb
The tables, the statements of `scan.c` one by one, and its transaction. A
statement may fail while the server has one open (`lock`); nobody looks at that. The
INSERT can meet a lock until the transaction has its first row, which keeps others
from writing (`Writing`); so can the two statements that are prepared at the start.
`refused` records the scans to which it happened.

### MediaServer
Extends the two. Handlers of requests are single steps, except that the scanner
may come between the two queries of `rootgen` (`RootCount`, `RootId`), and that a
directory is read in messages of `PerMessage` entries. Controllers do what `xls`
does: query, read the directory, then stat and read the meta data of each
object. Players do what the plugin does: stat, open, reads, close. The object of a
fid that was not opened has handle 0, which `srvdestroyfid` closes (`StatData`,
`Close`): after the first stat this is the lowest number that a file or a filter
gets, and the next stat closes it. A read of a descriptor that has become another
file's gives the bytes of that file (`foreign`). `down` says why the server ended
(`exit`) or is undefined (a read with no descriptor, a nil stream, freed memory);
`blocked`, whose
read of a stream waits while nobody else is served. A statement of the scanner may
meet a lock whenever a client is active, for handlers that are one step here have
statements open too (`InUse`). That a statement of the server meets a lock of the
scanner is modelled for favourites (`MayWrite`), not for its queries: the tables
change, or the transaction is committed, in one step. Names of lists are sequences
of letters, since a shorter name does not replace a longer one.

Its assumptions say what the program can meet: a database is one a scanner leaves
(`WorldAssumption`: `id` is the primary key of `obj`; without the tables `opendb`
ends the server, so that only the scanner acts), names of lists are letters
(`CommandAssumption`), and the file of the device is one that a scan has written
(`FileAssumption`), as `dvb_open` reads no other. TLC evaluates them for the worlds
of the run.

## 4. Runs

| run | module | result | what it shows |
|---|---|---|---|
| `control` | MCRenderControl | holds | types; nothing is loaded twice or left behind; a PLAY starts the url that was named last before it |
| `control_set` | MCRenderControl | violated | with the words of the repository's README.md (line 53, `set`) the url is dropped: the table says `put` |
| `ffmpeg_normal` | MCRenderFfmpeg | holds | one presenter at a time, no freed queue in use, pause after at most one sample, STOP only behind the last sample, clean stop; refinement of the core |
| `ffmpeg_errors` | MCRenderFfmpeg | holds | types and pause with failing loads and decoding and single streams |
| `ffmpeg_unload` | MCRenderFfmpeg | violated | `render_ffmpeg.c:1165`: the flush items do not keep the presenter from blocking; both threads wait for ever |
| `ffmpeg_readcmd` | MCRenderFfmpeg | violated | `render.c:277`: commands *are* read in `UNLOAD` after a decoding error |
| `vlc_player` | MCRenderVlc | holds | the player is stopped when the renderer is, and paused when the renderer is; every sender of a command is served |
| `byte_queue` | MCByteQueue | holds | positions and level agree, no vain and no lost wakeup, refinement of the byte stream |
| `dvb_pipeline` | MCDvbPipeline | holds | exact reference counts, order of packets, no empty queue after a wakeup, live threads behind the list, stops and reads end |
| `dvb_scan` | MCDvbScan | holds | every multiplex that can be reached is found once, positions get their satellites, services are as their tables say, short tables survive a loss, the file gives the server what was found, the scan ends |
| `media_server` | MCMediaServer | holds | listings show what was asked for, players read their own objects, filters are those of the open streams, only the named mishaps end or block the server, a scan leaves a complete database |
| `dvb_overflow` | MCDvbPipeline | violated | `Service.cpp:521`: a packet that meets a full queue is freed under the threads that hold it |

The trace of `ffmpeg_unload`: STOP is read, the decoder puts an end-of-stream
item in both queues; the presenter takes them before the decoder has entered
`sendul`, sends a STOP of its own, polls `presq`, where it finds nobody, and waits in
`recv` of the empty audio queue. Then the decoder enters `sendul`. `ffmpeg_readcmd`: at the end of the input a command that keeps the state
sends the loop on with the old packet, which drains the decoder of stream 0; its
next answer is an error, the state becomes `UNLOAD` and the loop polls commands
once more; a STOP then leads to `STOP` without `state_unload`.

The DVB runs set `CHECK_DEADLOCK FALSE`: packets are bounded, a read of a stream
without packets waits for ever, and a fault ends the behaviour. So do `dvb_scan`,
which ends, and `media_server`, whose server may end or block.

The command table disagrees with the documentation twice: in `set`, which has a
run, and in `quit`, which README.md:99-101 promises and the `QUIT` row drops in
`RUN` and `IDLE`; that can be read off `QuitRow`.

Deadlock is checked in `control`, `vlc_player` and `byte_queue`. The FFmpeg runs
set `CHECK_DEADLOCK FALSE`: the process may end, crash, or hang in the ways that
section 3 lists under `RenderFfmpeg`, and loads are bounded.

### Bounds

* `CmdqSize` 1 or 2 instead of 5: a full queue and two commands in it matter,
  their number does not (proved for every size in `RenderControl_proofs`).
* One url and "no url": the properties compare urls, and the order of two lines
  that name urls is seen through "named" and "not named"; the theorem is for any set.
* In `control` the client writes `put` and `play` and the keys send play, pause,
  stop, quit and seek: every row of the table but that of `err` is used, and a
  command takes the same way whoever sends it.
* FFmpeg: picture queue 1, audio queue 1 or 2, two or three frames per load, two
  loads: the queues fill and drain, the end of stream meets full queues, and a
  thread of the first load could meet the second. `MaxLoads` is a guard of
  `LoadOpen`, `MaxFrames` the initial value of `left`.
* Byte queue: size 3, requests of up to 4 bytes, two byte values: a request
  exceeds the queue, both sides wrap, and transfers end at the end of the buffer.
* DVB pipeline: one service, two streams (the second needs a clone), two packets,
  queue and byte queue of one: a queue is full, a queue thread waits for room
  when it is stopped, a packet is in two queues, a service is stopped and
  started again while a packet is given out. Services with different names
  differ in nothing but the pids they take (`takers` may be empty). `MaxClones`
  is a guard of `Open`, `MaxPackets` one of `GetPacket`.

* DVB scan: five airs of four to six multiplexes on two satellites and one
  transmitter, with NITs that name each other in circles: plain ones; tables
  the parsers do not take and four sections; two multiplexes of one frequency and
  polarisation on two satellites, met in three different orders. Lists have valid
  and other lines, there are one or two per frontend, and their frequencies are
  right or 500 kHz beside. `Places` (14 addresses) is what the largest air
  needs, so that no behaviour is cut off; `Mute` and `Late` name what may fail.
* Media server: eight worlds, each with those who can disturb each other: two
  controllers; a controller and the scanner; the scanner alone with a new
  database; two players with files, among them one that is gone and an id that
  is no longer there (these four without a device, which nobody uses in them); two
  players with DVB services, either of two that share a pid, or of two on different
  transponders of which one has a pid of the other, with one frontend on each of two
  adapters, or two on one adapter, and either of these, there or not, wired to its
  demuxer; two players with a service and a file, whose descriptors meet; and with a scrambled
  and an unknown service. Three openings (`MaxOpens`) are enough for a stream that is
  opened after one was closed under another; `MaxClones` is 1, `MaxScans` 2 (the
  scan that made the database is one), `MaxFavs` 2, and there are two entries to a
  message. Five descriptors (`MaxFd` 4) are standard input and the filters
  of two streams on two frontends; an opening for which none is left is a step that is
  not taken, so that a process which runs out of descriptors is not modelled.
  Controllers are symmetric (`Alike`): they do the same, and the run checks invariants only.

### Fairness

`RenderVlc`: weak fairness of the decoder, a thread of its own whose calls of the
player return; strong fairness of each `VlcSend`, for a sender that waits in a channel
of libthread is in the queue of the channel and is not passed over for ever. Clients,
keys and the events of the player need not come. The FFmpeg backend claims no liveness: its
decoder can wait for ever, with any fairness, and with it all senders. `ByteQueue`: weak fairness of a thread that is in a call
and can go on; nobody need call. `DvbPipeline`: weak fairness of the read thread
within a packet, of each queue thread and of the server within a call: they are
preemptive threads whose locks are held for short; the device need not deliver
packets and clients need not call. `DvbScan`: weak fairness of `Next`: the scan is
one sequential program whose waits all have timeouts. The other specifications are safety only.

## 5. Theorems

All for any values of the constants which satisfy the modules' assumptions: the
sizes are positive, "no url" is not a url, the names of the senders differ, the
tables of disk, clients and files are as section 3 says (`ControlAssumption`,
`QueueAssumption`, `PipelineAssumption`, `FfmpegAssumption`, `DbAssumption`, `DeviceAssumption`,
`ServerAssumption`, `WorldAssumption`, `CommandAssumption`, `FileAssumption`,
`ScanAssumption`, `AirAssumption`, `TextAssumption`). A theorem of the
form `Spec /\ []P => []Q` speaks of the behaviours all of whose states satisfy P.

* `RenderControl_proofs`, of the core: `TypeCorrect`, `NeverLoadedTwice`, `PlayStartsNamedUrl`.
  The last one needs the assumption that no client writes `set`, the word of the
  finding above. The invariant follows the url through the queue: applying the
  commands that are still queued to `url` gives each command's `named`, and the
  last one's is the history variable. It is needed since the property speaks of
  the head of the queue only.
* `RenderControl_proofs`, of the libVLC backend: `VlcImplementsControl` (a step of the backend is a step of
  the core), hence the theorems of the core hold for it; `PlayerIsStopped` and
  `PauseKeepsInStep`, whose invariant relates each renderer state to the player
  states it allows, the passing states `LOAD`, `ENGAGE` and `DISENG` included.
  `VlcTypeCorrect` for the types of both.
* `RenderFfmpeg_proofs`, along four invariants:
  - `TypeInv` adds to the types where the decoder can be in which state and what it
    then has at hand (`Places`): `FfmpegTypeCorrect`.
  - `PauseInv` follows the one sample a presenter may still play: in IDLE it is past
    the queues and cannot get back to them: `PauseIsKept`. Both hold with all errors.
  - `AloneInv` says that a living presenter is that of the last load and waits in its
    queues, which are open: `OnePresenterLives`, `NoFreedQueueIsUsed`,
    `StopLeavesNothing`, and, since each step is then one of the core or a stutter,
    `FfmpegImplementsControl`. They have the hypothesis `[]LoopInRun`: the loop of
    `state_run` has met no decoding error. It is not only convenient: after such an
    error the code goes on in its loop in a state that is not RUN, which is the
    finding of `ffmpeg_readcmd`. Loads may fail. `CleanRunsAreAlone` and
    `CleanRunsImplementControl` discharge it: no decoder fails (`CleanRuns`) if none
    returns an error and stream 0 is not one that is decoded, so that the packet
    which is sent twice is ignored. And they have the premise `~AllocErrors`: after two
    failed allocations in one load the code is in `STOP` with a presenter running.
  - `EosInv` keeps the end-of-stream item behind all samples: `EosComesLast`, with
    decoding errors. Its hypothesis `NoStaleAudio` is needed, as TLC shows: if stream 0
    is the audio, the old packet makes frames behind the end of stream.
* `ByteQueue_proofs`: `QueueTypeCorrect`, `PositionsInStep`, `NobodyWaitsInVain`
  from the invariant `QueueInv`, which adds that a thread in a call has something
  left to do; without this a transfer of zero bytes could wake a thread in vain.
  `QueueImplementsFifo`: the content is what a read of `level` bytes would copy;
  the lemmas `OverwrittenAppends` and `CopiedSplits` say that a write appends to
  it and a read takes its head, whichever way they wrap.
* `DvbPipeline_proofs`: `PipelineTypeCorrect` (with the bounds of the queues),
  `WokenThreadsFindSomething`, `OpenStreamsAreServed`. The invariant `PipelineInv`
  adds what each thread may rely on (`Occupied`), that only a stop leaves a
  sentinel in a queue, which is why a flushed queue cannot end the thread of the
  next start (`Queued`), that the list names an instance once and only running
  ones (`Listed`), and that streams share no original before there are clones
  (`Apart`). `CountsAreExact` along `RefsInv`, which adds that only a queue
  thread that writes holds a packet, that nobody has a packet that was not received
  yet (so that a new one starts with no holders), and that the holders of a packet
  are finitely many, though there may be any number of instances.
  `PacketsStayInOrder` along `OrderInv`: the three parts of what is pending for an
  instance ascend, and who has the packet that is given out stands before the
  iterator, as long as nothing was erased behind it: nobody gets it twice.
* `MediaServer_proofs`, along `ServerInv`, whose parts are kept one after the other:
  - `DbInv`: what the scanner has committed and what it still has to do add up at
    each of its steps, and the ids it gives are beyond those in the table:
    `ScannedFilesAreFound`.
  - `DeviceInv`: the count of a pid grows and shrinks with its uses only if a stream
    that is closed has the pids it was opened with. `dvb_free_stream` looks the
    service up by its name, hence `NamesInv` and `HomeInv` (the first transponder of
    the name is that of the stream, unless one `strayed`); `TunedInv` and `LockInv`
    say for how long its frontend stays, `SoleInv` and `OriginalInv` that its
    instance is nobody else's. `HandlesInv` says that each filter has a descriptor
    of its own, for as long as no stat has closed one. `CountsInv` and
    `RunsInv` are what is proved of the counts and of the started filters, and
    `HearsInv` that a stream hears its frontend unless it is `deaf`: `FiltersAreExact`.
  - `PlayInv`: each player has a stream of the name it asked for, or a descriptor of
    its own (`FilesInv`): with `DeviceInv`, `PlayersReadTheirOwn`. A closed descriptor
    is excused, and counted among the mishaps.
  - `RequestInv`, `NamesShape` and `TablesThere`: a directory read that is handled is
    that of a controller, and the server finds its tables unless a scanner is making
    them or met a lock: with the rest, `ServerTypeCorrect` and `ServerGoesOn`. The
    latter has the premise `ServicesAreWhole`, which depends on the file of the device
    only: a service without pids, or with one it lists twice, gets no packets, and
    reading it blocks the server with no mishap at all. Among the mishaps that block it
    are a closed descriptor and a stream on a frontend that does not reach its dvr. It holds in all
    worlds of `media_server`.
  - `ListingInv` follows a listing through its many requests: what a controller has
    shown and what it has still to do are the selection of the server, in its order, as
    long as nobody disturbs it; and the server uses the list that was set last. The
    selection is a join of tables by folds; how often an object is in it is counted
    with the lemmas of `DvbConfig_proofs`: `ListingsAreTrue`.
  The invariants of the device, the players and the tables were checked with TLC on
  the instance of `media_server` before they were proved.
* `DvbConfig_proofs` has no theorem of a specification but lemmas. Those about the folds
  over sequences (`Picked`, `Those`, `Map`, `Flat`) give their length, their elements and
  the order of these; they are defined by recursion on numbers, and the induction is
  by the least number for which the claim fails. The others follow each object
  through `writeXml` and `readXml`, from a stream up to `DeviceIsKept`: children of one
  name stand together, so that `Leading` takes all and no more; the text of a
  parameter is read back as the parameter; and a frontend of the file is found again by
  its place, type and name. `ServiceMapIsKept`: the map of the services depends only on
  what was kept.
* `DvbScan_proofs`:
  - `ScanInv` says for the stack of frames what each may rely on: a transponder that
    waits in a frame is an object, and nobody else has its address unless it is
    known, so that the `delete` of `scanNit` frees nothing another frame or list still
    has. With the types of the rest of the state: `TypeCorrect`, for any heap and any
    NITs, though deleted objects leave their addresses in `known` and new ones get them.
  - `ShortTablesAreWhole`: `ShortTables` says of the reads of one table that three
    sections survive whichever comes first and whichever is lost, and `ScanInv` that
    the scan is at a multiplex of the air when it ends for want of one.
  - `ServicesAreExact`. `HeldInv`: the transponders that are found, that a list still
    has, or whose NIT is being read, are not `dangling`, so that no new object gets the
    address of one; without it the services of one could become those of another.
    `ExactInv`: whatever has a `tsid` has the services of the multiplex with it, from
    the tables of which they were read, and so has what is in the device already.
    `ServicesAreTrue` shows of one reading that the loops over PAT, PMT, SDT and
    descriptors, each of which takes the first or the last entry that fits, give what
    the tables say, if these keep to the standards (`Standard`) and are none of those
    that the parsers lose (`Odd`). That the loop over an SDT reads it to its end
    (`SdtReadsAll`) needs that the equation for the ends of its entries has a solution
    (`EndsEquation`).
  - `FileIsKept`. `FileInv`: each object on the heap has the parameters of its kind
    with values that their texts tell apart (`ObjectsWell`); what a frontend has found,
    and what it reads the tables of, is of its kind (`KindsKept`), which the
    `dynamic_cast` in `tune` sees to when a NIT names others; the device is made of such
    frontends, with the ids and names of the hardware (`DeviceIs`); and the file is what
    was written of it. By `DeviceIsKept` the server then has the same, except that
    a transponder has lost the orbital position, which is not written (its satellite's
    number is), and that a service without a name has got the one made for it.
  `ScanInv`, `HeldInv`, `ExactInv` and `FileInv` were checked with TLC on the instance of
  `dvb_scan` first.

Only model-checked:

* `SendersServed`, `Woken`, `StopEnds`, `ReadServed` and `ScanEnds`: liveness under
  fairness is out of the prover's reach, and so is ENABLED.
* `ScanComplete`: what is reached by a depth-first search that is interrupted, refused
  and returns to what it has left, is compared with a fixed point (`Reach`). It holds
  for airs whose NITs tell the truth about frequencies, positions and polarisation; to
  state this for every air is to describe a consistent air, which the worlds of the
  run do by example.
  What it excuses (`Above`, `Distinct`, `reused`, a second list) are hazards it does not
  catch: it says that they are all, on the airs of the run.
* `SatMapTrue`: a number is found by trying, and is right because of what else is on
  the air, and in which order the positions become known; the exceptions it names
  were found with TLC on such airs and are not known to be all there are.

## 6. Not modelled

* Wording, logging, the layout of the window; volume and seek (passed through, no
  effect on the state machine); seeking within an object of the media server.
* Text formats: the syntax of SQL and XML, bit fields and checksums of sections,
  character sets, the lengths of the buffers for queries and commands.
* The contents of pictures and samples and the comparison of their times;
  `resize_video` by the window's thread; the url of the 9P plugin.
* Cable and ATSC frontends (stubs in the code, tuned with parameters that are not
  set), the signal check, ioctls; the PAT and PMT the remultiplexer makes for a stream.
* Frontends and dvrs that cannot be opened for other reasons than the sharing; the
  descriptor that a failing `DMX_SET_PES_FILTER` leaves open (`Demux.cpp:162`); the
  descriptors SQLite uses for a moment, and that it avoids 0 to 2; running out of
  descriptors.
* Queries of the server that meet a lock of the scanner (`serve.c:291` then ends it,
  which `ServerLives` therefore does not say).
* `dvb/Mux.*` is not used by any program. `render_dummy.c` has no behaviour. The
  tuning tools and `resgen.cpp` are sequential I/O, the `Makefile` and `log.h` have
  no state.
