---------------------------- MODULE RenderFfmpeg ----------------------------
(***************************************************************************)
(* ommrender with the FFmpeg backend (render_ffmpeg.c): the decoder thread *)
(* reads commands, demuxes and decodes, and fills a picture and an audio   *)
(* queue; a presenter thread, one per loaded audio stream, empties them.   *)
(* The threads are preemptive (proccreate) and meet only in the channels,  *)
(* the pause flag and the pointers of the shared RendererCtx.              *)
(*                                                                         *)
(* A channel is named by the load that created it, so that a thread that   *)
(* still waits in a channel after rctx has moved on keeps waiting in that  *)
(* one. 0 is nil. What the operating system does with a nil or a freed     *)
(* channel is not modelled: the process stops there ("crashed").           *)
(***************************************************************************)
EXTENDS RenderCommands, Naturals, Sequences, FiniteSets

CONSTANTS
  CmdqSize,      \* MAX_COMMANDQ_SIZE
  PictqSize,     \* VIDEO_PICTURE_QUEUE_SIZE
  AudioqSize,    \* MAX_AUDIOQ_SIZE
  UserCommands,  \* the commands the 9P clients and the keyboard send
  StreamSets,    \* the sets of streams an input may have selected
  FirstStream,   \* which of them has stream index 0: "video", "audio", "other"
  DecodeErrors,  \* can avcodec_receive_frame fail
  LoadErrors,    \* can state_load fail
  AllocErrors,   \* can both allocations of alloc_buffers fail in one load
  MaxLoads,      \* bound on the loads of a behaviour
  MaxFrames      \* bound on the frames decoded per load

Streams == {"video", "audio"}

ASSUME FfmpegAssumption ==
  /\ {CmdqSize, PictqSize, AudioqSize, MaxLoads} \subseteq Nat \ {0}
  /\ MaxFrames \in Nat
  /\ UserCommands \subseteq CommandNames
  /\ StreamSets \subseteq SUBSET Streams \ {{}}
  /\ FirstStream \in Streams \cup {"other"}
  /\ {DecodeErrors, LoadErrors, AllocErrors} \subseteq BOOLEAN

Loads == 1 .. MaxLoads

VARIABLES
  rstate,   \* rctx->renderer_state
  cmdq,     \* rctx->cmdq
  userbox,  \* <<>>, or <<c>> while the 9P server is in send(cmdq) with c
  proc,     \* "up", "exited" or "crashed"
  load,     \* number of loads begun
  dpc,      \* where the decoder thread is
  codec,    \* rctx->current_codec_ctx
  left,     \* frames this load may still decode
  eof,      \* the demuxer has reached the end of the input
  drained,  \* the decoder of stream 0 was put into draining mode
  input,    \* the streams selected in the input that is loaded
  streams,  \* the streams whose codec context is not nil
  ready,    \* of format_ctx, decoder_packet and decoder_frame there is nothing
            \* to read with, all that reading a packet needs, or all
  ptr,      \* rctx->pictq, audioq and presq: the load that created them, or 0
  paused,   \* rctx->pause_presenter_thread
  queue,    \* the contents of the picture and the audio queue of each load
  freed,    \* the queues given to chanfree
  ppc,      \* where each presenter thread is
  inhand,   \* the picture in the presenter's hand, "none" if nextpic is set
  waits,    \* the load whose queue the presenter reads from
  late      \* history: samples each presenter played in IDLE, counted up to 2

ctlvars  == <<rstate, cmdq, userbox>>
decvars  == <<load, codec, left, eof, drained>>
ctxvars  == <<input, streams, ready, ptr, paused>>
presvars == <<ppc, inhand, waits, late>>
vars == <<ctlvars, proc, dpc, decvars, ctxvars, queue, freed, presvars>>

DecoderPcs ==
  {"dispatch", "l_audio", "l_presq", "run", "read", "recv", "send", "send_last",
   "eos_audio", "eof_wait", "eos_video", "stale", "u_eos_audio", "u_sendul", "u_stop", "u_free"}

PresenterPcs == {"off", "poll", "video", "picture", "audio", "stop", "show", "done"}

Readies == {"nothing", "packets", "all"}

Pictures == {"none", "frame", "eos"}

Live(p) == ppc[p] \notin {"off", "done"}

TypeOK ==
  /\ rstate \in States
  /\ cmdq \in Seq(CommandNames) /\ Len(cmdq) <= CmdqSize
  /\ userbox \in {<<>>} \cup {<<c>> : c \in UserCommands}
  /\ proc \in {"up", "exited", "crashed"}
  /\ load \in 0 .. MaxLoads
  /\ dpc \in DecoderPcs
  /\ codec \in Streams \cup {"none"}
  /\ left \in 0 .. MaxFrames
  /\ {eof, drained, paused} \subseteq BOOLEAN
  /\ ready \in Readies
  /\ input \subseteq Streams /\ streams \subseteq Streams
  /\ ptr \in [{"video", "audio", "pres"} -> 0 .. load]
  /\ queue \in [Loads -> [Streams -> Seq({"frame", "eos"})]]
  /\ \A k \in Loads : Len(queue[k]["video"]) <= PictqSize /\ Len(queue[k]["audio"]) <= AudioqSize
  /\ freed \subseteq Streams \X Loads
  /\ ppc \in [Loads -> PresenterPcs]
  /\ inhand \in [Loads -> Pictures]
  /\ waits \in [Loads -> Loads]
  /\ late \in [Loads -> 0 .. 2]

Init ==
  /\ rstate = "STOP" /\ cmdq = <<>> /\ userbox = <<>> /\ proc = "up"
  /\ load = 0 /\ dpc = "dispatch" /\ codec = "none" /\ left = 0
  /\ eof = FALSE /\ drained = FALSE /\ ready = "nothing" /\ paused = FALSE
  /\ input = {} /\ streams = {}
  /\ ptr = [x \in {"video", "audio", "pres"} |-> 0]
  /\ queue = [k \in Loads |-> [s \in Streams |-> <<>>]]
  /\ freed = {}
  /\ ppc = [k \in Loads |-> "off"]
  /\ inhand = [k \in Loads |-> "none"]
  /\ waits = [k \in Loads |-> k]
  /\ late = [k \in Loads |-> 0]

\* A nil or freed channel, or a nil context, is used.
Crash == proc' = "crashed" /\ UNCHANGED <<ctlvars, dpc, decvars, ctxvars, queue, freed, presvars>>

At(pc) == proc = "up" /\ dpc = pc

In(state) == At("dispatch") /\ rstate = state

-----------------------------------------------------------------------------
(* The users: 9P writes, served one at a time, and keys *)

Request ==
  /\ proc = "up" /\ userbox = <<>>
  /\ \E c \in UserCommands : userbox' = <<c>>
  /\ UNCHANGED <<rstate, cmdq, proc, dpc, decvars, ctxvars, queue, freed, presvars>>

\* Mutant: the command queue takes more than its capacity.
AcceptBug ==
  /\ proc = "up" /\ userbox # <<>>
  /\ cmdq' = Append(cmdq, userbox[1])
  /\ userbox' = <<>>
  /\ UNCHANGED <<rstate, proc, dpc, decvars, ctxvars, queue, freed, presvars>>

Accept ==
  /\ proc = "up" /\ userbox # <<>> /\ Len(cmdq) < CmdqSize
  /\ cmdq' = Append(cmdq, userbox[1])
  /\ userbox' = <<>>
  /\ UNCHANGED <<rstate, proc, dpc, decvars, ctxvars, queue, freed, presvars>>

-----------------------------------------------------------------------------
(* The decoder thread *)

\* read_cmd with a command in the queue: on KEEP_STATE the decoder goes on at
\* keep, on CHANGE_STATE the state function returns to the dispatcher.
ReadCmd(keep) ==
  /\ cmdq # <<>>
  /\ cmdq' = Tail(cmdq)
  /\ rstate' = Transition(Head(cmdq), rstate)
  /\ dpc' = IF rstate' = rstate THEN keep ELSE "dispatch"
  /\ UNCHANGED <<userbox, proc, decvars, ctxvars, queue, freed, presvars>>

\* state_stop and state_idle.
AwaitCommand ==
  /\ In("STOP") \/ In("IDLE")
  /\ ReadCmd("dispatch")

\* The codec context and the picture queue of a video stream.
OpenVideo(new) ==
  /\ streams' = streams \cup (new \cap {"video"})
  /\ ptr' = IF "video" \in new THEN [ptr EXCEPT !["video"] = load'] ELSE ptr

\* alloc_buffers and the last transition of state_load. A failed allocation
\* takes the error transition, and then the straight one is taken from where
\* that has led: after one of them to RUN, after two of them to STOP.
AllocBuffers ==
  \/ ready' = "all" /\ rstate' = Transition("NONE", "LOAD")
  \/ /\ LoadErrors
     /\ ready' \in {"nothing", "packets"}
     /\ rstate' = Transition("NONE", Transition("ERR", "LOAD"))
  \/ /\ AllocErrors
     /\ ready' = "nothing"
     /\ rstate' = Transition("NONE", Transition("ERR", Transition("ERR", "LOAD")))

\* state_load up to the video component. A failure, at any call, takes the
\* error transition, which also leads to RUN.
LoadOpen ==
  /\ In("LOAD") /\ load < MaxLoads
  /\ load' = load + 1
  /\ \/ \E new \in StreamSets :
          /\ OpenVideo(new)
          /\ input' = new
          /\ left' = MaxFrames /\ eof' = FALSE /\ drained' = FALSE
          /\ IF "audio" \in new
               THEN dpc' = "l_audio" /\ UNCHANGED <<ready, rstate>>
               ELSE AllocBuffers /\ UNCHANGED dpc
     \/ /\ LoadErrors
        /\ \E opened \in {{}, {"video"}} : OpenVideo(opened)
        /\ rstate' = Transition("ERR", "LOAD")
        /\ UNCHANGED <<dpc, input, left, eof, drained, ready>>
  /\ UNCHANGED <<cmdq, userbox, proc, codec, paused, queue, freed, presvars>>

\* open_stream_component, audio: the queue, then the presenter thread ...
StartPresenter ==
  /\ At("l_audio")
  /\ streams' = streams \cup {"audio"}
  /\ ptr' = [ptr EXCEPT !["audio"] = load]
  /\ ppc' = [ppc EXCEPT ![load] = "poll"]
  /\ dpc' = "l_presq"
  /\ UNCHANGED <<ctlvars, proc, decvars, input, ready, paused, queue, freed, inhand, waits, late>>

\* ... and only then the channel that stops it, the audio device and the
\* buffers. If the device fails the presenter stays.
CreatePresq ==
  /\ At("l_presq")
  /\ ptr' = [ptr EXCEPT !["pres"] = load]
  /\ dpc' = "dispatch"
  /\ \/ AllocBuffers
     \/ LoadErrors /\ UNCHANGED ready /\ rstate' = Transition("ERR", "LOAD")
  /\ UNCHANGED <<cmdq, userbox, proc, decvars, input, streams, paused, queue, freed, presvars>>

\* state_run: one turn of the loop begins with read_cmd(POLL).
RunPoll ==
  /\ At("run") \/ In("RUN")
  /\ \/ ReadCmd("read")
     \/ /\ cmdq = <<>>
        /\ dpc' = "read"
        /\ UNCHANGED <<ctlvars, proc, decvars, ctxvars, queue, freed, presvars>>

\* read_packet and write_packet_to_decoder: a packet of a selected stream, or
\* the end of the input. (A packet of another stream only begins a new turn.)
RunRead ==
  /\ At("read")
  /\ \/ ready = "nothing" /\ Crash
     \/ /\ ready # "nothing" /\ ~eof
        /\ codec' \in input
        /\ dpc' = "recv"
        /\ UNCHANGED <<ctlvars, proc, load, left, eof, drained, ctxvars, queue, freed, presvars>>
     \/ /\ ready # "nothing"
        /\ eof' = TRUE
        /\ dpc' = "eos_video"
        /\ UNCHANGED <<ctlvars, proc, load, codec, left, drained, ctxvars, queue, freed, presvars>>

\* read_frame_from_decoder: into a frame that is there. A drained decoder ends
\* with AVERROR_EOF, never with EAGAIN. After an error the loop still queues a
\* picture, but no sample.
RecvNoFrame == At("recv") /\ ready # "all" /\ Crash

RecvFrame ==
  /\ At("recv") /\ ready = "all"
  /\ \/ /\ left > 0
        /\ left' = left - 1 /\ dpc' = "send"
        /\ UNCHANGED rstate
     \/ /\ ~drained
        /\ dpc' = "run"
        /\ UNCHANGED <<left, rstate>>
     \/ /\ DecodeErrors \/ drained
        /\ rstate' = Transition("ERR", rstate)
        /\ dpc' = IF codec = "video" THEN "send_last" ELSE "run"
        /\ UNCHANGED left
  /\ UNCHANGED <<cmdq, userbox, proc, load, codec, eof, drained, ctxvars, queue, freed, presvars>>

Capacity(s) == IF s = "video" THEN PictqSize ELSE AudioqSize

\* send_picture_to_queue and send_sample_to_queue block while the queue is full.
Put(s, item) ==
  /\ Len(queue[ptr[s]][s]) < Capacity(s)
  /\ queue' = [queue EXCEPT ![ptr[s]][s] = Append(@, item)]

SendFrame ==
  /\ At("send") \/ At("send_last")
  /\ Put(codec, "frame")
  /\ dpc' = IF dpc = "send" THEN "recv" ELSE "run"
  /\ UNCHANGED <<ctlvars, proc, decvars, ctxvars, freed, presvars>>

\* send_eos_frames, for one stream; a stream without a context is skipped.
SendEos(s, to) ==
  /\ IF s \in streams THEN Put(s, "eos") ELSE UNCHANGED queue
  /\ dpc' = to
  /\ UNCHANGED <<ctlvars, proc, decvars, ctxvars, freed, presvars>>

\* Mutant: the decoder goes on to squeeze out frames after it has announced the
\* end of the stream.
EofEosBug ==
  \/ At("eos_video") /\ SendEos("video", "eos_audio")
  \/ At("eos_audio") /\ SendEos("audio", IF codec = "audio" THEN "recv" ELSE "eof_wait")

EofEos ==
  \/ At("eos_video") /\ SendEos("video", "eos_audio")
  \/ At("eos_audio") /\ SendEos("audio", "eof_wait")

\* Mutant: the command that ends the wait is taken and not obeyed.
EofWaitBug ==
  /\ At("eof_wait") /\ cmdq # <<>>
  /\ cmdq' = Tail(cmdq)
  /\ dpc' = "stale"
  /\ UNCHANGED <<rstate, userbox, proc, decvars, ctxvars, queue, freed, presvars>>

\* After the end of the input: read_cmd(BLOCK), then on KEEP_STATE the loop
\* body goes on with the packet that was not read.
EofWait == At("eof_wait") /\ ReadCmd("stale")

\* The blank packet has stream index 0. If that stream is selected, its decoder
\* takes the packet as the order to drain, and the second one as an error.
WriteStale ==
  /\ At("stale")
  /\ IF FirstStream \in input /\ ~drained
       THEN drained' = TRUE /\ codec' = FirstStream /\ dpc' = "recv"
       ELSE dpc' = "run" /\ UNCHANGED <<drained, codec>>
  /\ UNCHANGED <<ctlvars, proc, load, left, eof, ctxvars, queue, freed, presvars>>

\* state_unload: end-of-stream items for both queues ...
UnloadEos ==
  \/ In("UNLOAD") /\ SendEos("video", "u_eos_audio")
  \/ At("u_eos_audio") /\ SendEos("audio", "u_sendul")

\* Mutant: the stop is not waited for (nbsendul instead of sendul).
UnloadSendulBug ==
  /\ At("u_sendul")
  /\ IF ptr["pres"] = 0
       THEN Crash
       ELSE /\ dpc' = "u_free"
            /\ UNCHANGED <<ctlvars, proc, decvars, ctxvars, queue, freed, presvars>>

\* ... then sendul(presq, 1), a rendezvous: from here on, and not before, the
\* decoder is in the channel, where the presenter may find it (see Poll) ...
UnloadSendul ==
  /\ At("u_sendul")
  /\ IF ptr["pres"] = 0
       THEN Crash
       ELSE /\ dpc' = "u_stop"
            /\ UNCHANGED <<ctlvars, proc, decvars, ctxvars, queue, freed, presvars>>

Held == {<<s, ptr[s]>> : s \in {t \in Streams : ptr[t] # 0}}

\* What freeing the contexts, the buffers and the queues leaves behind.
Release ==
  /\ freed' = freed \cup Held
  /\ queue' = [k \in Loads |-> [s \in Streams |-> IF <<s, k>> \in Held THEN <<>> ELSE queue[k][s]]]
  /\ input' = {} /\ streams' = {} /\ ready' = "nothing" /\ paused' = FALSE
  /\ codec' = "none" /\ left' = 0 /\ eof' = FALSE /\ drained' = FALSE
  /\ rstate' = Transition("NONE", rstate)
  /\ dpc' = "dispatch"
  /\ UNCHANGED <<cmdq, userbox, proc, load, presvars>>

\* Mutant: the pointers of the freed channels are kept.
UnloadFreeBug == At("u_free") /\ ready # "nothing" /\ Release /\ UNCHANGED ptr

\* ... then everything is freed and rctx is reset. The packet is unreferenced
\* whether it was allocated or not, and a load that failed left it nil.
UnloadNoPacket == At("u_free") /\ ready = "nothing" /\ Crash

UnloadFree ==
  /\ At("u_free") /\ ready # "nothing"
  /\ Release
  /\ ptr' = [x \in DOMAIN ptr |-> 0]

\* Mutant: state_disengage pauses the audio device and not the presenter.
ToggleBug ==
  /\ In("ENGAGE") \/ In("DISENG")
  /\ late' = [p \in Loads |-> 0]
  /\ rstate' = Transition("NONE", rstate)
  /\ UNCHANGED <<paused, cmdq, userbox, proc, dpc, decvars, input, streams, ready, ptr, queue, freed, ppc, inhand, waits>>

\* state_engage and state_disengage.
Toggle ==
  /\ In("ENGAGE") \/ In("DISENG")
  /\ paused' = (rstate = "DISENG")
  /\ late' = [p \in Loads |-> 0]
  /\ rstate' = Transition("NONE", rstate)
  /\ UNCHANGED <<cmdq, userbox, proc, dpc, decvars, input, streams, ready, ptr, queue, freed, ppc, inhand, waits>>

\* state_exit ends every thread.
Exit ==
  /\ In("EXIT")
  /\ proc' = "exited"
  /\ UNCHANGED <<ctlvars, dpc, decvars, ctxvars, queue, freed, presvars>>

Decoder ==
  \/ AwaitCommand \/ LoadOpen \/ StartPresenter \/ CreatePresq
  \/ RunPoll \/ RunRead \/ RecvNoFrame \/ RecvFrame \/ SendFrame \/ EofEos \/ EofWait \/ WriteStale
  \/ UnloadEos \/ UnloadSendul \/ UnloadNoPacket \/ UnloadFree \/ Toggle \/ Exit

-----------------------------------------------------------------------------
(* The presenter threads, p the load that started the thread *)

\* recv() from a channel of rctx: the thread now waits in that very channel.
WaitIn(p, s) ==
  IF ptr[s] = 0
    THEN Crash
    ELSE /\ ppc' = [ppc EXCEPT ![p] = s]
         /\ waits' = [waits EXCEPT ![p] = ptr[s]]
         /\ UNCHANGED <<ctlvars, proc, dpc, decvars, ctxvars, queue, freed, late>>

Wants(p) == IF inhand[p] = "none" /\ "video" \in streams THEN "video" ELSE "audio"

\* The top of the loop. nbrecvul takes the stop only if the decoder is in
\* sendul() at this moment, and then the thread ends with its local variables;
\* a paused thread sleeps and polls again.
Poll(p) ==
  /\ proc = "up" /\ ppc[p] = "poll"
  /\ \/ ptr["pres"] = 0 /\ Crash
     \/ /\ ptr["pres"] # 0 /\ dpc = "u_stop"
        /\ ppc' = [ppc EXCEPT ![p] = "done"]
        /\ dpc' = "u_free"
        /\ inhand' = [inhand EXCEPT ![p] = "none"]
        /\ waits' = [waits EXCEPT ![p] = p]
        /\ late' = [late EXCEPT ![p] = 0]
        /\ UNCHANGED <<ctlvars, proc, decvars, ctxvars, queue, freed>>
     \/ /\ ptr["pres"] # 0 /\ dpc # "u_stop" /\ ~paused
        /\ WaitIn(p, Wants(p)) /\ UNCHANGED inhand

TakePicture(p) ==
  /\ proc = "up" /\ ppc[p] = "video"
  /\ IF <<"video", waits[p]>> \in freed
       THEN Crash
       ELSE /\ queue[waits[p]]["video"] # <<>>
            /\ queue' = [queue EXCEPT ![waits[p]]["video"] = Tail(@)]
            /\ inhand' = [inhand EXCEPT ![p] = Head(queue[waits[p]]["video"])]
            /\ ppc' = [ppc EXCEPT ![p] = "picture"]
            /\ UNCHANGED <<ctlvars, proc, dpc, decvars, ctxvars, freed, waits, late>>

\* With a picture in hand, the thread turns to the audio queue.
WaitSample(p) ==
  /\ proc = "up" /\ ppc[p] = "picture"
  /\ WaitIn(p, "audio") /\ UNCHANGED inhand

TakeSample(p) ==
  /\ proc = "up" /\ ppc[p] = "audio"
  /\ IF <<"audio", waits[p]>> \in freed
       THEN Crash
       ELSE LET samples == queue[waits[p]]["audio"]
                eos     == Head(samples) = "eos"
            IN  /\ samples # <<>>
                /\ queue' = [queue EXCEPT ![waits[p]]["audio"] = Tail(@)]
                /\ ppc' = [ppc EXCEPT ![p] = IF eos THEN "stop" ELSE "show"]
                /\ late' = IF rstate = "IDLE" /\ ~eos /\ late[p] < 2
                             THEN [late EXCEPT ![p] = @ + 1] ELSE late
                /\ UNCHANGED <<ctlvars, proc, dpc, decvars, ctxvars, freed, inhand, waits>>

\* The end of the stream: the presenter tells the decoder to stop.
SendStop(p) ==
  /\ proc = "up" /\ ppc[p] = "stop" /\ Len(cmdq) < CmdqSize
  /\ cmdq' = Append(cmdq, "STOP")
  /\ ppc' = [ppc EXCEPT ![p] = "poll"]
  /\ UNCHANGED <<rstate, userbox, proc, dpc, decvars, ctxvars, queue, freed, inhand, waits, late>>

\* A sample is played; its picture is shown if the two times agree, and then
\* the next picture is wanted. An eos picture has the time 0 and every sample a
\* later time than its own duration, so that the two never agree.
Show(p) ==
  /\ proc = "up" /\ ppc[p] = "show"
  /\ IF "audio" \notin streams
       THEN Crash
       ELSE /\ ppc' = [ppc EXCEPT ![p] = "poll"]
            /\ \/ UNCHANGED inhand
               \/ /\ "video" \in streams /\ inhand[p] = "frame"
                  /\ inhand' = [inhand EXCEPT ![p] = "none"]
            /\ UNCHANGED <<ctlvars, proc, dpc, decvars, ctxvars, queue, freed, waits, late>>

Presenter(p) ==
  Poll(p) \/ TakePicture(p) \/ WaitSample(p) \/ TakeSample(p) \/ SendStop(p) \/ Show(p)

Next == Request \/ Accept \/ Decoder \/ (\E p \in Loads : Presenter(p))

Spec == Init /\ [][Next]_vars

-----------------------------------------------------------------------------
(* Properties *)

\* A playback never meets the presenter of an earlier one: two of them would
\* share the queues and the stop channel.
OnePresenter == Cardinality({p \in Loads : Live(p)}) <= 1

\* state_unload frees the queues under nobody: no presenter waits in, or is
\* about to return to, a queue that was given to chanfree.
NoFreedQueue ==
  \A p \in Loads : ppc[p] \in Streams => <<ppc[p], waits[p]>> \notin freed

\* In IDLE a presenter plays at most the one sample it was already waiting for:
\* the pause flag is seen at its next turn.
PauseHolds == \A p \in Loads : late[p] <= 1

\* The presenter asks for STOP only when every sample before the end of the
\* stream was played: nothing decoded is left in the audio queue.
EosAfterAll ==
  \A p \in Loads :
    ppc[p] = "stop" => \A i \in DOMAIN queue[waits[p]]["audio"] :
                          queue[waits[p]]["audio"][i] # "frame"

\* In every state that state_unload has left, the buffers of the playback are
\* empty or freed and its presenter has ended.
StoppedClean ==
  rstate = "STOP" => /\ \A p \in Loads : ~Live(p)
                     /\ ptr = [x \in DOMAIN ptr |-> 0]

\* render_ffmpeg.c:1165 "Send flush frames to the queues to avoid blocking in
\* recv() in the presenter thread": when the decoder waits for the presenter to
\* take its stop, the presenter is not waiting for the decoder.
UnloadUnblocks ==
  ~ (proc = "up" /\ dpc = "u_stop"
       /\ \E p \in Loads : ppc[p] \in Streams /\ queue[waits[p]][ppc[p]] = <<>>)

\* render.c:277 "Commands in states LOAD, UNLOAD, ENGAGE, DISENG are ignored
\* because read_cmd() is not called".
ReadsInReadingStates ==
  [][cmdq # <<>> /\ cmdq' = Tail(cmdq) => rstate \in ReadingStates]_vars

\* The state of the control core that this state stands for.
ControlCommand(c) == [cmd |-> c, arg |-> "nil", literal |-> FALSE, named |-> "nil"]

ControlQueue == [i \in DOMAIN cmdq |-> ControlCommand(cmdq[i])]

ControlOutbox ==
  [s \in {"server", "window", "presenter"} |->
     CASE s = "server"    -> [i \in DOMAIN userbox |-> ControlCommand(userbox[i])]
       [] s = "window"    -> <<>>
       [] s = "presenter" -> IF \E p \in Loads : ppc[p] = "stop"
                               THEN <<ControlCommand("STOP")>> ELSE <<>>]

\* Without decoding errors, the backend is one of those the control core
\* describes: every command is taken in the order of its arrival, leads where
\* the table says, and a stream is loaded and released as NothingLoaded demands.
\* A decoder that hangs in state_unload, or a process that uses a nil channel,
\* stutters.
RC == INSTANCE RenderControl WITH
        Urls       <- {},
        NoUrl      <- "nil",
        Words      <- {"put", "play", "pause", "stop", "quit", "seek", "vol", "err", "none"},
        Presenters <- {"presenter"},
        url        <- "nil",
        named      <- "nil",
        cmdq       <- ControlQueue,
        outbox     <- ControlOutbox,
        media      <- IF ready = "nothing" THEN <<>> ELSE <<"nil">>,
        proc       <- IF proc = "exited" THEN "exited" ELSE "up"

ImplementsControl == RC!Spec

=============================================================================
