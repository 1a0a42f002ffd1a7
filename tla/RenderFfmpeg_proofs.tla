------------------------- MODULE RenderFfmpeg_proofs -------------------------
(***************************************************************************)
(* Proofs about RenderFfmpeg, for every capacity of the three queues,      *)
(* every set of commands and inputs, every bound on loads and frames.      *)
(***************************************************************************)
EXTENDS RenderFfmpeg, RenderCommands_proofs, FiniteSetTheorems, SequenceTheorems, TLAPS

\* The parts of state_load, state_unload and state_run.
LoadPcs   == {"l_audio", "l_presq"}
UnloadPcs == {"u_eos_audio", "u_sendul", "u_stop", "u_free"}
RunPcs    == {"run", "read", "recv", "send", "send_last",
              "eos_audio", "eof_wait", "eos_video", "stale"}

\* Where the decoder can be in which state of the renderer, and what it has at
\* hand there: a context has a queue, and a frame comes from an open context.
\* An error in RUN leaves the decoder in its loop while the state moves on.
Places ==
  /\ dpc \in LoadPcs => rstate = "LOAD" /\ load # 0
  /\ dpc = "l_presq" => ptr["audio"] = load
  /\ dpc \in RunPcs => rstate \in {"RUN", "UNLOAD", "STOP"}
  /\ dpc \in UnloadPcs => rstate = "UNLOAD"
  /\ \A s \in streams : ptr[s] # 0
  /\ input \subseteq streams \cup {"audio"}
  /\ dpc # "l_audio" => input \subseteq streams
  /\ dpc \in {"recv", "send", "send_last"} => codec \in streams

TypeInv == TypeOK /\ Places

\* In IDLE the pause flag is up, and a presenter that has played its one sample
\* is past the queues: it polls, sees the flag and does not get back to them.
Held1(p) == late[p] = 0 \/ (late[p] = 1 /\ ppc[p] \notin {"video", "picture", "audio"})

PauseInv ==
  /\ PauseHolds
  /\ rstate = "IDLE" => paused /\ dpc = "dispatch" /\ \A p \in Loads : Held1(p)

\* state_run has not met a decoding error: its loop is only left by a command.
\* (An error moves the state on and the loop goes round in a state not its own.)
LoopInRun == dpc \in RunPcs => rstate = "RUN"

\* No decoder fails: avcodec_receive_frame never returns an error, and stream 0
\* is not selected, so that the stale packet cannot put its decoder into
\* draining mode. Nor does memory run out twice in one load.
CleanRuns == ~DecodeErrors /\ ~AllocErrors /\ \A new \in StreamSets : FirstStream \notin new

NoPointers == \A x \in {"video", "audio", "pres"} : ptr[x] = 0

\* A presenter belongs to the last load and waits in its queues, which are open,
\* and nothing is open where nothing is loaded.
AloneInv ==
  /\ \A p \in Loads : Live(p) =>
       /\ p = load /\ waits[p] = load /\ ptr["audio"] = load
       /\ rstate \notin {"STOP", "EXIT"} /\ (rstate = "LOAD" => dpc = "l_presq")
       /\ dpc # "u_free"
  /\ \A p \in Loads : ~Live(p) => waits[p] = p
  /\ rstate \in {"STOP", "LOAD", "EXIT"} => ready = "nothing" /\ (dpc \notin LoadPcs => NoPointers)
  /\ \A x \in {"video", "audio", "pres"} : ptr[x] \in {0, load}
  /\ \A s \in Streams, k \in Loads :
       <<s, k>> \in freed => k <= load /\ (k = load => NoPointers /\ dpc \notin LoadPcs)

-----------------------------------------------------------------------------
(* Lemmas about the steps *)

\* Reading a command in a reading state, or while the loop goes on after an
\* error, leads to a state, and takes one command from the queue.
LEMMA ReadCmdStep ==
  ASSUME TypeOK, NEW keep \in DecoderPcs, ReadCmd(keep),
         rstate \in ReadingStates \cup {"UNLOAD"}
  PROVE  /\ cmdq' \in Seq(CommandNames) /\ Len(cmdq') <= CmdqSize
         /\ rstate' \in States
         /\ rstate = "STOP" => rstate' \in {"STOP", "LOAD", "EXIT"}
         /\ rstate = "RUN"  => rstate' \in {"RUN", "UNLOAD", "DISENG"}
         /\ rstate = "IDLE" => rstate' \in {"IDLE", "UNLOAD", "ENGAGE"}
         /\ rstate = "UNLOAD" => rstate' = "STOP"
         /\ (rstate' = rstate /\ dpc' = keep) \/ dpc' = "dispatch"
<1>1. cmdq \in Seq(CommandNames) /\ cmdq # <<>> /\ cmdq' = Tail(cmdq)
  BY DEF TypeOK, ReadCmd
<1>2. Head(cmdq) \in CommandNames
  BY <1>1
<1>3. cmdq' \in Seq(CommandNames) /\ Len(cmdq') <= CmdqSize
  BY <1>1, FfmpegAssumption DEF TypeOK
<1>4. rstate' = Transition(Head(cmdq), rstate)
  BY DEF ReadCmd
<1>5. {"STOP", "RUN", "IDLE", "LOAD", "UNLOAD", "ENGAGE", "DISENG", "EXIT"} = States
  BY StraightDomain DEF States, ReadingStates
<1>6. (rstate' = rstate /\ dpc' = keep) \/ dpc' = "dispatch"
  BY DEF ReadCmd
<1> HIDE DEF ReadCmd
<1> QED
  BY <1>2, <1>3, <1>4, <1>5, <1>6, TransitionRanges, TransitionStraight DEF ReadingStates

\* Putting an item into a queue that rctx has a pointer to.
LEMMA PutStep ==
  ASSUME TypeOK, NEW s \in Streams, ptr[s] # 0, NEW item \in {"frame", "eos"}, Put(s, item)
  PROVE  /\ ptr[s] \in Loads
         /\ queue' \in [Loads -> [Streams -> Seq({"frame", "eos"})]]
         /\ \A k \in Loads : Len(queue'[k]["video"]) <= PictqSize /\ Len(queue'[k]["audio"]) <= AudioqSize
         /\ \A k \in Loads, t \in Streams :
              queue'[k][t] = IF k = ptr[s] /\ t = s THEN Append(queue[k][t], item) ELSE queue[k][t]
<1> DEFINE m == ptr[s]
<1>1. m \in Loads
  BY FfmpegAssumption DEF TypeOK, Streams, Loads
<1>2. /\ queue \in [Loads -> [Streams -> Seq({"frame", "eos"})]]
      /\ queue' = [queue EXCEPT ![m][s] = Append(@, item)]
      /\ Len(queue[m][s]) < Capacity(s)
  BY DEF TypeOK, Put
<1> HIDE DEF m
<1>3. \A k \in Loads, t \in Streams :
         queue'[k][t] = IF k = m /\ t = s THEN Append(queue[k][t], item) ELSE queue[k][t]
  BY <1>1, <1>2
<1>4. \A k \in Loads, t \in Streams : queue'[k][t] \in Seq({"frame", "eos"})
  BY <1>2, <1>3
<1>5. queue' \in [Loads -> [Streams -> Seq({"frame", "eos"})]]
  <2>1. \A k \in Loads : queue'[k] \in [Streams -> Seq({"frame", "eos"})]
    BY <1>1, <1>2
  <2> QED
    BY <1>1, <1>2, <2>1
<1>6. Len(Append(queue[m][s], item)) = Len(queue[m][s]) + 1 /\ Len(queue[m][s]) \in Nat
  BY <1>1, <1>2
<1>7. Len(Append(queue[m][s], item)) <= Capacity(s)
  BY <1>2, <1>6, FfmpegAssumption DEF Capacity
<1>8. \A k \in Loads : Len(queue'[k]["video"]) <= PictqSize /\ Len(queue'[k]["audio"]) <= AudioqSize
  <2> SUFFICES ASSUME NEW k \in Loads
               PROVE  Len(queue'[k]["video"]) <= PictqSize /\ Len(queue'[k]["audio"]) <= AudioqSize
    OBVIOUS
  <2>1. Len(queue[k]["video"]) <= PictqSize /\ Len(queue[k]["audio"]) <= AudioqSize
    BY DEF TypeOK
  <2> QED
    BY <1>3, <1>7, <2>1 DEF Capacity, Streams
<1> QED
  BY <1>1, <1>3, <1>5, <1>8 DEF m

\* Taking the first item of a queue.
LEMMA TakeStep ==
  ASSUME TypeOK, NEW m \in Loads, NEW s \in Streams, queue[m][s] # <<>>,
         queue' = [queue EXCEPT ![m][s] = Tail(@)]
  PROVE  /\ queue' \in [Loads -> [Streams -> Seq({"frame", "eos"})]]
         /\ \A k \in Loads : Len(queue'[k]["video"]) <= PictqSize /\ Len(queue'[k]["audio"]) <= AudioqSize
         /\ \A k \in Loads, t \in Streams :
              queue'[k][t] = IF k = m /\ t = s THEN Tail(queue[k][t]) ELSE queue[k][t]
<1>1. queue \in [Loads -> [Streams -> Seq({"frame", "eos"})]]
  BY DEF TypeOK
<1>2. \A k \in Loads, t \in Streams :
        queue'[k][t] = IF k = m /\ t = s THEN Tail(queue[k][t]) ELSE queue[k][t]
  BY <1>1
<1>3. Tail(queue[m][s]) \in Seq({"frame", "eos"}) /\ Len(Tail(queue[m][s])) <= Len(queue[m][s])
  BY <1>1
<1>4. queue' \in [Loads -> [Streams -> Seq({"frame", "eos"})]]
  <2>1. [queue[m] EXCEPT ![s] = Tail(@)] \in [Streams -> Seq({"frame", "eos"})]
    BY <1>1, <1>3
  <2> QED
    BY <1>1, <2>1
<1>5. \A k \in Loads : Len(queue'[k]["video"]) <= PictqSize /\ Len(queue'[k]["audio"]) <= AudioqSize
  <2> SUFFICES ASSUME NEW k \in Loads
               PROVE  Len(queue'[k]["video"]) <= PictqSize /\ Len(queue'[k]["audio"]) <= AudioqSize
    OBVIOUS
  <2>1. Len(queue[k]["video"]) <= PictqSize /\ Len(queue[k]["audio"]) <= AudioqSize
    BY DEF TypeOK
  <2>2. /\ Len(queue[k]["video"]) \in Nat /\ Len(queue[k]["audio"]) \in Nat
        /\ Len(Tail(queue[m][s])) \in Nat /\ PictqSize \in Nat /\ AudioqSize \in Nat
    BY <1>1, <1>3, FfmpegAssumption DEF Streams
  <2> QED
    BY <1>2, <1>3, <2>1, <2>2 DEF Streams
<1> QED
  BY <1>2, <1>4, <1>5

-----------------------------------------------------------------------------
(* Type correctness *)

LEMMA UsersType ==
  ASSUME TypeInv, Request \/ Accept
  PROVE  TypeInv'
<1>1. CASE Request
  BY <1>1 DEF TypeInv, TypeOK, Places, Request, ctxvars, decvars, presvars
<1>2. CASE Accept
  <2>1. userbox[1] \in CommandNames
    BY <1>2, FfmpegAssumption DEF Accept, TypeInv, TypeOK
  <2>2. cmdq' \in Seq(CommandNames) /\ Len(cmdq') = Len(cmdq) + 1 /\ Len(cmdq) \in Nat
    BY <1>2, <2>1 DEF Accept, TypeInv, TypeOK
  <2>3. Len(cmdq') <= CmdqSize
    BY <1>2, <2>2, FfmpegAssumption DEF Accept
  <2> QED
    BY <1>2, <2>2, <2>3 DEF TypeInv, TypeOK, Places, Accept, ctxvars, decvars, presvars
<1> QED
  BY <1>1, <1>2

LEMMA ReadCmdType ==
  ASSUME TypeInv, NEW keep \in {"dispatch", "read", "stale"}, ReadCmd(keep),
         rstate \in ReadingStates \cup {"UNLOAD"},
         keep = "dispatch" \/ rstate \in {"RUN", "UNLOAD", "STOP"},
         dpc \notin LoadPcs
  PROVE  TypeInv'
<1>1. keep \in DecoderPcs
  BY DEF DecoderPcs
<1>2. /\ cmdq' \in Seq(CommandNames) /\ Len(cmdq') <= CmdqSize
      /\ rstate' \in States
      /\ (rstate' = rstate /\ dpc' = keep) \/ dpc' = "dispatch"
  BY <1>1, ReadCmdStep DEF TypeInv
<1>3. "dispatch" \in DecoderPcs
  BY DEF DecoderPcs
<1>4. TypeOK'
  BY <1>1, <1>2, <1>3 DEF TypeInv, TypeOK, ReadCmd, ctxvars, decvars, presvars
<1>5. UNCHANGED <<load, ptr, streams, input, codec>>
  BY DEF ReadCmd, ctxvars, decvars
<1>6. Places'
  BY <1>2, <1>5 DEF TypeInv, Places, LoadPcs, RunPcs, UnloadPcs
<1> QED
  BY <1>4, <1>6 DEF TypeInv

LEMMA ReadersType ==
  ASSUME TypeInv, AwaitCommand \/ RunPoll \/ EofWait
  PROVE  TypeInv'
<1>1. CASE AwaitCommand
  <2>1. rstate \in {"STOP", "IDLE"} /\ dpc = "dispatch" /\ ReadCmd("dispatch")
    BY <1>1 DEF AwaitCommand, In, At
  <2> QED
    BY <2>1, ReadCmdType DEF ReadingStates, LoadPcs
<1>2. CASE RunPoll
  <2>1. dpc \in {"run", "dispatch"} /\ rstate \in {"RUN", "UNLOAD", "STOP"}
    BY <1>2 DEF RunPoll, In, At, TypeInv, Places, RunPcs
  <2>2. CASE ReadCmd("read")
    BY <2>1, <2>2, ReadCmdType DEF ReadingStates, LoadPcs
  <2>3. CASE cmdq = <<>> /\ dpc' = "read"
              /\ UNCHANGED <<ctlvars, proc, decvars, ctxvars, queue, freed, presvars>>
    <3>1. TypeOK'
      BY <2>3 DEF TypeInv, TypeOK, DecoderPcs, ctlvars, decvars, ctxvars, presvars
    <3>2. Places'
      BY <2>1, <2>3 DEF TypeInv, Places, LoadPcs, RunPcs, UnloadPcs, ctlvars, decvars, ctxvars
    <3> QED
      BY <3>1, <3>2 DEF TypeInv
  <2> QED
    BY <1>2, <2>2, <2>3 DEF RunPoll
<1>3. CASE EofWait
  <2>1. dpc = "eof_wait" /\ ReadCmd("stale") /\ rstate \in {"RUN", "UNLOAD", "STOP"}
    BY <1>3 DEF EofWait, At, TypeInv, Places, RunPcs
  <2> QED
    BY <2>1, ReadCmdType DEF ReadingStates, LoadPcs
<1> QED
  BY <1>1, <1>2, <1>3

LEMMA OpenVideoType ==
  ASSUME TypeInv, NEW new \in SUBSET Streams, OpenVideo(new), load' = load + 1, load < MaxLoads
  PROVE  /\ streams' = streams \cup (new \cap {"video"}) /\ streams' \subseteq Streams
         /\ ptr' \in [{"video", "audio", "pres"} -> 0 .. load']
         /\ load' \in 0 .. MaxLoads /\ load' # 0
         /\ \A s \in streams' : ptr'[s] # 0
         /\ ptr'["video"] = IF "video" \in new THEN load' ELSE ptr["video"]
         /\ ptr'["audio"] = ptr["audio"] /\ ptr'["pres"] = ptr["pres"]
<1>1. load \in Nat /\ MaxLoads \in Nat /\ load' \in 0 .. MaxLoads /\ load' # 0 /\ load < load'
  BY FfmpegAssumption DEF TypeInv, TypeOK
<1>2. ptr \in [{"video", "audio", "pres"} -> 0 .. load]
  BY DEF TypeInv, TypeOK
<1>3. ptr' \in [{"video", "audio", "pres"} -> 0 .. load']
  BY <1>1, <1>2 DEF OpenVideo
<1> QED
  BY <1>1, <1>2, <1>3 DEF OpenVideo, TypeInv, TypeOK, Places, Streams

\* alloc_buffers leads to RUN, or to STOP if both of its allocations fail.
LEMMA AllocStep ==
  ASSUME AllocBuffers
  PROVE  /\ ready' \in Readies
         /\ rstate' \in {"RUN", "STOP"}
         /\ ~AllocErrors => rstate' = "RUN"
<1>1. Transition("NONE", "LOAD") = "RUN" /\ Transition("ERR", "LOAD") = "RUN"
  BY TransitionStraight
<1>2. Transition("NONE", "RUN") = "RUN" /\ Transition("ERR", "RUN") = "UNLOAD"
  BY DEF Transition, ReadingStates, Row, KeepRow, ErrRow
<1>3. Transition("NONE", "UNLOAD") = "STOP"
  BY TransitionStraight
<1> QED
  BY <1>1, <1>2, <1>3 DEF AllocBuffers, Readies

LEMMA LoadOpenType ==
  ASSUME TypeInv, LoadOpen
  PROVE  TypeInv'
<1>1. dpc = "dispatch" /\ rstate = "LOAD" /\ load < MaxLoads /\ load' = load + 1
  BY DEF LoadOpen, In, At
<1>2. {"RUN", "STOP"} \subseteq States /\ {"dispatch", "l_audio"} \subseteq DecoderPcs
  BY DEF States, ReadingStates, DecoderPcs
<1>3. UNCHANGED <<cmdq, userbox, proc, codec, paused, queue, freed, ppc, inhand, waits, late>>
  BY DEF LoadOpen, presvars
<1>4. PICK new \in SUBSET Streams :
        /\ OpenVideo(new)
        /\ \/ /\ input' = new
              /\ left' = MaxFrames /\ eof' = FALSE /\ drained' = FALSE
              /\ IF "audio" \in new
                   THEN dpc' = "l_audio" /\ UNCHANGED <<ready, rstate>>
                   ELSE ready' \in Readies /\ rstate' \in {"RUN", "STOP"} /\ UNCHANGED dpc
           \/ /\ rstate' = "RUN"
              /\ UNCHANGED <<dpc, input, left, eof, drained, ready>>
  <2>1. {{}, {"video"}} \subseteq SUBSET Streams /\ StreamSets \subseteq SUBSET Streams
    BY FfmpegAssumption DEF Streams
  <2>2. Transition("NONE", "LOAD") = "RUN" /\ Transition("ERR", "LOAD") = "RUN"
    BY TransitionStraight
  <2> QED
    BY <2>1, <2>2, AllocStep DEF LoadOpen
<1>5. /\ streams' = streams \cup (new \cap {"video"}) /\ streams' \subseteq Streams
      /\ ptr' \in [{"video", "audio", "pres"} -> 0 .. load']
      /\ load' \in 0 .. MaxLoads /\ load' # 0
      /\ \A s \in streams' : ptr'[s] # 0
  BY <1>1, <1>4, OpenVideoType
<1>6. TypeOK'
  <2>1. input' \subseteq Streams /\ left' \in 0 .. MaxFrames /\ {eof', drained'} \subseteq BOOLEAN /\ ready' \in Readies
    <3>1. MaxFrames \in 0 .. MaxFrames
      BY FfmpegAssumption
    <3>2. /\ input \subseteq Streams /\ left \in 0 .. MaxFrames
          /\ eof \in BOOLEAN /\ drained \in BOOLEAN /\ ready \in Readies
      BY DEF TypeInv, TypeOK
    <3>3. input' \subseteq Streams /\ left' \in 0 .. MaxFrames /\ eof' \in BOOLEAN /\ drained' \in BOOLEAN
      BY <1>4, <3>1, <3>2
    <3>4. ready' \in Readies
      BY <1>4, <3>2
    <3> QED
      BY <3>3, <3>4
  <2>2. rstate' \in States /\ dpc' \in DecoderPcs
    BY <1>1, <1>2, <1>4 DEF TypeInv, TypeOK
  <2> QED
    BY <1>3, <1>5, <2>1, <2>2 DEF TypeInv, TypeOK
<1>7. Places'
  BY <1>1, <1>4, <1>5 DEF TypeInv, Places, LoadPcs, RunPcs, UnloadPcs, Streams
<1> QED
  BY <1>6, <1>7 DEF TypeInv

LEMMA StartPresenterType ==
  ASSUME TypeInv, StartPresenter \/ CreatePresq
  PROVE  TypeInv'
<1>1. dpc \in LoadPcs /\ rstate = "LOAD" /\ load \in Loads /\ load \in 0 .. load
  BY FfmpegAssumption DEF StartPresenter, CreatePresq, At, LoadPcs, TypeInv, TypeOK, Places, Loads
<1>2. CASE StartPresenter
  <2>1. /\ ptr' = [ptr EXCEPT !["audio"] = load] /\ ppc' = [ppc EXCEPT ![load] = "poll"]
        /\ streams' = streams \cup {"audio"} /\ dpc' = "l_presq"
        /\ UNCHANGED <<rstate, cmdq, userbox, proc, load, codec, left, eof, drained, input, ready, paused,
                       queue, freed, inhand, waits, late>>
    BY <1>2 DEF StartPresenter, ctlvars, decvars
  <2>2. TypeOK'
    <3>1. ptr' \in [{"video", "audio", "pres"} -> 0 .. load] /\ ppc' \in [Loads -> PresenterPcs]
      BY <1>1, <2>1 DEF TypeInv, TypeOK, PresenterPcs
    <3> QED
      BY <2>1, <3>1 DEF TypeInv, TypeOK, DecoderPcs, Streams
  <2>3. Places'
    <3>1. /\ ptr'["audio"] = load /\ ptr'["video"] = ptr["video"]
          /\ load # 0
      BY <2>1, <1>1 DEF TypeInv, TypeOK, Places
    <3>2. \A s \in streams' : ptr'[s] # 0
      BY <2>1, <3>1 DEF TypeInv, TypeOK, Places, Streams
    <3> QED
      BY <1>1, <2>1, <3>1, <3>2 DEF TypeInv, Places, LoadPcs, RunPcs, UnloadPcs
  <2> QED
    BY <2>2, <2>3 DEF TypeInv
<1>3. CASE CreatePresq
  <2>1. /\ ptr' = [ptr EXCEPT !["pres"] = load] /\ dpc' = "dispatch"
        /\ ready' \in Readies /\ rstate' \in {"RUN", "STOP"} /\ dpc = "l_presq"
        /\ UNCHANGED <<cmdq, userbox, proc, load, codec, left, eof, drained, input, streams, paused,
                       queue, freed, ppc, inhand, waits, late>>
    BY <1>3, AllocStep, TransitionStraight DEF CreatePresq, decvars, presvars, At, TypeInv, TypeOK
  <2>2. TypeOK'
    <3>1. ptr' \in [{"video", "audio", "pres"} -> 0 .. load]
      BY <1>1, <2>1 DEF TypeInv, TypeOK
    <3> QED
      BY <2>1, <3>1 DEF TypeInv, TypeOK, DecoderPcs, States, ReadingStates
  <2>3. Places'
    <3>1. ptr'["audio"] = ptr["audio"] /\ ptr'["video"] = ptr["video"]
      BY <2>1 DEF TypeInv, TypeOK
    <3> QED
      BY <2>1, <3>1 DEF TypeInv, TypeOK, Places, LoadPcs, RunPcs, UnloadPcs, Streams
  <2> QED
    BY <2>2, <2>3 DEF TypeInv
<1> QED
  BY <1>2, <1>3

LEMMA RunReadType ==
  ASSUME TypeInv, RunRead
  PROVE  TypeInv'
<1>1. dpc = "read" /\ rstate \in {"RUN", "UNLOAD", "STOP"} /\ input \subseteq streams
  BY DEF RunRead, At, TypeInv, Places, RunPcs
<1>2. UNCHANGED <<rstate, cmdq, userbox, load, left, drained, input, streams, ready, ptr, paused,
                  queue, freed, ppc, inhand, waits, late>>
  BY DEF RunRead, Crash, ctlvars, decvars, ctxvars, presvars
<1>3. /\ dpc' \in {"read", "recv", "eos_video"} /\ proc' \in {proc, "crashed"} /\ eof' \in {eof, TRUE}
      /\ codec' \in streams \/ (codec' = codec /\ dpc' # "recv")
  BY <1>1 DEF RunRead, Crash, decvars
<1>4. TypeOK'
  BY <1>2, <1>3 DEF TypeInv, TypeOK, DecoderPcs
<1>5. Places'
  BY <1>1, <1>2, <1>3 DEF TypeInv, Places, LoadPcs, RunPcs, UnloadPcs
<1> QED
  BY <1>4, <1>5 DEF TypeInv

LEMMA RecvFrameType ==
  ASSUME TypeInv, RecvFrame
  PROVE  TypeInv'
<1>1. dpc = "recv" /\ rstate \in {"RUN", "UNLOAD", "STOP"} /\ input \subseteq streams /\ codec \in streams
  BY DEF RecvFrame, At, TypeInv, Places, RunPcs
<1>2. UNCHANGED <<cmdq, userbox, proc, load, codec, eof, drained, input, streams, ready, ptr, paused,
                  queue, freed, ppc, inhand, waits, late>>
  BY DEF RecvFrame, ctxvars, presvars
<1>3. /\ left' \in 0 .. MaxFrames /\ dpc' \in {"send", "run", "send_last"}
      /\ rstate' \in {rstate, Transition("ERR", rstate)}
  BY FfmpegAssumption DEF RecvFrame, TypeInv, TypeOK
<1>4. Transition("ERR", rstate) \in {"UNLOAD", "STOP"}
  <2>1. Transition("ERR", "STOP") = "STOP"
    BY DEF Transition, ReadingStates, Row, ErrRow
  <2> QED
    BY <1>1, <2>1, TransitionError, TransitionStraight
<1>5. TypeOK'
  BY <1>1, <1>2, <1>3, <1>4, StraightDomain DEF TypeInv, TypeOK, DecoderPcs, States, ReadingStates
<1>6. Places'
  BY <1>1, <1>2, <1>3, <1>4 DEF TypeInv, Places, LoadPcs, RunPcs, UnloadPcs
<1> QED
  BY <1>5, <1>6 DEF TypeInv

\* A queue may grow while the decoder goes on from one place to the next.
LEMMA PutType ==
  ASSUME TypeInv, NEW s \in Streams, NEW item \in {"frame", "eos"},
         (Put(s, item) /\ s \in streams) \/ UNCHANGED queue,
         UNCHANGED <<ctlvars, proc, decvars, ctxvars, freed, presvars>>,
         NEW to \in DecoderPcs \ LoadPcs, dpc' = to, dpc # "l_audio",
         to \notin {"send", "send_last"}, to = "recv" => codec \in streams,
         to \in RunPcs => dpc \in RunPcs,
         to \in UnloadPcs => rstate = "UNLOAD"
  PROVE  TypeInv'
<1>1. /\ queue' \in [Loads -> [Streams -> Seq({"frame", "eos"})]]
      /\ \A k \in Loads : Len(queue'[k]["video"]) <= PictqSize /\ Len(queue'[k]["audio"]) <= AudioqSize
  <2>1. CASE Put(s, item) /\ s \in streams
    <3>1. ptr[s] # 0
      BY <2>1 DEF TypeInv, Places
    <3> QED
      BY <2>1, <3>1, PutStep DEF TypeInv
  <2>2. CASE UNCHANGED queue
    BY <2>2 DEF TypeInv, TypeOK
  <2> QED
    BY <2>1, <2>2
<1>2. TypeOK'
  BY <1>1 DEF TypeInv, TypeOK, ctlvars, decvars, ctxvars, presvars
<1>3. Places'
  BY DEF TypeInv, Places, LoadPcs, RunPcs, UnloadPcs, ctlvars, decvars, ctxvars
<1> QED
  BY <1>2, <1>3 DEF TypeInv

LEMMA SendType ==
  ASSUME TypeInv, SendFrame \/ EofEos \/ UnloadEos
  PROVE  TypeInv'
<1>1. CASE SendFrame
  <2>1. /\ codec \in Streams /\ codec \in streams /\ dpc \in RunPcs /\ dpc # "l_audio" /\ Put(codec, "frame")
        /\ dpc' \in {"recv", "run"}
        /\ UNCHANGED <<ctlvars, proc, decvars, ctxvars, freed, presvars>>
    BY <1>1 DEF SendFrame, At, TypeInv, TypeOK, Places, RunPcs
  <2> QED
    BY <2>1, PutType DEF DecoderPcs, LoadPcs, UnloadPcs, RunPcs
<1>2. ASSUME NEW s \in Streams, NEW to \in {"eos_audio", "eof_wait", "u_eos_audio", "u_sendul"}, SendEos(s, to),
             \/ dpc \in RunPcs /\ to \in RunPcs
             \/ rstate = "UNLOAD" /\ to \in UnloadPcs /\ dpc # "l_audio"
      PROVE  TypeInv'
  <2>1. /\ (Put(s, "eos") /\ s \in streams) \/ UNCHANGED queue
        /\ dpc' = to /\ UNCHANGED <<ctlvars, proc, decvars, ctxvars, freed, presvars>>
    BY <1>2 DEF SendEos
  <2> QED
    BY <1>2, <2>1, PutType DEF DecoderPcs, LoadPcs, UnloadPcs, RunPcs
<1>3. "video" \in Streams /\ "audio" \in Streams
  BY DEF Streams
<1>4. CASE EofEos
  BY <1>2, <1>3, <1>4 DEF EofEos, At, RunPcs
<1>5. CASE UnloadEos
  <2>1. dpc = "u_eos_audio" => rstate = "UNLOAD"
    BY DEF TypeInv, Places, UnloadPcs
  <2> QED
    BY <1>2, <1>3, <1>5, <2>1 DEF UnloadEos, In, At, UnloadPcs
<1> QED
  BY <1>1, <1>4, <1>5

LEMMA WriteStaleType ==
  ASSUME TypeInv, WriteStale
  PROVE  TypeInv'
<1>1. dpc = "stale" /\ rstate \in {"RUN", "UNLOAD", "STOP"} /\ input \subseteq streams /\ streams \subseteq Streams
  BY DEF WriteStale, At, TypeInv, TypeOK, Places, RunPcs
<1>2. UNCHANGED <<rstate, cmdq, userbox, proc, load, left, eof, input, streams, ready, ptr, paused,
                  queue, freed, ppc, inhand, waits, late>>
  BY DEF WriteStale, ctlvars, ctxvars, presvars
<1>3. \/ drained' = TRUE /\ codec' \in streams /\ dpc' = "recv"
      \/ dpc' = "run" /\ UNCHANGED <<drained, codec>>
  BY <1>1 DEF WriteStale
<1>4. TypeOK'
  BY <1>1, <1>2, <1>3 DEF TypeInv, TypeOK, DecoderPcs
<1>5. Places'
  BY <1>1, <1>2, <1>3 DEF TypeInv, Places, LoadPcs, RunPcs, UnloadPcs
<1> QED
  BY <1>4, <1>5 DEF TypeInv

LEMMA UnloadFreeType ==
  ASSUME TypeInv, UnloadFree
  PROVE  TypeInv'
<1>1. dpc = "u_free" /\ rstate = "UNLOAD"
  BY DEF UnloadFree, At, TypeInv, Places, UnloadPcs
<1>2. /\ freed' = freed \cup Held /\ input' = {} /\ streams' = {} /\ ready' = "nothing" /\ paused' = FALSE
      /\ queue' = [k \in Loads |-> [s \in Streams |-> IF <<s, k>> \in Held THEN <<>> ELSE queue[k][s]]]
      /\ codec' = "none" /\ left' = 0 /\ eof' = FALSE /\ drained' = FALSE
      /\ rstate' = "STOP" /\ dpc' = "dispatch"
      /\ UNCHANGED <<cmdq, userbox, proc, load, ppc, inhand, waits, late>>
      /\ ptr' = [x \in DOMAIN ptr |-> 0]
  BY <1>1, TransitionStraight DEF UnloadFree, Release, presvars
<1>3. Held \subseteq Streams \X Loads
  BY FfmpegAssumption DEF Held, TypeInv, TypeOK, Loads, Streams
<1>4. /\ queue' \in [Loads -> [Streams -> Seq({"frame", "eos"})]]
      /\ \A k \in Loads : Len(queue'[k]["video"]) <= PictqSize /\ Len(queue'[k]["audio"]) <= AudioqSize
  <2>1. queue \in [Loads -> [Streams -> Seq({"frame", "eos"})]]
    BY DEF TypeInv, TypeOK
  <2>2. queue' \in [Loads -> [Streams -> Seq({"frame", "eos"})]]
    BY <1>2, <2>1
  <2>3. \A k \in Loads : \A s \in Streams : queue'[k][s] \in {queue[k][s], <<>>}
    BY <1>2
  <2>4. Len(<<>>) = 0 /\ 0 <= PictqSize /\ 0 <= AudioqSize
    BY FfmpegAssumption
  <2>5. \A k \in Loads : Len(queue[k]["video"]) <= PictqSize /\ Len(queue[k]["audio"]) <= AudioqSize
    BY DEF TypeInv, TypeOK
  <2>6. "video" \in Streams /\ "audio" \in Streams
    BY DEF Streams
  <2> QED
    BY <2>2, <2>3, <2>4, <2>5, <2>6
<1>5. ptr' \in [{"video", "audio", "pres"} -> 0 .. load] /\ 0 \in 0 .. MaxFrames
  BY <1>2, FfmpegAssumption DEF TypeInv, TypeOK
<1>6. TypeOK'
  BY <1>2, <1>3, <1>4, <1>5 DEF TypeInv, TypeOK, DecoderPcs, States, ReadingStates, Readies
<1>7. Places'
  BY <1>2 DEF Places, LoadPcs, RunPcs, UnloadPcs
<1> QED
  BY <1>6, <1>7 DEF TypeInv

LEMMA ToggleType ==
  ASSUME TypeInv, Toggle \/ Exit \/ RecvNoFrame \/ UnloadSendul \/ UnloadNoPacket
  PROVE  TypeInv'
<1>1. CASE Toggle
  <2>1. dpc = "dispatch" /\ dpc' = dpc /\ rstate' \in {"RUN", "IDLE"}
    BY <1>1, TransitionStraight DEF Toggle, In, At
  <2>2. late' \in [Loads -> 0 .. 2] /\ paused' \in BOOLEAN
    BY <1>1 DEF Toggle
  <2>3. TypeOK'
    BY <1>1, <2>1, <2>2 DEF Toggle, decvars, TypeInv, TypeOK, States, ReadingStates
  <2>4. Places'
    BY <1>1, <2>1 DEF Toggle, decvars, TypeInv, Places, LoadPcs, RunPcs, UnloadPcs
  <2> QED
    BY <2>3, <2>4 DEF TypeInv
<1>2. CASE Exit \/ RecvNoFrame \/ UnloadNoPacket
  BY <1>2 DEF Exit, RecvNoFrame, UnloadNoPacket, Crash, ctlvars, decvars, ctxvars, presvars, TypeInv, TypeOK, Places
<1>3. CASE UnloadSendul
  <2>1. rstate = "UNLOAD" /\ dpc = "u_sendul" /\ dpc' \in {"u_sendul", "u_stop"} /\ proc' \in {proc, "crashed"}
        /\ UNCHANGED <<ctlvars, decvars, ctxvars, queue, freed, presvars>>
    BY <1>3 DEF UnloadSendul, Crash, At, TypeInv, Places, UnloadPcs
  <2> QED
    BY <2>1 DEF ctlvars, decvars, ctxvars, presvars, TypeInv, TypeOK, Places, DecoderPcs, LoadPcs, RunPcs, UnloadPcs
<1> QED
  BY <1>1, <1>2, <1>3

\* A presenter leaves the decoder and its context alone, but for the stop.
LEMMA PresenterFrame ==
  ASSUME TypeInv, NEW p \in Loads, Presenter(p)
  PROVE  /\ UNCHANGED <<rstate, userbox, load, codec, left, eof, drained>>
         /\ UNCHANGED <<input, streams, ready, ptr, paused, freed>>
         /\ dpc' = dpc \/ (dpc = "u_stop" /\ dpc' = "u_free" /\ rstate = "UNLOAD")
         /\ proc' \in {proc, "crashed"}
<1>1. CASE Poll(p)
  BY <1>1 DEF Poll, WaitIn, Crash, ctlvars, decvars, ctxvars, presvars, TypeInv, Places, UnloadPcs
<1>2. CASE TakePicture(p) \/ WaitSample(p)
  BY <1>2 DEF TakePicture, WaitSample, WaitIn, Crash, ctlvars, decvars, ctxvars, presvars
<1>3. CASE TakeSample(p) \/ SendStop(p) \/ Show(p)
  BY <1>3 DEF TakeSample, SendStop, Show, Crash, ctlvars, decvars, ctxvars, presvars
<1> QED
  BY <1>1, <1>2, <1>3 DEF Presenter

LEMMA WaitInType ==
  ASSUME TypeInv, NEW p \in Loads, NEW s \in Streams, WaitIn(p, s)
  PROVE  /\ ppc' \in [Loads -> PresenterPcs] /\ waits' \in [Loads -> Loads]
         /\ UNCHANGED <<cmdq, queue, late>>
<1>1. ptr[s] # 0 => ptr[s] \in Loads
  BY FfmpegAssumption DEF TypeInv, TypeOK, Loads, Streams
<1>2. s \in PresenterPcs
  BY DEF Streams, PresenterPcs
<1>3. ppc \in [Loads -> PresenterPcs] /\ waits \in [Loads -> Loads]
  BY DEF TypeInv, TypeOK
<1>4. CASE ptr[s] = 0
  BY <1>3, <1>4 DEF WaitIn, Crash, ctlvars, presvars
<1>5. CASE ptr[s] # 0
  BY <1>1, <1>2, <1>3, <1>5 DEF WaitIn, ctlvars
<1> QED
  BY <1>4, <1>5

LEMMA PresenterType ==
  ASSUME TypeInv, NEW p \in Loads, Presenter(p)
  PROVE  TypeInv'
<1>1. /\ UNCHANGED <<rstate, userbox, load, codec, left, eof, drained>>
      /\ UNCHANGED <<input, streams, ready, ptr, paused, freed>>
      /\ dpc' = dpc \/ (dpc = "u_stop" /\ dpc' = "u_free" /\ rstate = "UNLOAD")
      /\ proc' \in {proc, "crashed"}
  BY PresenterFrame
<1>2. Places'
  BY <1>1 DEF TypeInv, Places, LoadPcs, RunPcs, UnloadPcs
<1> DEFINE QueuesOK == /\ queue' \in [Loads -> [Streams -> Seq({"frame", "eos"})]]
                       /\ \A k \in Loads : Len(queue'[k]["video"]) <= PictqSize /\ Len(queue'[k]["audio"]) <= AudioqSize
           PresOK == /\ ppc' \in [Loads -> PresenterPcs] /\ inhand' \in [Loads -> Pictures]
                     /\ waits' \in [Loads -> Loads] /\ late' \in [Loads -> 0 .. 2]
           CmdqOK == cmdq' \in Seq(CommandNames) /\ Len(cmdq') <= CmdqSize
<1>3. UNCHANGED queue => QueuesOK
  BY DEF TypeInv, TypeOK
<1>4. UNCHANGED cmdq => CmdqOK
  BY DEF TypeInv, TypeOK
<1>5. /\ ppc \in [Loads -> PresenterPcs] /\ inhand \in [Loads -> Pictures]
      /\ waits \in [Loads -> Loads] /\ late \in [Loads -> 0 .. 2]
  BY DEF TypeInv, TypeOK
<1>6. \A s \in {"poll", "picture", "stop", "show", "done"} : s \in PresenterPcs
  BY DEF PresenterPcs
<1>7. QueuesOK /\ PresOK /\ CmdqOK
  <2> HIDE DEF QueuesOK, CmdqOK
  <2>1. CASE Poll(p)
    <3>1. CASE Crash
      BY <1>3, <1>4, <1>5, <3>1 DEF Crash, ctlvars, presvars
    <3>2. CASE WaitIn(p, Wants(p)) /\ UNCHANGED inhand
      <4>1. Wants(p) \in Streams
        BY DEF Wants, Streams
      <4> QED
        BY <1>3, <1>4, <1>5, <3>2, <4>1, WaitInType
    <3>3. CASE /\ ppc' = [ppc EXCEPT ![p] = "done"]
               /\ inhand' = [inhand EXCEPT ![p] = "none"]
               /\ waits' = [waits EXCEPT ![p] = p]
               /\ late' = [late EXCEPT ![p] = 0]
               /\ UNCHANGED <<ctlvars, queue>>
      BY <1>3, <1>4, <1>5, <1>6, <3>3 DEF ctlvars, Pictures
    <3> QED
      BY <2>1, <3>1, <3>2, <3>3 DEF Poll
  <2>2. CASE TakePicture(p)
    <3>1. CASE Crash
      BY <1>3, <1>4, <1>5, <3>1 DEF Crash, ctlvars, presvars
    <3>2. CASE ~Crash
      <4>1. /\ queue[waits[p]]["video"] # <<>>
            /\ queue' = [queue EXCEPT ![waits[p]]["video"] = Tail(@)]
            /\ \E c \in {"frame", "eos"} : inhand' = [inhand EXCEPT ![p] = c]
            /\ ppc' = [ppc EXCEPT ![p] = "picture"]
            /\ UNCHANGED <<cmdq, waits, late>>
        <5>1. queue[waits[p]]["video"] \in Seq({"frame", "eos"})
          BY <1>5 DEF TypeInv, TypeOK, Streams
        <5>2. queue[waits[p]]["video"] # <<>> => Head(queue[waits[p]]["video"]) \in {"frame", "eos"}
          BY <5>1
        <5> QED
          BY <2>2, <3>2, <5>2 DEF TakePicture, ctlvars
      <4>2. QueuesOK
        BY <1>5, <4>1, TakeStep DEF TypeInv, Streams, QueuesOK
      <4>3. inhand' \in [Loads -> Pictures]
        BY <1>5, <4>1 DEF Pictures
      <4> QED
        BY <1>4, <1>5, <1>6, <4>1, <4>2, <4>3
    <3> QED
      BY <3>1, <3>2
  <2>3. CASE WaitSample(p)
    BY <1>3, <1>4, <1>5, <2>3, WaitInType DEF WaitSample, Streams
  <2>4. CASE TakeSample(p)
    <3>1. CASE Crash
      BY <1>3, <1>4, <1>5, <3>1 DEF Crash, ctlvars, presvars
    <3>2. CASE ~Crash
      <4>1. /\ queue[waits[p]]["audio"] # <<>>
            /\ queue' = [queue EXCEPT ![waits[p]]["audio"] = Tail(@)]
            /\ \E s \in {"stop", "show"} : ppc' = [ppc EXCEPT ![p] = s]
            /\ late' = late \/ (late[p] < 2 /\ late' = [late EXCEPT ![p] = @ + 1])
            /\ UNCHANGED <<cmdq, waits, inhand>>
        BY <2>4, <3>2 DEF TakeSample, ctlvars
      <4>2. QueuesOK
        BY <1>5, <4>1, TakeStep DEF TypeInv, Streams, QueuesOK
      <4>3. late' \in [Loads -> 0 .. 2]
        BY <1>5, <4>1
      <4>4. ppc' \in [Loads -> PresenterPcs]
        BY <1>5, <1>6, <4>1
      <4> QED
        BY <1>4, <1>5, <4>1, <4>2, <4>3, <4>4
    <3> QED
      BY <3>1, <3>2
  <2>5. CASE SendStop(p)
    <3>1. /\ cmdq' = Append(cmdq, "STOP") /\ Len(cmdq) < CmdqSize
          /\ ppc' = [ppc EXCEPT ![p] = "poll"] /\ UNCHANGED <<queue, inhand, waits, late>>
      BY <2>5 DEF SendStop
    <3>2. CmdqOK
      <4>1. cmdq' \in Seq(CommandNames) /\ Len(cmdq') = Len(cmdq) + 1 /\ Len(cmdq) \in Nat
        BY <3>1 DEF TypeInv, TypeOK, CommandNames
      <4> QED
        BY <3>1, <4>1, FfmpegAssumption DEF CmdqOK
    <3> QED
      BY <1>3, <1>5, <1>6, <3>1, <3>2
  <2>6. CASE Show(p)
    <3>1. CASE Crash
      BY <1>3, <1>4, <1>5, <3>1 DEF Crash, ctlvars, presvars
    <3>2. CASE ~Crash
      BY <1>3, <1>4, <1>5, <1>6, <2>6, <3>2 DEF Show, ctlvars, Pictures
    <3> QED
      BY <3>1, <3>2
  <2> QED
    BY <2>1, <2>2, <2>3, <2>4, <2>5, <2>6 DEF Presenter
<1>8. dpc' \in DecoderPcs /\ proc' \in {"up", "exited", "crashed"}
  BY <1>1 DEF TypeInv, TypeOK, DecoderPcs
<1>9. TypeOK'
  BY <1>1, <1>7, <1>8 DEF TypeInv, TypeOK
<1> QED
  BY <1>2, <1>9 DEF TypeInv

LEMMA TypeInit == Init => TypeInv
<1> SUFFICES ASSUME Init PROVE TypeInv
  OBVIOUS
<1>1. <<>> \in Seq(CommandNames) /\ Len(<<>>) = 0 /\ 0 \in 0 .. MaxLoads /\ 0 \in 0 .. MaxFrames
  BY FfmpegAssumption
<1>2. "STOP" \in States /\ "dispatch" \in DecoderPcs /\ "off" \in PresenterPcs
  BY DEF States, ReadingStates, DecoderPcs, PresenterPcs
<1>3. /\ queue \in [Loads -> [Streams -> Seq({"frame", "eos"})]]
      /\ \A k \in Loads : Len(queue[k]["video"]) <= PictqSize /\ Len(queue[k]["audio"]) <= AudioqSize
  <2>1. queue = [k \in Loads |-> [s \in Streams |-> <<>>]] /\ <<>> \in Seq({"frame", "eos"})
    BY DEF Init
  <2>2. 0 <= PictqSize /\ 0 <= AudioqSize
    BY FfmpegAssumption
  <2> QED
    BY <1>1, <2>1, <2>2 DEF Streams
<1>4. ptr \in [{"video", "audio", "pres"} -> 0 .. load]
  BY DEF Init
<1>5. /\ ppc \in [Loads -> PresenterPcs] /\ inhand \in [Loads -> Pictures]
      /\ waits \in [Loads -> Loads] /\ late \in [Loads -> 0 .. 2]
  BY <1>2 DEF Init, Pictures
<1>6. cmdq \in Seq(CommandNames) /\ Len(cmdq) <= CmdqSize
  BY <1>1, FfmpegAssumption DEF Init
<1>7. {eof, drained, paused} \subseteq BOOLEAN /\ ready \in Readies
  BY DEF Init, Readies
<1>8. TypeOK
  BY <1>1, <1>2, <1>3, <1>4, <1>5, <1>6, <1>7 DEF Init, TypeOK
<1>9. Places
  BY DEF Init, Places, LoadPcs, RunPcs, UnloadPcs
<1> QED
  BY <1>8, <1>9 DEF TypeInv

LEMMA TypeStep == TypeInv /\ [Next]_vars => TypeInv'
<1> SUFFICES ASSUME TypeInv, [Next]_vars
             PROVE  TypeInv'
  OBVIOUS
<1>1. CASE Request \/ Accept
  BY <1>1, UsersType
<1>2. CASE Decoder
  BY <1>2, ReadersType, LoadOpenType, StartPresenterType, RunReadType, RecvFrameType, SendType,
     WriteStaleType, UnloadFreeType, ToggleType DEF Decoder
<1>3. ASSUME NEW p \in Loads, Presenter(p)
      PROVE  TypeInv'
  BY <1>3, PresenterType
<1>4. CASE UNCHANGED vars
  BY <1>4 DEF vars, ctlvars, decvars, ctxvars, presvars, TypeInv, TypeOK, Places
<1> QED
  BY <1>1, <1>2, <1>3, <1>4 DEF Next

LEMMA TypeInvariant == Spec => []TypeInv
BY TypeInit, TypeStep, PTL DEF Spec

\* The types of the backend's state, whatever fails: a queue that is full, a
\* frame or the end of a stream put into a nil queue, a codec that is not open
\* would all break it.
THEOREM FfmpegTypeCorrect == Spec => []TypeOK
BY TypeInvariant, PTL DEF TypeInv

-----------------------------------------------------------------------------
(* The pause *)

\* A step of the decoder or of the users that is not one into IDLE.
LEMMA PauseUntouched ==
  ASSUME PauseInv, UNCHANGED late,
         rstate' # "IDLE" \/ (rstate = "IDLE" /\ UNCHANGED <<paused, dpc, ppc>>)
  PROVE  PauseInv'
BY DEF PauseInv, PauseHolds, Held1

LEMMA PauseDecoder ==
  ASSUME TypeInv, PauseInv, Decoder
  PROVE  PauseInv'
<1>1. CASE AwaitCommand
  <2>1. dpc = "dispatch" /\ rstate \in {"STOP", "IDLE"} /\ ReadCmd("dispatch")
    BY <1>1 DEF AwaitCommand, In, At
  <2>2. "dispatch" \in DecoderPcs
    BY DEF DecoderPcs
  <2>3. (rstate' = "IDLE" => rstate = "IDLE") /\ dpc' = "dispatch"
    BY <2>1, <2>2, ReadCmdStep DEF TypeInv, ReadingStates
  <2>4. UNCHANGED <<late, paused, ppc>>
    BY <2>1 DEF ReadCmd, ctxvars, presvars
  <2> QED
    BY <2>1, <2>3, <2>4, PauseUntouched
<1>2. CASE RunPoll \/ EofWait
  <2>1. rstate \in {"RUN", "UNLOAD", "STOP"}
    BY <1>2 DEF RunPoll, EofWait, In, At, TypeInv, Places, RunPcs
  <2>2. PICK keep \in {"read", "stale"} : ReadCmd(keep) \/ UNCHANGED <<ctlvars, presvars>>
    BY <1>2 DEF RunPoll, EofWait
  <2>3. keep \in DecoderPcs
    BY DEF DecoderPcs
  <2>4. rstate' # "IDLE" /\ UNCHANGED late
    <3>1. CASE ReadCmd(keep)
      <4>1. UNCHANGED late
        BY <3>1 DEF ReadCmd, presvars
      <4> QED
        BY <2>1, <2>3, <3>1, <4>1, ReadCmdStep DEF TypeInv, ReadingStates
    <3>2. CASE UNCHANGED <<ctlvars, presvars>>
      BY <2>1, <3>2 DEF ctlvars, presvars
    <3> QED
      BY <2>2, <3>1, <3>2
  <2> QED
    BY <2>4, PauseUntouched
<1>3. CASE LoadOpen
  <2>1. rstate = "LOAD" /\ rstate' \in {"LOAD", "RUN", "STOP"} /\ UNCHANGED late
    BY <1>3, AllocStep, TransitionStraight DEF LoadOpen, In, presvars
  <2> QED
    BY <2>1, PauseUntouched
<1>4. CASE StartPresenter \/ CreatePresq
  <2>1. rstate = "LOAD"
    BY <1>4 DEF StartPresenter, CreatePresq, At, TypeInv, Places, LoadPcs
  <2>2. rstate' \in {"LOAD", "RUN", "STOP"} /\ UNCHANGED late
    BY <1>4, <2>1, AllocStep, TransitionStraight DEF StartPresenter, CreatePresq, ctlvars, presvars
  <2> QED
    BY <2>2, PauseUntouched
<1>5. CASE RunRead \/ RecvNoFrame \/ RecvFrame \/ SendFrame \/ EofEos \/ WriteStale
  <2>1. rstate \in {"RUN", "UNLOAD", "STOP"}
    BY <1>5 DEF RunRead, RecvNoFrame, RecvFrame, SendFrame, EofEos, WriteStale, At, TypeInv, Places, RunPcs
  <2>2. Transition("ERR", "STOP") = "STOP"
    BY DEF Transition, ReadingStates, Row, ErrRow
  <2>3. rstate' \in {rstate, Transition("ERR", rstate)} /\ UNCHANGED late
    BY <1>5 DEF RunRead, RecvNoFrame, Crash, RecvFrame, SendFrame, EofEos, SendEos, WriteStale, ctlvars, presvars
  <2>4. rstate' # "IDLE"
    BY <2>1, <2>2, <2>3, TransitionError, TransitionStraight
  <2> QED
    BY <2>3, <2>4, PauseUntouched
<1>6. CASE UnloadEos \/ UnloadSendul \/ UnloadNoPacket \/ UnloadFree
  <2>1. rstate = "UNLOAD"
    BY <1>6 DEF UnloadEos, UnloadSendul, UnloadNoPacket, UnloadFree, In, At, TypeInv, Places, UnloadPcs
  <2>2. rstate' \in {rstate, "STOP"} /\ UNCHANGED late
    BY <1>6, <2>1, TransitionStraight
    DEF UnloadEos, UnloadSendul, UnloadNoPacket, UnloadFree, SendEos, Crash, Release, ctlvars, presvars
  <2> QED
    BY <2>1, <2>2, PauseUntouched
<1>7. CASE Toggle
  <2>1. /\ rstate \in {"ENGAGE", "DISENG"} /\ dpc = "dispatch" /\ dpc' = dpc
        /\ paused' = (rstate = "DISENG") /\ late' = [p \in Loads |-> 0]
        /\ rstate' = Transition("NONE", rstate)
    BY <1>7 DEF Toggle, In, At
  <2>2. rstate' = "IDLE" => rstate = "DISENG"
    BY <2>1, TransitionStraight
  <2>3. \A p \in Loads : late'[p] = 0
    BY <2>1
  <2>4. rstate' = "IDLE" => paused'
    BY <2>1, <2>2, Zenon
  <2> QED
    BY <2>1, <2>3, <2>4 DEF PauseInv, PauseHolds, Held1
<1>8. CASE Exit
  <2>1. rstate = "EXIT" /\ UNCHANGED <<rstate, late>>
    BY <1>8 DEF Exit, In, ctlvars, presvars
  <2> QED
    BY <2>1, PauseUntouched
<1> QED
  BY <1>1, <1>2, <1>3, <1>4, <1>5, <1>6, <1>7, <1>8 DEF Decoder

\* A presenter that is held does not reach the queues again, and one that is in
\* a queue takes one sample.
LEMMA PausePresenter ==
  ASSUME TypeInv, PauseInv, NEW p \in Loads, Presenter(p)
  PROVE  PauseInv'
<1>1. /\ rstate' = rstate /\ paused' = paused
      /\ rstate = "IDLE" => dpc' = dpc
  BY PresenterFrame
<1>2. ppc \in [Loads -> PresenterPcs] /\ late \in [Loads -> 0 .. 2]
  BY DEF TypeInv, TypeOK
<1>3. \A q \in Loads : q # p => late'[q] = late[q] /\ ppc'[q] = ppc[q]
  <2>1. CASE Poll(p) \/ TakePicture(p) \/ WaitSample(p)
    BY <1>2, <2>1 DEF Poll, TakePicture, WaitSample, WaitIn, Crash, presvars
  <2>2. CASE TakeSample(p) \/ SendStop(p) \/ Show(p)
    <3>1. /\ late' = late \/ late' = [late EXCEPT ![p] = @ + 1]
          /\ ppc' = ppc \/ (\E s \in PresenterPcs : ppc' = [ppc EXCEPT ![p] = s])
      BY <2>2 DEF TakeSample, SendStop, Show, Crash, presvars, PresenterPcs
    <3> QED
      BY <1>2, <3>1
  <2> QED
    BY <2>1, <2>2 DEF Presenter
<1>4. /\ late'[p] <= 1
      /\ rstate = "IDLE" => Held1(p)'
  <2>1. late[p] <= 1 /\ late[p] \in Nat /\ (rstate = "IDLE" => paused /\ Held1(p) /\ dpc = "dispatch")
    BY <1>2 DEF PauseInv, PauseHolds
  <2>2. CASE Crash
    BY <2>1, <2>2 DEF Crash, presvars, Held1
  <2>3. CASE Poll(p) /\ ~Crash
    <3>1. CASE dpc = "u_stop"
      BY <1>2, <2>1, <2>3, <3>1 DEF Poll, Held1
    <3>2. CASE dpc # "u_stop" /\ ~paused
      <4>1. UNCHANGED late
        BY <2>3, <3>2 DEF Poll, WaitIn
      <4> QED
        BY <2>1, <3>2, <4>1
    <3> QED
      BY <2>3, <3>1, <3>2 DEF Poll
  <2>4. CASE (TakePicture(p) \/ WaitSample(p)) /\ ~Crash
    <3>1. UNCHANGED late /\ ppc[p] \in {"video", "picture"}
      BY <2>4 DEF TakePicture, WaitSample, WaitIn
    <3> QED
      BY <2>1, <3>1 DEF Held1
  <2>5. CASE TakeSample(p) /\ ~Crash
    <3>1. /\ ppc[p] = "audio" /\ ppc'[p] \in {"stop", "show"}
          /\ late'[p] = late[p] \/ (rstate = "IDLE" /\ late'[p] = late[p] + 1)
      BY <1>2, <2>5 DEF TakeSample
    <3>2. rstate = "IDLE" => late[p] = 0
      BY <2>1, <3>1 DEF Held1
    <3> QED
      BY <2>1, <3>1, <3>2 DEF Held1
  <2>6. CASE (SendStop(p) \/ Show(p)) /\ ~Crash
    <3>1. UNCHANGED late /\ ppc'[p] = "poll"
      BY <1>2, <2>6 DEF SendStop, Show
    <3> QED
      BY <2>1, <3>1 DEF Held1
  <2> QED
    BY <2>2, <2>3, <2>4, <2>5, <2>6 DEF Presenter
<1>5. PauseHolds'
  BY <1>3, <1>4 DEF PauseInv, PauseHolds
<1>6. rstate = "IDLE" => \A q \in Loads : Held1(q)'
  BY <1>3, <1>4 DEF PauseInv, Held1
<1> QED
  BY <1>1, <1>5, <1>6 DEF PauseInv

\* After a pause no presenter plays more than the one sample it was waiting
\* for: for every capacity of the queues, every mix of commands, whichever
\* threads run first, and with decoding and loading errors.
THEOREM PauseIsKept == Spec => []PauseHolds
<1>1. Init => PauseInv
  BY DEF Init, PauseInv, PauseHolds
<1>2. TypeInv /\ PauseInv /\ [Next]_vars => PauseInv'
  <2> SUFFICES ASSUME TypeInv, PauseInv, [Next]_vars
               PROVE  PauseInv'
    OBVIOUS
  <2>1. CASE Request \/ Accept
    <3>1. UNCHANGED <<rstate, late, paused, dpc, ppc>>
      BY <2>1 DEF Request, Accept, ctxvars, presvars
    <3> QED
      BY <3>1 DEF PauseInv, PauseHolds, Held1
  <2>2. CASE Decoder
    BY <2>2, PauseDecoder
  <2>3. ASSUME NEW p \in Loads, Presenter(p)
        PROVE  PauseInv'
    BY <2>3, PausePresenter
  <2>4. CASE UNCHANGED vars
    BY <2>4 DEF vars, ctlvars, ctxvars, presvars, PauseInv, PauseHolds, Held1
  <2> QED
    BY <2>1, <2>2, <2>3, <2>4 DEF Next
<1> QED
  BY <1>1, <1>2, TypeInvariant, PTL DEF Spec, PauseInv

-----------------------------------------------------------------------------
(* One presenter, and the queues it waits in *)

\* Reading a command outside LOAD and UNLOAD.
LEMMA AloneReadCmd ==
  ASSUME TypeInv, AloneInv, NEW keep \in DecoderPcs \ (LoadPcs \cup UnloadPcs), ReadCmd(keep),
         rstate \in ReadingStates, dpc \notin LoadPcs
  PROVE  AloneInv'
<1>1. /\ rstate = "STOP" => rstate' \in {"STOP", "LOAD", "EXIT"}
      /\ rstate # "STOP" => rstate' \notin {"STOP", "LOAD", "EXIT"}
      /\ dpc' \in {keep, "dispatch"}
  BY ReadCmdStep DEF TypeInv, ReadingStates
<1>2. UNCHANGED <<load, ready, ptr, freed, ppc, waits>>
  BY DEF ReadCmd, decvars, ctxvars, presvars
<1>3. dpc' \notin LoadPcs \cup UnloadPcs
  BY <1>1 DEF LoadPcs, UnloadPcs
<1> QED
  BY <1>1, <1>2, <1>3 DEF AloneInv, Live, NoPointers, LoadPcs, UnloadPcs

\* The decoder moves on in a state that is neither entered nor left.
LEMMA AloneMoves ==
  ASSUME AloneInv, UNCHANGED <<rstate, load, ready, ptr, freed, ppc, waits>>,
         rstate \notin {"STOP", "LOAD", "EXIT"},
         dpc' \notin LoadPcs, dpc' # "u_free"
  PROVE  AloneInv'
BY DEF AloneInv, Live, NoPointers, LoadPcs

LEMMA AloneLoadOpen ==
  ASSUME ~AllocErrors, TypeInv, AloneInv, LoadOpen
  PROVE  AloneInv'
<1>1. /\ rstate = "LOAD" /\ dpc = "dispatch" /\ load < MaxLoads /\ load' = load + 1
      /\ rstate' \in {"LOAD", "RUN"}
      /\ rstate' = "LOAD" => dpc' = "l_audio" /\ ready' = ready
      /\ dpc' \in {"dispatch", "l_audio"}
      /\ UNCHANGED <<freed, ppc, waits>>
  BY AllocStep, TransitionStraight DEF LoadOpen, In, At, presvars
<1>2. ready = "nothing" /\ NoPointers /\ \A p \in Loads : ~Live(p)
  BY <1>1 DEF AloneInv, LoadPcs
<1>3. PICK new \in SUBSET Streams : OpenVideo(new)
  <2>1. {{}, {"video"}} \subseteq SUBSET Streams /\ StreamSets \subseteq SUBSET Streams
    BY FfmpegAssumption DEF Streams
  <2> QED
    BY <2>1 DEF LoadOpen
<1>4. \A x \in {"video", "audio", "pres"} : ptr'[x] \in {0, load'}
  <2>1. /\ ptr'["video"] = IF "video" \in new THEN load' ELSE ptr["video"]
        /\ ptr'["audio"] = ptr["audio"] /\ ptr'["pres"] = ptr["pres"]
    BY <1>1, <1>3, OpenVideoType
  <2> QED
    BY <1>2, <2>1 DEF NoPointers
<1>5. \A s \in Streams, k \in Loads : <<s, k>> \in freed => k < load'
  <2>1. load \in Nat /\ Loads \subseteq Nat
    BY DEF TypeInv, TypeOK, Loads
  <2> QED
    BY <1>1, <2>1 DEF AloneInv
<1>6. \A k \in Loads : k < load' => k <= load' /\ k # load'
  BY <1>1 DEF TypeInv, TypeOK, Loads
<1>7. \A p \in Loads : ~Live(p)'
  BY <1>1, <1>2 DEF Live
<1>8. rstate' \in {"STOP", "LOAD", "EXIT"} => ready' = "nothing" /\ dpc' \in LoadPcs
  BY <1>1, <1>2 DEF LoadPcs
<1>9. \A s \in Streams, k \in Loads : <<s, k>> \in freed' => k <= load' /\ k # load'
  BY <1>1, <1>5, <1>6
<1>10. \A p \in Loads : waits'[p] = p
  BY <1>1, <1>2 DEF AloneInv
<1> QED
  BY <1>4, <1>7, <1>8, <1>9, <1>10 DEF AloneInv

LEMMA AloneStartPresenter ==
  ASSUME TypeInv, AloneInv, StartPresenter
  PROVE  AloneInv'
<1>1. /\ dpc = "l_audio" /\ rstate = "LOAD" /\ load \in Loads
      /\ ptr' = [ptr EXCEPT !["audio"] = load] /\ ppc' = [ppc EXCEPT ![load] = "poll"]
      /\ dpc' = "l_presq" /\ UNCHANGED <<rstate, load, ready, freed, waits>>
  BY DEF StartPresenter, At, ctlvars, decvars, TypeInv, TypeOK, Places, LoadPcs, Loads
<1>2. \A p \in Loads : ~Live(p)
  BY <1>1 DEF AloneInv
<1>3. waits[load] = load
  BY <1>1, <1>2 DEF AloneInv
<1>4. ptr \in [{"video", "audio", "pres"} -> 0 .. load] /\ ppc \in [Loads -> PresenterPcs]
  BY DEF TypeInv, TypeOK
<1>5. /\ ptr'["audio"] = load /\ ptr'["video"] = ptr["video"] /\ ptr'["pres"] = ptr["pres"]
      /\ \A p \in Loads : ppc'[p] = IF p = load THEN "poll" ELSE ppc[p]
  BY <1>1, <1>4
<1>6. /\ \A p \in Loads : Live(p)' => p = load
      /\ \A p \in Loads : ~Live(p)' => waits[p] = p
  BY <1>2, <1>5 DEF Live, AloneInv
<1>7. \A s \in Streams, k \in Loads : <<s, k>> \in freed => k <= load /\ k # load
  BY <1>1 DEF AloneInv, LoadPcs
<1>8. ready = "nothing" /\ \A x \in {"video", "audio", "pres"} : ptr'[x] \in {0, load}
  BY <1>1, <1>5 DEF AloneInv
<1>9. dpc' \in LoadPcs
  BY <1>1 DEF LoadPcs
<1> QED
  BY <1>1, <1>3, <1>5, <1>6, <1>7, <1>8, <1>9 DEF AloneInv

LEMMA AloneCreatePresq ==
  ASSUME ~AllocErrors, TypeInv, AloneInv, CreatePresq
  PROVE  AloneInv'
<1>1. /\ dpc = "l_presq" /\ rstate = "LOAD" /\ load \in Loads
      /\ ptr' = [ptr EXCEPT !["pres"] = load]
      /\ dpc' = "dispatch" /\ rstate' = "RUN" /\ UNCHANGED <<load, freed, ppc, waits>>
  BY AllocStep, TransitionStraight
  DEF CreatePresq, At, ctlvars, decvars, presvars, TypeInv, TypeOK, Places, LoadPcs, Loads
<1>2. ptr \in [{"video", "audio", "pres"} -> 0 .. load]
  BY DEF TypeInv, TypeOK
<1>3. ptr'["audio"] = ptr["audio"] /\ ptr'["video"] = ptr["video"] /\ ptr'["pres"] = load
  BY <1>1, <1>2
<1>4. \A s \in Streams, k \in Loads : <<s, k>> \in freed => k <= load /\ k # load
  BY <1>1 DEF AloneInv, LoadPcs
<1>5. \A p \in Loads : Live(p)' <=> Live(p)
  BY <1>1 DEF Live
<1> QED
  BY <1>1, <1>3, <1>4, <1>5 DEF AloneInv

LEMMA AloneUnloadFree ==
  ASSUME TypeInv, AloneInv, UnloadFree
  PROVE  AloneInv'
<1>1. /\ dpc = "u_free" /\ rstate = "UNLOAD"
      /\ freed' = freed \cup Held /\ ready' = "nothing" /\ rstate' = "STOP" /\ dpc' = "dispatch"
      /\ ptr' = [x \in DOMAIN ptr |-> 0] /\ UNCHANGED <<load, ppc, waits>>
  BY TransitionStraight DEF UnloadFree, Release, At, presvars, TypeInv, Places, UnloadPcs
<1>2. \A p \in Loads : ~Live(p)
  BY <1>1 DEF AloneInv
<1>3. \A x \in {"video", "audio", "pres"} : ptr'[x] = 0
  BY <1>1 DEF TypeInv, TypeOK
<1>4. \A s \in Streams, k \in Loads : <<s, k>> \in freed' => k <= load
  <2>1. load \in Nat /\ Loads \subseteq Nat
    BY DEF TypeInv, TypeOK, Loads
  <2>2. \A s \in Streams, k \in Loads : <<s, k>> \in Held => k = load
    BY <2>1 DEF Held, AloneInv, Streams, Loads
  <2>3. load <= load
    BY <2>1
  <2> QED
    BY <1>1, <2>2, <2>3 DEF AloneInv
<1>5. NoPointers' /\ dpc' \notin LoadPcs
  BY <1>1, <1>3 DEF NoPointers, LoadPcs
<1>6. /\ \A p \in Loads : ~Live(p)'
      /\ \A p \in Loads : waits'[p] = p
  BY <1>1, <1>2 DEF Live, AloneInv
<1> QED
  BY <1>1, <1>3, <1>4, <1>5, <1>6 DEF AloneInv

LEMMA AloneDecoder ==
  ASSUME ~AllocErrors, TypeInv, AloneInv, LoopInRun, LoopInRun', Decoder
  PROVE  AloneInv'
<1>1. CASE AwaitCommand \/ RunPoll \/ EofWait
  <2>1. rstate \in ReadingStates /\ dpc \notin LoadPcs
    BY <1>1 DEF AwaitCommand, RunPoll, EofWait, In, At, LoopInRun, RunPcs, LoadPcs, ReadingStates
  <2>2. CASE \E keep \in {"dispatch", "read", "stale"} : ReadCmd(keep)
    BY <2>1, <2>2, AloneReadCmd DEF DecoderPcs, LoadPcs, UnloadPcs
  <2>3. CASE RunPoll /\ dpc' = "read" /\ UNCHANGED <<ctlvars, decvars, ctxvars, freed, presvars>>
    <3>1. rstate = "RUN"
      BY <2>3 DEF RunPoll, In, At, LoopInRun, RunPcs
    <3> QED
      BY <2>3, <3>1, AloneMoves DEF LoadPcs, ctlvars, decvars, ctxvars, presvars
  <2> QED
    BY <1>1, <2>2, <2>3 DEF AwaitCommand, RunPoll, EofWait
<1>2. CASE RunRead \/ SendFrame \/ EofEos \/ WriteStale \/ RecvNoFrame \/ RecvFrame
  <2>1. dpc \in RunPcs /\ dpc' \in RunPcs
    BY <1>2 DEF RunRead, Crash, SendFrame, EofEos, SendEos, WriteStale, RecvNoFrame, RecvFrame, At, RunPcs
  <2>2. rstate = "RUN" /\ rstate' = "RUN"
    BY <2>1 DEF LoopInRun
  <2>3. UNCHANGED <<load, ready, ptr, freed, ppc, waits>>
    BY <1>2 DEF RunRead, Crash, SendFrame, EofEos, SendEos, WriteStale, RecvNoFrame, RecvFrame,
                decvars, ctxvars, presvars
  <2> QED
    BY <2>1, <2>2, <2>3, AloneMoves DEF RunPcs, LoadPcs
<1>3. CASE UnloadEos \/ UnloadSendul
  <2>1. rstate = "UNLOAD" /\ dpc' \in {"u_eos_audio", "u_sendul", "u_stop"}
    BY <1>3 DEF UnloadEos, SendEos, UnloadSendul, Crash, In, At, TypeInv, Places, UnloadPcs
  <2>2. UNCHANGED <<rstate, load, ready, ptr, freed, ppc, waits>>
    BY <1>3 DEF UnloadEos, SendEos, UnloadSendul, Crash, ctlvars, decvars, ctxvars, presvars
  <2> QED
    BY <2>1, <2>2, AloneMoves DEF LoadPcs
<1>4. CASE Toggle
  <2>1. /\ rstate \in {"ENGAGE", "DISENG"} /\ dpc = "dispatch" /\ dpc' = dpc /\ rstate' \in {"RUN", "IDLE"}
        /\ UNCHANGED <<load, ready, ptr, freed, ppc, waits>>
    BY <1>4, TransitionStraight DEF Toggle, In, At, decvars
  <2> QED
    BY <2>1 DEF AloneInv, Live, NoPointers, LoadPcs
<1>5. CASE Exit \/ UnloadNoPacket
  BY <1>5 DEF Exit, UnloadNoPacket, Crash, ctlvars, decvars, ctxvars, presvars, AloneInv, Live, NoPointers
<1> QED
  BY <1>1, <1>2, <1>3, <1>4, <1>5, AloneLoadOpen, AloneStartPresenter, AloneCreatePresq, AloneUnloadFree
  DEF Decoder

\* What a presenter does to itself, and that it leaves the others alone.
LEMMA PresenterSelf ==
  ASSUME TypeInv, NEW p \in Loads, Presenter(p)
  PROVE  /\ \A q \in Loads : q # p => ppc'[q] = ppc[q] /\ waits'[q] = waits[q]
         /\ Live(p)
         /\ \/ Live(p)' /\ dpc' = dpc
               /\ (waits'[p] = waits[p] \/ \E s \in Streams : waits'[p] = ptr[s] /\ ptr[s] # 0)
            \/ ~Live(p)' /\ dpc = "u_stop" /\ dpc' = "u_free" /\ waits'[p] = p
<1>1. /\ ppc \in [Loads -> PresenterPcs] /\ waits \in [Loads -> Loads]
  BY DEF TypeInv, TypeOK
<1>2. CASE Crash
  <2>1. UNCHANGED <<dpc, ppc, waits>>
    BY <1>2 DEF Crash, presvars
  <2>2. Live(p)
    BY DEF Presenter, Poll, TakePicture, WaitSample, TakeSample, SendStop, Show, Live
  <2> QED
    BY <2>1, <2>2 DEF Live
<1>3. CASE Poll(p) /\ dpc = "u_stop" /\ ~Crash
  BY <1>1, <1>3 DEF Poll, Live
<1>4. ASSUME NEW s \in Streams, WaitIn(p, s), ~Crash, ppc[p] \in {"poll", "picture"}
      PROVE  /\ \A q \in Loads : q # p => ppc'[q] = ppc[q] /\ waits'[q] = waits[q]
             /\ Live(p) /\ Live(p)' /\ dpc' = dpc
             /\ waits'[p] = ptr[s] /\ ptr[s] # 0
  <2>1. /\ ppc' = [ppc EXCEPT ![p] = s] /\ waits' = [waits EXCEPT ![p] = ptr[s]]
        /\ ptr[s] # 0 /\ dpc' = dpc
    BY <1>4 DEF WaitIn
  <2>2. s # "off" /\ s # "done"
    BY DEF Streams
  <2> QED
    BY <1>1, <1>4, <2>1, <2>2 DEF Live
<1>5. CASE Poll(p) /\ dpc # "u_stop" /\ ~Crash
  <2>1. WaitIn(p, Wants(p)) /\ Wants(p) \in Streams /\ ppc[p] = "poll"
    BY <1>5 DEF Poll, Wants, Streams
  <2> QED
    BY <1>4, <1>5, <2>1
<1>6. CASE WaitSample(p) /\ ~Crash
  <2>1. WaitIn(p, "audio") /\ "audio" \in Streams /\ ppc[p] = "picture"
    BY <1>6 DEF WaitSample, Streams
  <2> QED
    BY <1>4, <1>6, <2>1
<1>7. CASE (TakePicture(p) \/ TakeSample(p) \/ SendStop(p) \/ Show(p)) /\ ~Crash
  <2>1. /\ \E s \in {"picture", "stop", "show", "poll"} : ppc' = [ppc EXCEPT ![p] = s]
        /\ ppc[p] \in {"video", "audio", "stop", "show"}
        /\ UNCHANGED <<dpc, waits>>
    BY <1>7 DEF TakePicture, TakeSample, SendStop, Show
  <2> QED
    BY <1>1, <2>1 DEF Live
<1> QED
  BY <1>2, <1>3, <1>5, <1>6, <1>7 DEF Presenter

LEMMA AlonePresenter ==
  ASSUME TypeInv, AloneInv, NEW p \in Loads, Presenter(p)
  PROVE  AloneInv'
<1>1. UNCHANGED <<rstate, load, ready, ptr, freed>> /\ (dpc' = dpc \/ (dpc = "u_stop" /\ dpc' = "u_free"))
  BY PresenterFrame
<1>2. Live(p) /\ p = load /\ waits[p] = load
  BY PresenterSelf DEF AloneInv
<1>3. \A q \in Loads : q # p => ~Live(q) /\ ~Live(q)' /\ waits'[q] = q
  BY <1>2, PresenterSelf DEF AloneInv, Live
<1>4. \A s \in Streams : ptr[s] \in {0, load}
  BY DEF AloneInv, Streams
<1>5. /\ Live(p)' => waits'[p] = load /\ dpc' = dpc
      /\ ~Live(p)' => waits'[p] = p
  BY <1>2, <1>4, PresenterSelf
<1>6. dpc' \in LoadPcs <=> dpc \in LoadPcs
  BY <1>1 DEF LoadPcs
<1>7. \A q \in Loads : ~Live(q)' => waits'[q] = q
  BY <1>3, <1>5
<1>8. \A q \in Loads : Live(q)' =>
        /\ q = load /\ waits'[q] = load /\ ptr["audio"] = load
        /\ rstate \notin {"STOP", "EXIT"} /\ (rstate = "LOAD" => dpc' = "l_presq")
        /\ dpc' # "u_free"
  BY <1>2, <1>3, <1>5 DEF AloneInv
<1>9. NoPointers' <=> NoPointers
  BY <1>1 DEF NoPointers
<1> QED
  BY <1>1, <1>6, <1>7, <1>8, <1>9 DEF AloneInv

LEMMA AloneInit == Init => AloneInv
BY DEF Init, AloneInv, Live, NoPointers

LEMMA AloneStep ==
  ASSUME ~AllocErrors
  PROVE  TypeInv /\ AloneInv /\ LoopInRun /\ LoopInRun' /\ [Next]_vars => AloneInv'
<1> SUFFICES ASSUME TypeInv, AloneInv, LoopInRun, LoopInRun', [Next]_vars
             PROVE  AloneInv'
  OBVIOUS
<1>1. CASE Request \/ Accept
  BY <1>1 DEF Request, Accept, decvars, ctxvars, presvars, AloneInv, Live, NoPointers
<1>2. CASE Decoder
  BY <1>2, AloneDecoder
<1>3. ASSUME NEW p \in Loads, Presenter(p)
      PROVE  AloneInv'
  BY <1>3, AlonePresenter
<1>4. CASE UNCHANGED vars
  BY <1>4 DEF vars, ctlvars, decvars, ctxvars, presvars, AloneInv, Live, NoPointers
<1> QED
  BY <1>1, <1>2, <1>3, <1>4 DEF Next

\* As long as no decoding error occurs, whatever else does.
LEMMA AloneInvariant ==
  ASSUME ~AllocErrors
  PROVE  Spec /\ []LoopInRun => []AloneInv
BY AloneInit, AloneStep, TypeInvariant, PTL DEF Spec

LEMMA AloneGives ==
  ASSUME TypeInv, AloneInv
  PROVE  OnePresenter /\ NoFreedQueue /\ StoppedClean
<1>1. OnePresenter
  <2> DEFINE S == {p \in Loads : Live(p)}
  <2>1. S \subseteq {load}
    BY DEF AloneInv
  <2>2. IsFiniteSet({load}) /\ Cardinality({load}) = 1
    BY FS_Singleton
  <2>3. IsFiniteSet(S) /\ Cardinality(S) <= Cardinality({load})
    BY <2>1, <2>2, FS_Subset
  <2> QED
    BY <2>2, <2>3 DEF OnePresenter
<1>2. NoFreedQueue
  <2> SUFFICES ASSUME NEW p \in Loads, ppc[p] \in Streams, <<ppc[p], waits[p]>> \in freed
               PROVE  FALSE
    BY DEF NoFreedQueue
  <2>1. Live(p)
    BY DEF Live, Streams
  <2>2. p = load /\ waits[p] = load /\ ptr["audio"] = load /\ load # 0
    BY <2>1 DEF AloneInv, Loads
  <2>3. NoPointers
    BY <2>2 DEF AloneInv
  <2> QED
    BY <2>2, <2>3 DEF NoPointers
<1>3. StoppedClean
  <2> SUFFICES ASSUME rstate = "STOP"
               PROVE  (\A p \in Loads : ~Live(p)) /\ ptr = [x \in DOMAIN ptr |-> 0]
    BY DEF StoppedClean
  <2>1. dpc \notin LoadPcs
    BY DEF TypeInv, Places
  <2>2. (\A p \in Loads : ~Live(p)) /\ NoPointers
    BY <2>1 DEF AloneInv
  <2> QED
    BY <2>2 DEF NoPointers, TypeInv, TypeOK
<1> QED
  BY <1>1, <1>2, <1>3

\* With clean runs the loop of state_run stays in RUN.
LEMMA CleanLoop ==
  ASSUME CleanRuns
  PROVE  Spec => []LoopInRun
<1> DEFINE Inv == /\ LoopInRun /\ ~drained /\ FirstStream \notin input
<1>1. Init => Inv
  BY DEF Init, LoopInRun, RunPcs
<1>2. TypeInv /\ Inv /\ [Next]_vars => Inv'
  <2> SUFFICES ASSUME TypeInv, Inv, [Next]_vars
               PROVE  Inv'
    OBVIOUS
  <2>1. CASE Request \/ Accept
    BY <2>1 DEF Request, Accept, decvars, ctxvars, LoopInRun
  <2>2. CASE AwaitCommand \/ RunPoll \/ EofWait
    <3>1. UNCHANGED <<drained, input>>
      BY <2>2 DEF AwaitCommand, RunPoll, EofWait, ReadCmd, decvars, ctxvars
    <3>2. dpc' # "dispatch" => rstate' = rstate /\ rstate = "RUN"
      BY <2>2 DEF AwaitCommand, RunPoll, EofWait, ReadCmd, In, At, LoopInRun, RunPcs, ctlvars
    <3> QED
      BY <3>1, <3>2 DEF LoopInRun, RunPcs
  <2>3. CASE LoadOpen
    <3>1. dpc' \in {"dispatch", "l_audio"}
      BY <2>3 DEF LoadOpen, In, At
    <3>2. input' \in StreamSets \/ input' = input
      BY <2>3 DEF LoadOpen
    <3>3. ~drained'
      <4>1. drained' = FALSE \/ drained' = drained
        BY <2>3 DEF LoadOpen
      <4> QED
        BY <4>1
    <3>4. FirstStream \notin input'
      BY <3>2 DEF CleanRuns
    <3>5. LoopInRun'
      BY <3>1 DEF LoopInRun, RunPcs
    <3> QED
      BY <3>3, <3>4, <3>5
  <2>4. CASE StartPresenter \/ CreatePresq
    BY <2>4 DEF StartPresenter, CreatePresq, decvars, LoopInRun, RunPcs
  <2>5. CASE RunRead \/ SendFrame \/ EofEos
    BY <2>5 DEF RunRead, Crash, SendFrame, EofEos, SendEos, At, ctlvars, decvars, ctxvars, LoopInRun, RunPcs
  <2>6. CASE RecvNoFrame \/ RecvFrame
    BY <2>6 DEF RecvNoFrame, Crash, ctlvars, decvars, RecvFrame, At, ctxvars, LoopInRun, RunPcs, CleanRuns
  <2>7. CASE WriteStale
    BY <2>7 DEF WriteStale, At, ctlvars, ctxvars, LoopInRun, RunPcs
  <2>8. CASE UnloadEos \/ UnloadSendul \/ UnloadNoPacket \/ UnloadFree
    BY <2>8 DEF UnloadEos, UnloadSendul, UnloadNoPacket, UnloadFree, SendEos, Crash, Release, At, In,
                ctlvars, decvars, ctxvars, LoopInRun, RunPcs
  <2>9. CASE Toggle \/ Exit
    BY <2>9 DEF Toggle, Exit, In, At, ctlvars, decvars, ctxvars, LoopInRun, RunPcs
  <2>10. ASSUME NEW p \in Loads, Presenter(p)
         PROVE  Inv'
    <3>1. /\ UNCHANGED <<rstate, drained, input>>
          /\ dpc' = dpc \/ dpc' = "u_free"
      BY <2>10, PresenterFrame
    <3> QED
      BY <3>1 DEF LoopInRun, RunPcs
  <2>11. CASE UNCHANGED vars
    BY <2>11 DEF vars, ctlvars, decvars, ctxvars, LoopInRun
  <2> QED
    BY <2>1, <2>2, <2>3, <2>4, <2>5, <2>6, <2>7, <2>8, <2>9, <2>10, <2>11 DEF Next, Decoder
<1> QED
  BY <1>1, <1>2, TypeInvariant, PTL DEF Spec

\* As long as no decoding error occurs, and whatever fails in loading (but not
\* the packet's and the frame's allocation in one), at most one presenter lives,
\* however the commands interleave with the end of the stream, the loads and the
\* unloads.
THEOREM OnePresenterLives ==
  ASSUME ~AllocErrors
  PROVE  Spec /\ []LoopInRun => []OnePresenter
BY AloneGives, AloneInvariant, TypeInvariant, PTL

\* ... no presenter waits in a queue that state_unload has freed ...
THEOREM NoFreedQueueIsUsed ==
  ASSUME ~AllocErrors
  PROVE  Spec /\ []LoopInRun => []NoFreedQueue
BY AloneGives, AloneInvariant, TypeInvariant, PTL

\* ... and in STOP nothing of the playback is left: no thread and no pointer.
THEOREM StopLeavesNothing ==
  ASSUME ~AllocErrors
  PROVE  Spec /\ []LoopInRun => []StoppedClean
BY AloneGives, AloneInvariant, TypeInvariant, PTL

\* The three together for inputs whose decoders never fail: the premise of the
\* three theorems is then no premise.
THEOREM CleanRunsAreAlone ==
  ASSUME CleanRuns
  PROVE  Spec => [](OnePresenter /\ NoFreedQueue /\ StoppedClean)
<1>1. ~AllocErrors
  BY DEF CleanRuns
<1> QED
  BY <1>1, CleanLoop, AloneGives, AloneInvariant, TypeInvariant, PTL

-----------------------------------------------------------------------------
(* The backend is one of those the control core describes *)

Sender == {"server", "window", "presenter"}

\* The presenter whose end of stream is being told to the decoder.
Stopping == \E p \in Loads : ppc[p] = "stop"

\* The core's copy of the command table is the table.
LEMMA SameTable == \A c, s : RC!Transition(c, s) = Transition(c, s)
BY DEF RC!Transition, RC!Row, RC!ReadingStates, RC!Straight, RC!StopRow, RC!PlayRow, RC!PauseRow,
       RC!QuitRow, RC!ErrRow, RC!KeepRow,
       Transition, Row, ReadingStates, Straight, StopRow, PlayRow, PauseRow, QuitRow, ErrRow, KeepRow

\* The command queue of the core is the image of the backend's.
LEMMA QueueImage ==
  ASSUME NEW q \in Seq(CommandNames)
  PROVE  /\ [i \in DOMAIN q |-> ControlCommand(q[i])] \in Seq({ControlCommand(c) : c \in CommandNames})
         /\ Len([i \in DOMAIN q |-> ControlCommand(q[i])]) = Len(q)
         /\ \A k \in 1 .. Len(q) : [i \in DOMAIN q |-> ControlCommand(q[i])][k] = ControlCommand(q[k])
<1>1. DOMAIN q = 1 .. Len(q) /\ Len(q) \in Nat
  OBVIOUS
<1>2. \A i \in 1 .. Len(q) : q[i] \in CommandNames
  OBVIOUS
<1> QED
  BY <1>1, <1>2

LEMMA QueueAppend ==
  ASSUME TypeOK, TypeOK', NEW c \in CommandNames, cmdq' = Append(cmdq, c)
  PROVE  ControlQueue' = Append(ControlQueue, ControlCommand(c))
<1> DEFINE n == Len(cmdq)
           S == {ControlCommand(d) : d \in CommandNames}
           a == Append(ControlQueue, ControlCommand(c))
<1>1. n \in Nat /\ cmdq \in Seq(CommandNames)
  BY DEF TypeOK
<1>2. Len(cmdq') = n + 1 /\ (\A i \in 1 .. n : cmdq'[i] = cmdq[i]) /\ cmdq'[n + 1] = c
  BY <1>1
<1>3. /\ Len(ControlQueue) = n /\ ControlQueue \in Seq(S)
      /\ \A i \in 1 .. n : ControlQueue[i] = ControlCommand(cmdq[i])
  BY <1>1, QueueImage DEF ControlQueue
<1>4. /\ Len(ControlQueue') = n + 1 /\ ControlQueue' \in Seq(S)
      /\ \A i \in 1 .. n + 1 : ControlQueue'[i] = ControlCommand(cmdq'[i])
  <2>1. /\ ControlQueue' \in Seq(S) /\ Len(ControlQueue') = Len(cmdq')
        /\ \A i \in 1 .. Len(cmdq') : ControlQueue'[i] = ControlCommand(cmdq'[i])
    <3>1. cmdq' \in Seq(CommandNames)
      BY DEF TypeOK
    <3> QED
      BY <3>1, QueueImage DEF ControlQueue
  <2> QED
    BY <1>2, <2>1
<1>5. ControlCommand(c) \in S
  OBVIOUS
<1> HIDE DEF S
<1>6. /\ a \in Seq(S) /\ Len(a) = n + 1 /\ a[n + 1] = ControlCommand(c)
      /\ \A i \in 1 .. n : a[i] = ControlQueue[i]
  BY <1>1, <1>3, <1>5
<1>7. \A i \in 1 .. n + 1 : ControlQueue'[i] = a[i]
  <2> SUFFICES ASSUME NEW i \in 1 .. n + 1 PROVE ControlQueue'[i] = a[i]
    OBVIOUS
  <2>1. i \in 1 .. n \/ i = n + 1
    BY <1>1
  <2> HIDE DEF a, n
  <2> QED
    BY <1>2, <1>3, <1>4, <1>6, <2>1
<1> HIDE DEF a, n
<1> QED
  BY <1>4, <1>6, <1>7, SeqEqual DEF a

LEMMA QueueTail ==
  ASSUME TypeOK, TypeOK', cmdq # <<>>, cmdq' = Tail(cmdq)
  PROVE  /\ ControlQueue # <<>>
         /\ Head(ControlQueue) = ControlCommand(Head(cmdq))
         /\ ControlQueue' = Tail(ControlQueue)
<1> DEFINE n == Len(cmdq)
           S == {ControlCommand(d) : d \in CommandNames}
           t == Tail(ControlQueue)
<1>1. n \in Nat \ {0} /\ cmdq \in Seq(CommandNames)
  BY DEF TypeOK
<1>2. Len(cmdq') = n - 1 /\ (\A i \in 1 .. n - 1 : cmdq'[i] = cmdq[i + 1]) /\ Head(cmdq) = cmdq[1]
  BY <1>1
<1>3. /\ Len(ControlQueue) = n /\ ControlQueue \in Seq(S)
      /\ \A i \in 1 .. n : ControlQueue[i] = ControlCommand(cmdq[i])
  BY <1>1, QueueImage DEF ControlQueue
<1>4. ControlQueue # <<>> /\ Head(ControlQueue) = ControlCommand(Head(cmdq))
  BY <1>1, <1>2, <1>3
<1>5. /\ Len(ControlQueue') = n - 1 /\ ControlQueue' \in Seq(S)
      /\ \A i \in 1 .. n - 1 : ControlQueue'[i] = ControlCommand(cmdq'[i])
  <2>1. /\ ControlQueue' \in Seq(S) /\ Len(ControlQueue') = Len(cmdq')
        /\ \A i \in 1 .. Len(cmdq') : ControlQueue'[i] = ControlCommand(cmdq'[i])
    <3>1. cmdq' \in Seq(CommandNames)
      BY DEF TypeOK
    <3> QED
      BY <3>1, QueueImage DEF ControlQueue
  <2> QED
    BY <1>2, <2>1
<1> HIDE DEF S
<1>6. t \in Seq(S) /\ Len(t) = n - 1 /\ \A i \in 1 .. n - 1 : t[i] = ControlQueue[i + 1]
  BY <1>1, <1>3, <1>4, HeadTailProperties
<1>7. \A i \in 1 .. n - 1 : ControlQueue'[i] = t[i]
  <2> SUFFICES ASSUME NEW i \in 1 .. n - 1 PROVE ControlQueue'[i] = t[i]
    OBVIOUS
  <2>1. i + 1 \in 1 .. n
    BY <1>1
  <2> HIDE DEF t, n
  <2> QED
    BY <1>2, <1>3, <1>5, <1>6, <2>1
<1> HIDE DEF t, n
<1>8. ControlQueue' = t
  BY <1>5, <1>6, <1>7, SeqEqual
<1> QED
  BY <1>4, <1>8 DEF t

\* What the core sees in the outboxes.
Waiting(box) == [i \in DOMAIN box |-> ControlCommand(box[i])]

LEMMA WaitingImage ==
  /\ Waiting(<<>>) = <<>>
  /\ \A c \in CommandNames : Waiting(<<c>>) = <<ControlCommand(c)>>
<1>1. Waiting(<<>>) = <<>>
  BY DEF Waiting
<1>2. ASSUME NEW c \in CommandNames
      PROVE  Waiting(<<c>>) = <<ControlCommand(c)>>
  <2> DEFINE S == {ControlCommand(d) : d \in CommandNames}
  <2>1. <<c>> \in Seq(CommandNames) /\ Len(<<c>>) = 1 /\ <<c>>[1] = c
    OBVIOUS
  <2>2. Waiting(<<c>>) \in Seq(S) /\ Len(Waiting(<<c>>)) = 1 /\ Waiting(<<c>>)[1] = ControlCommand(c)
    BY <2>1, QueueImage DEF Waiting
  <2>3. <<ControlCommand(c)>> \in Seq(S) /\ Len(<<ControlCommand(c)>>) = 1
        /\ <<ControlCommand(c)>>[1] = ControlCommand(c)
    OBVIOUS
  <2> HIDE DEF S
  <2> QED
    BY <2>2, <2>3, SeqEqual
<1> QED
  BY <1>1, <1>2

LEMMA OutboxImage ==
  /\ ControlOutbox = [s \in Sender |-> IF s = "server" THEN Waiting(userbox)
                                        ELSE IF s = "presenter" /\ Stopping THEN <<ControlCommand("STOP")>>
                                        ELSE <<>>]
  /\ ControlOutbox' = [s \in Sender |-> IF s = "server" THEN Waiting(userbox')
                                         ELSE IF s = "presenter" /\ Stopping' THEN <<ControlCommand("STOP")>>
                                         ELSE <<>>]
BY DEF ControlOutbox, Waiting, Sender, Stopping

\* A step that the core does not see.
LEMMA CoreStutter ==
  ASSUME UNCHANGED <<rstate, cmdq, userbox, ready>>, Stopping' <=> Stopping,
         proc' = "exited" <=> proc = "exited"
  PROVE  UNCHANGED RC!vars
<1>1. UNCHANGED ControlQueue
  BY DEF ControlQueue
<1>2. UNCHANGED ControlOutbox
  BY OutboxImage
<1> QED
  BY <1>1, <1>2 DEF RC!vars

LEMMA CoreRequest ==
  ASSUME TypeInv, Request
  PROVE  RC!Environment
<1>1. proc = "up" /\ userbox = <<>> /\ UNCHANGED <<rstate, cmdq, ready, proc, ppc>>
  BY DEF Request, ctxvars, presvars
<1>2. PICK c \in CommandNames : userbox' = <<c>>
  BY FfmpegAssumption DEF Request
<1>3. PICK w \in {"put", "play", "pause", "stop", "quit", "seek", "vol", "err", "none"} : RC!CommandOf(w) = c
  BY <1>2 DEF RC!CommandOf, CommandNames
<1>4. /\ ControlOutbox["server"] = <<>>
      /\ ControlOutbox' = [ControlOutbox EXCEPT !["server"] = <<ControlCommand(c)>>]
  <2>1. Stopping' <=> Stopping
    BY <1>1 DEF Stopping
  <2> QED
    BY <1>1, <1>2, <2>1, OutboxImage, WaitingImage DEF Sender
<1>5. UNCHANGED ControlQueue
  BY <1>1 DEF ControlQueue
<1>6. RC!Compose("server", ControlCommand(c))
  BY <1>1, <1>4, <1>5 DEF RC!Compose
<1>7. RC!SrvWrite(w, "nil")
  BY <1>3, <1>6 DEF RC!SrvWrite, ControlCommand
<1> QED
  BY <1>7 DEF RC!Environment, RC!MaybeUrl

\* A command leaves its outbox and joins the queue.
LEMMA CoreSend ==
  ASSUME TypeOK, TypeOK', NEW s \in Sender, NEW c \in CommandNames, proc = "up", Len(cmdq) < CmdqSize,
         ControlOutbox[s] = <<ControlCommand(c)>>,
         ControlOutbox' = [ControlOutbox EXCEPT ![s] = <<>>],
         cmdq' = Append(cmdq, c), UNCHANGED <<rstate, ready, proc>>
  PROVE  RC!Next
<1>1. Len(ControlQueue) < CmdqSize
  BY QueueImage DEF ControlQueue, TypeOK
<1>2. ControlQueue' = Append(ControlQueue, ControlCommand(c))
  BY QueueAppend
<1>3. [ControlCommand(c) EXCEPT !.named = "nil"] = ControlCommand(c) /\ ControlCommand(c).named = "nil"
  <2> DEFINE d == ControlCommand(c)
  <2>1. /\ d \in [cmd : CommandNames, arg : {"nil"}, literal : {FALSE}, named : {"nil"}]
        /\ d.named = "nil"
    BY DEF ControlCommand
  <2> HIDE DEF d
  <2>2. [d EXCEPT !.named = "nil"] = d
    BY <2>1
  <2> QED
    BY <2>1, <2>2 DEF d
<1>4. ControlOutbox[s] # <<>> /\ ControlOutbox[s][1] = ControlCommand(c)
  OBVIOUS
<1>5. RC!Send(s)
  BY <1>1, <1>2, <1>3, <1>4 DEF RC!Send
<1>6. s \in RC!Senders
  BY DEF RC!Senders, Sender
<1> QED
  BY <1>5, <1>6 DEF RC!Next

LEMMA CoreReadCmd ==
  ASSUME TypeOK, TypeOK', NEW keep, proc = "up", rstate \in ReadingStates, ReadCmd(keep)
  PROVE  RC!Next
<1>1. /\ cmdq # <<>> /\ cmdq' = Tail(cmdq) /\ rstate' = Transition(Head(cmdq), rstate)
      /\ UNCHANGED <<userbox, proc, ready, ppc>>
  BY DEF ReadCmd, ctxvars, presvars
<1>2. /\ ControlQueue # <<>> /\ Head(ControlQueue) = ControlCommand(Head(cmdq))
      /\ ControlQueue' = Tail(ControlQueue)
  BY <1>1, QueueTail
<1>3. UNCHANGED ControlOutbox
  BY <1>1, OutboxImage DEF Stopping
<1>4. rstate \in RC!ReadingStates
  BY DEF RC!ReadingStates, ReadingStates
<1>5. rstate' = RC!Transition(Head(ControlQueue).cmd, rstate)
  BY <1>1, <1>2, SameTable DEF ControlCommand
<1>6. ~Head(ControlQueue).literal /\ RC!UrlAfter(Head(ControlQueue)) = "nil"
  BY <1>2 DEF ControlCommand, RC!UrlAfter
<1>7. RC!ReadCmd
  BY <1>1, <1>2, <1>3, <1>4, <1>5, <1>6 DEF RC!ReadCmd
<1> QED
  BY <1>7 DEF RC!Next, RC!Decoder

LEMMA CoreLoad ==
  ASSUME proc = "up", rstate = "LOAD", rstate' = "RUN", ready = "nothing",
         UNCHANGED <<cmdq, userbox, proc>>, Stopping' <=> Stopping
  PROVE  RC!Next
<1>1. UNCHANGED ControlQueue /\ UNCHANGED ControlOutbox
  BY OutboxImage DEF ControlQueue
<1>2. RC!Transition("NONE", "LOAD") = "RUN" /\ RC!Transition("ERR", "LOAD") = "RUN"
  BY SameTable, TransitionStraight
<1>3. RC!Load
  <2>1. CASE ready' # "nothing"
    BY <1>1, <1>2, <2>1 DEF RC!Load
  <2>2. CASE ready' = "nothing"
    BY <1>1, <1>2, <2>2 DEF RC!Load
  <2> QED
    BY <2>1, <2>2
<1> QED
  BY <1>3 DEF RC!Next, RC!Decoder

LEMMA CoreDecoder ==
  ASSUME ~AllocErrors, TypeInv, TypeInv', AloneInv, LoopInRun, LoopInRun', Decoder
  PROVE  RC!Next \/ UNCHANGED RC!vars
<1>1. proc = "up"
  BY DEF Decoder, AwaitCommand, LoadOpen, StartPresenter, CreatePresq, RunPoll, RunRead, RecvNoFrame, RecvFrame,
         SendFrame, EofEos, EofWait, WriteStale, UnloadEos, UnloadSendul, UnloadNoPacket, UnloadFree, Toggle, Exit, In, At
<1>2. ppc' = ppc => (Stopping' <=> Stopping)
  BY DEF Stopping
<1>3. CASE \E keep : ReadCmd(keep) /\ (AwaitCommand \/ RunPoll \/ EofWait)
  <2>1. rstate \in ReadingStates
    BY <1>3 DEF AwaitCommand, RunPoll, EofWait, In, At, LoopInRun, RunPcs, ReadingStates
  <2> QED
    BY <1>1, <1>3, <2>1, CoreReadCmd DEF TypeInv
<1>4. CASE RunPoll /\ cmdq = <<>> /\ UNCHANGED <<ctlvars, proc, ctxvars, presvars>>
  BY <1>2, <1>4, CoreStutter DEF ctlvars, ctxvars, presvars
<1>5. CASE LoadOpen
  <2>1. /\ rstate = "LOAD" /\ dpc = "dispatch" /\ UNCHANGED <<cmdq, userbox, proc, ppc>>
        /\ rstate' = "RUN" \/ UNCHANGED <<rstate, ready>>
    BY <1>5, AllocStep, TransitionStraight DEF LoadOpen, In, At, presvars
  <2>2. ready = "nothing"
    BY <2>1 DEF AloneInv
  <2> QED
    BY <1>1, <1>2, <2>1, <2>2, CoreLoad, CoreStutter
<1>6. CASE StartPresenter
  <2>1. /\ dpc = "l_audio" /\ rstate = "LOAD" /\ ppc' = [ppc EXCEPT ![load] = "poll"] /\ load \in Loads
        /\ UNCHANGED <<rstate, cmdq, userbox, ready, proc>>
    BY <1>6 DEF StartPresenter, At, ctlvars, TypeInv, TypeOK, Places, LoadPcs, Loads
  <2>2. \A p \in Loads : ~Live(p)
    BY <2>1 DEF AloneInv
  <2>3. ~Stopping /\ ~Stopping'
    <3>1. \A p \in Loads : ppc'[p] = IF p = load THEN "poll" ELSE ppc[p]
      BY <2>1 DEF TypeInv, TypeOK
    <3> QED
      BY <2>2, <3>1 DEF Stopping, Live
  <2> QED
    BY <2>1, <2>3, CoreStutter
<1>7. CASE CreatePresq
  <2>1. /\ rstate = "LOAD" /\ rstate' = "RUN" /\ UNCHANGED <<cmdq, userbox, proc, ppc>>
    BY <1>7, AllocStep, TransitionStraight DEF CreatePresq, At, presvars, TypeInv, Places, LoadPcs
  <2>2. ready = "nothing"
    BY <2>1 DEF AloneInv
  <2> QED
    BY <1>1, <1>2, <2>1, <2>2, CoreLoad
<1>8. CASE RunRead \/ RecvNoFrame \/ RecvFrame \/ SendFrame \/ EofEos \/ WriteStale
  <2>1. dpc \in RunPcs /\ dpc' \in RunPcs
    BY <1>8 DEF RunRead, Crash, SendFrame, EofEos, SendEos, WriteStale, RecvNoFrame, RecvFrame, At, RunPcs
  <2>2. UNCHANGED rstate
    BY <2>1 DEF LoopInRun
  <2>3. UNCHANGED <<cmdq, userbox, ready, ppc>> /\ proc' \in {proc, "crashed"}
    BY <1>8 DEF RunRead, Crash, SendFrame, EofEos, SendEos, WriteStale, RecvNoFrame, RecvFrame, ctlvars, ctxvars, presvars
  <2> QED
    BY <1>1, <1>2, <2>2, <2>3, CoreStutter
<1>9. CASE UnloadEos \/ UnloadSendul \/ UnloadNoPacket
  <2>1. UNCHANGED <<rstate, cmdq, userbox, ready, ppc>> /\ proc' \in {proc, "crashed"}
    BY <1>9 DEF UnloadEos, SendEos, UnloadSendul, UnloadNoPacket, Crash, ctlvars, ctxvars, presvars
  <2> QED
    BY <1>1, <1>2, <2>1, CoreStutter
<1>10. CASE UnloadFree
  <2>1. /\ rstate = "UNLOAD" /\ rstate' = Transition("NONE", "UNLOAD") /\ ready' = "nothing"
        /\ UNCHANGED <<cmdq, userbox, proc, ppc>>
    BY <1>10 DEF UnloadFree, Release, At, presvars, TypeInv, Places, UnloadPcs
  <2>2. UNCHANGED ControlQueue /\ UNCHANGED ControlOutbox
    BY <1>2, <2>1, OutboxImage DEF ControlQueue
  <2>3. RC!Unload
    BY <1>1, <2>1, <2>2, SameTable DEF RC!Unload
  <2> QED
    BY <2>3 DEF RC!Next, RC!Decoder
<1>11. CASE Toggle
  <2>1. /\ rstate \in {"ENGAGE", "DISENG"} /\ rstate' = Transition("NONE", rstate)
        /\ UNCHANGED <<cmdq, userbox, ready, proc, ppc>>
    BY <1>11 DEF Toggle, In
  <2>2. UNCHANGED ControlQueue /\ UNCHANGED ControlOutbox
    BY <1>2, <2>1, OutboxImage DEF ControlQueue
  <2>3. RC!Toggle
    BY <1>1, <2>1, <2>2, SameTable DEF RC!Toggle
  <2> QED
    BY <2>3 DEF RC!Next, RC!Decoder
<1>12. CASE Exit
  <2>1. rstate = "EXIT" /\ proc' = "exited" /\ UNCHANGED <<rstate, cmdq, userbox, ready, ppc>>
    BY <1>12 DEF Exit, In, ctlvars, ctxvars, presvars
  <2>2. UNCHANGED ControlQueue /\ UNCHANGED ControlOutbox
    BY <1>2, <2>1, OutboxImage DEF ControlQueue
  <2>3. RC!Exit
    BY <1>1, <2>1, <2>2 DEF RC!Exit
  <2> QED
    BY <2>3 DEF RC!Next, RC!Decoder
<1>13. CASE AwaitCommand \/ RunPoll \/ EofWait
  BY <1>3, <1>4, <1>13 DEF AwaitCommand, RunPoll, EofWait
<1> QED
  BY <1>5, <1>6, <1>7, <1>8, <1>9, <1>10, <1>11, <1>12, <1>13 DEF Decoder

LEMMA CorePresenter ==
  ASSUME TypeInv, TypeInv', AloneInv, NEW p \in Loads, Presenter(p)
  PROVE  RC!Next \/ UNCHANGED RC!vars
<1>1. /\ proc = "up" /\ ppc \in [Loads -> PresenterPcs]
      /\ UNCHANGED <<rstate, userbox, ready>> /\ proc' \in {proc, "crashed"}
  BY PresenterFrame
  DEF Presenter, Poll, TakePicture, WaitSample, TakeSample, SendStop, Show, TypeInv, TypeOK
<1>2. \A q \in Loads : q # p => ~Live(q) /\ ~Live(q)'
  <2>1. Live(p) /\ p = load
    BY PresenterSelf DEF AloneInv
  <2> QED
    BY <2>1, PresenterSelf DEF AloneInv, Live
<1>3. (Stopping <=> ppc[p] = "stop") /\ (Stopping' <=> ppc'[p] = "stop")
  BY <1>2 DEF Stopping, Live
<1>4. CASE ppc[p] # "stop" /\ ppc'[p] # "stop"
  <2>1. UNCHANGED cmdq
    BY <1>4 DEF Presenter, Poll, WaitIn, TakePicture, WaitSample, TakeSample, SendStop, Show, Crash, ctlvars
  <2> QED
    BY <1>1, <1>3, <1>4, <2>1, CoreStutter
<1>5. CASE ppc[p] # "stop" /\ ppc'[p] = "stop"
  <2>1. UNCHANGED <<cmdq, proc>>
    <3>1. ~Crash
      BY <1>5 DEF Crash, presvars
    <3>2. CASE TakeSample(p)
      BY <3>1, <3>2 DEF TakeSample, ctlvars
    <3>3. CASE Poll(p) \/ WaitSample(p)
      <4>1. WaitIn(p, "audio") \/ WaitIn(p, "video") \/ ppc' = [ppc EXCEPT ![p] = "done"]
        BY <3>1, <3>3 DEF Poll, Wants, WaitSample
      <4>2. ppc'[p] \in {"audio", "video", "done"}
        BY <1>1, <3>1, <4>1 DEF WaitIn
      <4> QED
        BY <1>5, <4>2
    <3>4. CASE TakePicture(p) \/ SendStop(p) \/ Show(p)
      BY <1>1, <1>5, <3>1, <3>4 DEF TakePicture, SendStop, Show
    <3> QED
      BY <3>2, <3>3, <3>4 DEF Presenter
  <2>2. UNCHANGED ControlQueue
    BY <2>1 DEF ControlQueue
  <2>3. /\ ControlOutbox["presenter"] = <<>>
        /\ ControlOutbox' = [ControlOutbox EXCEPT !["presenter"] = <<ControlCommand("STOP")>>]
    BY <1>1, <1>3, <1>5, OutboxImage DEF Sender
  <2>4. RC!PresenterStop("presenter")
    BY <1>1, <2>1, <2>2, <2>3 DEF RC!PresenterStop, RC!Compose, RC!Bare, ControlCommand
  <2> QED
    BY <2>4 DEF RC!Next, RC!Environment
<1>6. CASE ppc[p] = "stop"
  <2>1. SendStop(p)
    BY <1>6 DEF Presenter, Poll, TakePicture, WaitSample, TakeSample, Show
  <2>2. /\ cmdq' = Append(cmdq, "STOP") /\ Len(cmdq) < CmdqSize /\ proc' = proc
        /\ ppc'[p] = "poll"
    BY <1>1, <2>1 DEF SendStop
  <2>3. /\ ControlOutbox["presenter"] = <<ControlCommand("STOP")>>
        /\ ControlOutbox' = [ControlOutbox EXCEPT !["presenter"] = <<>>]
    BY <1>1, <1>3, <1>6, <2>2, OutboxImage DEF Sender
  <2>4. "STOP" \in CommandNames /\ "presenter" \in Sender
    BY DEF CommandNames, Sender
  <2> QED
    BY <1>1, <2>2, <2>3, <2>4, CoreSend DEF TypeInv
<1> QED
  BY <1>4, <1>5, <1>6

LEMMA CoreInit == Init => RC!Init
<1> SUFFICES ASSUME Init PROVE RC!Init
  OBVIOUS
<1>1. cmdq = <<>> /\ userbox = <<>> /\ ready = "nothing" /\ ~Stopping /\ rstate = "STOP" /\ proc = "up"
  BY DEF Init, Stopping
<1>2. ControlQueue = <<>>
  BY <1>1 DEF ControlQueue
<1>3. ControlOutbox = [s \in RC!Senders |-> <<>>]
  BY <1>1, OutboxImage, WaitingImage DEF RC!Senders, Sender
<1> QED
  BY <1>1, <1>2, <1>3 DEF RC!Init, RC!MaybeUrl

LEMMA CoreStep ==
  ASSUME ~AllocErrors
  PROVE  TypeInv /\ TypeInv' /\ AloneInv /\ LoopInRun /\ LoopInRun' /\ [Next]_vars => [RC!Next]_RC!vars
<1> SUFFICES ASSUME TypeInv, TypeInv', AloneInv, LoopInRun, LoopInRun', [Next]_vars
             PROVE  RC!Next \/ UNCHANGED RC!vars
  OBVIOUS
<1>1. CASE Request
  BY <1>1, CoreRequest DEF RC!Next
<1>2. CASE Accept
  <2>1. /\ proc = "up" /\ userbox # <<>> /\ Len(cmdq) < CmdqSize
        /\ cmdq' = Append(cmdq, userbox[1]) /\ userbox' = <<>>
        /\ UNCHANGED <<rstate, ready, proc, ppc>>
    BY <1>2 DEF Accept, ctxvars, presvars
  <2>2. PICK c \in CommandNames : userbox = <<c>>
    BY <2>1, FfmpegAssumption DEF TypeInv, TypeOK
  <2>3. /\ ControlOutbox["server"] = <<ControlCommand(c)>>
        /\ ControlOutbox' = [ControlOutbox EXCEPT !["server"] = <<>>]
    <3>1. Stopping' <=> Stopping
      BY <2>1 DEF Stopping
    <3> QED
      BY <2>1, <2>2, <3>1, OutboxImage, WaitingImage DEF Sender
  <2>4. userbox[1] = c /\ "server" \in Sender
    BY <2>2 DEF Sender
  <2> QED
    BY <2>1, <2>3, <2>4, CoreSend DEF TypeInv
<1>3. CASE Decoder
  BY <1>3, CoreDecoder
<1>4. ASSUME NEW p \in Loads, Presenter(p)
      PROVE  RC!Next \/ UNCHANGED RC!vars
  BY <1>4, CorePresenter
<1>5. CASE UNCHANGED vars
  <2>1. UNCHANGED <<rstate, cmdq, userbox, ready, ppc, proc>>
    BY <1>5 DEF vars, ctlvars, ctxvars, presvars
  <2> QED
    BY <2>1, CoreStutter DEF Stopping
<1> QED
  BY <1>1, <1>2, <1>3, <1>4, <1>5 DEF Next

\* As long as no decoding error occurs, whatever fails in loading and however
\* the two threads and the users interleave, render.c with render_ffmpeg.c is
\* an instance of the control core, so what is proved of every backend holds of
\* it: no stream is loaded over another, none is left open, and each command is
\* obeyed in its turn.
THEOREM FfmpegImplementsControl ==
  ASSUME ~AllocErrors
  PROVE  Spec /\ []LoopInRun => ImplementsControl
BY CoreInit, CoreStep, AloneInvariant, TypeInvariant, PTL DEF Spec, ImplementsControl, RC!Spec

\* In particular if no decoder ever fails.
THEOREM CleanRunsImplementControl ==
  ASSUME CleanRuns
  PROVE  Spec => ImplementsControl
<1>1. ~AllocErrors
  BY DEF CleanRuns
<1> QED
  BY <1>1, CleanLoop, FfmpegImplementsControl, PTL

-----------------------------------------------------------------------------
(* The end of the stream comes last *)

\* Stream 0 is not an audio stream that is played. (If it is, the stale packet
\* drains its decoder and frames follow the end of the stream.)
NoStaleAudio == \A new \in StreamSets : FirstStream = "audio" => "audio" \notin new

EosLast(q) == \A i, j \in 1 .. Len(q) : i < j /\ q[i] = "eos" => q[j] = "eos"
NoEos(q)   == \A i \in 1 .. Len(q) : q[i] # "eos"
NoFrame(q) == \A i \in DOMAIN q : q[i] # "frame"

\* The decoder may yet put an audio frame into the queue rctx points to.
Decoding ==
  /\ dpc \notin {"l_audio", "u_sendul", "u_stop", "u_free"}
  /\ \/ "audio" \in input /\ ~eof
     \/ dpc \in {"recv", "send", "send_last"} /\ codec = "audio"

\* The queue of load k is not in use yet.
Untouched(k) == k > load \/ (k = load /\ dpc = "l_audio")

\* In an audio queue the end of the stream is followed by no frame, and it has
\* not come while the decoder may yet put one there.
EosInv ==
  /\ \A k \in Loads : EosLast(queue[k]["audio"])
  /\ \A p \in Loads : ppc[p] = "stop" => NoFrame(queue[waits[p]]["audio"])
  /\ Decoding => /\ NoEos(queue[ptr["audio"]]["audio"])
                 /\ \A p \in Loads : ppc[p] = "stop" => waits[p] # ptr["audio"]
  /\ \A k \in Loads : Untouched(k) =>
       /\ queue[k]["audio"] = <<>> /\ ptr["audio"] # k
       /\ \A p \in Loads : ppc[p] \in {"audio", "stop"} => waits[p] # k
  /\ dpc \in {"eos_video", "eos_audio"} => eof
  /\ FirstStream = "audio" => "audio" \notin input

\* What adding an item to a queue, and taking one, does to the order in it.
LEMMA EosAppend ==
  ASSUME NEW q \in Seq({"frame", "eos"})
  PROVE  /\ EosLast(q) => EosLast(Append(q, "eos"))
         /\ NoFrame(q) => NoFrame(Append(q, "eos"))
         /\ NoEos(q) => NoEos(Append(q, "frame")) /\ EosLast(Append(q, "frame"))
<1> DEFINE n == Len(q)
<1>1. n \in Nat /\ DOMAIN q = 1 .. n
  OBVIOUS
<1>2. ASSUME NEW e \in {"frame", "eos"}
      PROVE  /\ Len(Append(q, e)) = n + 1 /\ DOMAIN Append(q, e) = 1 .. n + 1
             /\ \A i \in 1 .. n + 1 : Append(q, e)[i] = IF i <= n THEN q[i] ELSE e
  <2>1. Append(q, e) \in Seq({"frame", "eos"}) /\ Len(Append(q, e)) = n + 1
    OBVIOUS
  <2>2. \A i \in 1 .. n + 1 : (i <= n => Append(q, e)[i] = q[i]) /\ (i = n + 1 => Append(q, e)[i] = e)
    OBVIOUS
  <2>3. DOMAIN Append(q, e) = 1 .. n + 1
    BY <2>1
  <2> QED
    BY <1>1, <2>1, <2>2, <2>3
<1> HIDE DEF n
<1>3. \A i \in 1 .. n + 1 : i <= n => i \in 1 .. n
  BY <1>1
<1>4. EosLast(q) => EosLast(Append(q, "eos"))
  BY <1>1, <1>2, <1>3 DEF EosLast, n
<1>5. NoFrame(q) => NoFrame(Append(q, "eos"))
  BY <1>1, <1>2, <1>3 DEF NoFrame
<1>6. NoEos(q) => NoEos(Append(q, "frame")) /\ EosLast(Append(q, "frame"))
  BY <1>1, <1>2, <1>3 DEF NoEos, EosLast, n
<1> QED
  BY <1>4, <1>5, <1>6

LEMMA EosTail ==
  ASSUME NEW q \in Seq({"frame", "eos"}), q # <<>>
  PROVE  /\ EosLast(q) => EosLast(Tail(q))
         /\ NoEos(q) => NoEos(Tail(q)) /\ Head(q) # "eos"
         /\ NoFrame(q) => NoFrame(Tail(q))
         /\ EosLast(q) /\ Head(q) = "eos" => NoFrame(Tail(q))
<1> DEFINE n == Len(q)
           t == Tail(q)
<1>1. n \in Nat \ {0} /\ DOMAIN q = 1 .. n /\ Head(q) = q[1]
  OBVIOUS
<1>2. /\ Len(t) = n - 1 /\ DOMAIN t = 1 .. n - 1 /\ \A i \in 1 .. n - 1 : t[i] = q[i + 1]
  OBVIOUS
<1> HIDE DEF n, t
<1>3. /\ \A i \in 1 .. n - 1 : i + 1 \in 1 .. n /\ 1 < i + 1
      /\ \A i, j \in 1 .. n - 1 : i < j => i + 1 < j + 1
      /\ 1 \in 1 .. n
  BY <1>1
<1>4. EosLast(q) => EosLast(t)
  BY <1>2, <1>3 DEF EosLast, n
<1>5. NoEos(q) => NoEos(t) /\ Head(q) # "eos"
  BY <1>1, <1>2, <1>3 DEF NoEos, n
<1>6. NoFrame(q) => NoFrame(t)
  BY <1>1, <1>2, <1>3 DEF NoFrame
<1>7. EosLast(q) /\ Head(q) = "eos" => NoFrame(t)
  <2> SUFFICES ASSUME EosLast(q), Head(q) = "eos", NEW i \in 1 .. n - 1
               PROVE  t[i] = "eos"
    BY <1>2 DEF NoFrame
  <2> QED
    BY <1>1, <1>2, <1>3 DEF EosLast, n
<1> QED
  BY <1>4, <1>5, <1>6, <1>7 DEF t

LEMMA EosEmpty == EosLast(<<>>) /\ NoEos(<<>>) /\ NoFrame(<<>>)
BY DEF EosLast, NoEos, NoFrame

\* A step that leaves the audio queues and the presenters alone, and after which
\* the decoder may do no more than before.
LEMMA EosQuiet ==
  ASSUME EosInv, UNCHANGED <<load, ppc, waits>>,
         \A k \in Loads : queue'[k]["audio"] = queue[k]["audio"],
         ptr'["audio"] = ptr["audio"],
         Decoding' => Decoding,
         dpc' = "l_audio" => dpc = "l_audio",
         dpc' \in {"eos_video", "eos_audio"} => eof',
         ptr["audio"] \in Loads \/ ~Decoding,
         waits \in [Loads -> Loads],
         FirstStream = "audio" => "audio" \notin input'
  PROVE  EosInv'
<1>1. \A k \in Loads : Untouched(k)' => Untouched(k)
  BY DEF Untouched
<1>2. \A p \in Loads : ppc[p] = "stop" => NoFrame(queue'[waits[p]]["audio"])
  BY DEF EosInv
<1>3. \A k \in Loads : EosLast(queue'[k]["audio"])
  BY DEF EosInv
<1>4. Decoding' => NoEos(queue'[ptr["audio"]]["audio"])
  BY DEF EosInv
<1> QED
  BY <1>1, <1>2, <1>3, <1>4 DEF EosInv

\* What the type invariant says of the audio queues.
LEMMA AudioTypes ==
  ASSUME TypeInv
  PROVE  /\ \A k \in Loads : queue[k]["audio"] \in Seq({"frame", "eos"})
         /\ waits \in [Loads -> Loads] /\ ppc \in [Loads -> PresenterPcs]
         /\ load \in Nat /\ \A k \in Loads : k \in Nat
         /\ Decoding => ptr["audio"] \in Loads
         /\ "audio" \in streams => ptr["audio"] \in Loads
         /\ ptr["audio"] <= load
<1>1. \A k \in Loads : queue[k]["audio"] \in Seq({"frame", "eos"})
  BY DEF TypeInv, TypeOK, Streams
<1>2. /\ waits \in [Loads -> Loads] /\ ppc \in [Loads -> PresenterPcs]
      /\ load \in Nat /\ \A k \in Loads : k \in Nat
  BY DEF TypeInv, TypeOK, Loads
<1>3. Decoding => "audio" \in streams
  BY DEF Decoding, TypeInv, Places
<1>4. ptr["audio"] \in 0 .. load /\ load \in 0 .. MaxLoads /\ MaxLoads \in Nat
  BY FfmpegAssumption DEF TypeInv, TypeOK
<1>5. "audio" \in streams => ptr["audio"] \in Loads
  BY <1>4 DEF TypeInv, Places, Loads
<1> QED
  BY <1>1, <1>2, <1>3, <1>4, <1>5

LEMMA EosReaders ==
  ASSUME TypeInv, EosInv, AwaitCommand \/ RunPoll \/ EofWait
  PROVE  EosInv'
<1>1. /\ UNCHANGED <<load, codec, eof, input, ptr, queue, ppc, waits>>
      /\ dpc' \in {"dispatch", "read", "stale"}
      /\ dpc \in {"dispatch", "run", "eof_wait"}
  BY DEF AwaitCommand, RunPoll, EofWait, ReadCmd, In, At, decvars, ctxvars, presvars
<1>2. Decoding' => Decoding
  BY <1>1 DEF Decoding
<1> QED
  BY <1>1, <1>2, EosQuiet, AudioTypes DEF EosInv

LEMMA EosLoadOpen ==
  ASSUME TypeInv, EosInv, NoStaleAudio, LoadOpen
  PROVE  EosInv'
<1>1. /\ dpc = "dispatch" /\ load < MaxLoads /\ load' = load + 1
      /\ UNCHANGED <<queue, ppc, waits, codec>>
  BY DEF LoadOpen, In, At, presvars
<1>2. \/ input' \in StreamSets /\ "audio" \in input' /\ dpc' = "l_audio"
      \/ input' \in StreamSets /\ "audio" \notin input' /\ dpc' = "dispatch"
      \/ UNCHANGED <<dpc, input, eof>>
  BY <1>1 DEF LoadOpen
<1>3. PICK new \in SUBSET Streams : OpenVideo(new)
  <2>1. {{}, {"video"}} \subseteq SUBSET Streams /\ StreamSets \subseteq SUBSET Streams
    BY FfmpegAssumption DEF Streams
  <2> QED
    BY <2>1 DEF LoadOpen
<1>4. ptr'["audio"] = ptr["audio"]
  BY <1>1, <1>3, OpenVideoType
<1>5. Decoding' => Decoding
  BY <1>1, <1>2 DEF Decoding
<1>6. \A k \in Loads : Untouched(k)' => Untouched(k)
  BY <1>1, AudioTypes DEF Untouched
<1>7. FirstStream = "audio" => "audio" \notin input'
  BY <1>2 DEF EosInv, NoStaleAudio
<1>8. dpc' \notin {"eos_video", "eos_audio"}
  BY <1>1, <1>2
<1> QED
  BY <1>1, <1>4, <1>5, <1>6, <1>7, <1>8 DEF EosInv

LEMMA EosStartPresenter ==
  ASSUME TypeInv, EosInv, StartPresenter
  PROVE  EosInv'
<1>1. /\ dpc = "l_audio" /\ dpc' = "l_presq" /\ load \in Loads
      /\ ptr' = [ptr EXCEPT !["audio"] = load] /\ ppc' = [ppc EXCEPT ![load] = "poll"]
      /\ UNCHANGED <<load, codec, eof, input, queue, waits>>
  BY DEF StartPresenter, At, ctlvars, decvars, TypeInv, TypeOK, Places, LoadPcs, Loads
<1>2. ptr'["audio"] = load /\ \A p \in Loads : ppc'[p] \in {"audio", "stop"} => ppc[p] \in {"audio", "stop"}
  BY <1>1, AudioTypes DEF TypeInv, TypeOK
<1>3. \A p \in Loads : ppc'[p] = "stop" => ppc[p] = "stop"
  BY <1>1, AudioTypes
<1>4. Untouched(load)
  BY <1>1 DEF Untouched
<1>5. \A k \in Loads : Untouched(k)' => Untouched(k) /\ k # load
  BY <1>1, AudioTypes DEF Untouched
<1>6. NoEos(queue[load]["audio"]) /\ \A p \in Loads : ppc'[p] = "stop" => waits[p] # load
  BY <1>1, <1>3, <1>4, EosEmpty DEF EosInv
<1> QED
  BY <1>1, <1>2, <1>3, <1>5, <1>6 DEF EosInv

LEMMA EosMoves ==
  ASSUME TypeInv, EosInv, CreatePresq \/ RunRead \/ RecvNoFrame \/ RecvFrame \/ WriteStale \/ UnloadSendul \/ UnloadNoPacket
                          \/ Toggle \/ Exit
  PROVE  EosInv'
<1>1. UNCHANGED <<load, queue, ppc, waits, input>> /\ ptr'["audio"] = ptr["audio"]
  BY DEF CreatePresq, RunRead, RecvNoFrame, RecvFrame, WriteStale, UnloadSendul, UnloadNoPacket, Toggle, Exit,
         Crash, decvars, ctxvars, presvars, TypeInv, TypeOK
<1>2. CASE CreatePresq
  <2>1. dpc = "l_presq" /\ dpc' = "dispatch" /\ UNCHANGED <<codec, eof>>
    BY <1>2 DEF CreatePresq, At, decvars
  <2> QED
    BY <1>1, <2>1, EosQuiet, AudioTypes DEF EosInv, Decoding
<1>3. CASE RunRead
  <2>1. /\ dpc = "read"
        /\ \/ UNCHANGED <<dpc, codec, eof>>
           \/ ~eof /\ codec' \in input /\ dpc' = "recv" /\ UNCHANGED eof
           \/ eof' = TRUE /\ dpc' = "eos_video"
    BY <1>3 DEF RunRead, Crash, At, decvars
  <2>2. Decoding' => Decoding
    BY <1>1, <2>1 DEF Decoding
  <2> QED
    BY <1>1, <2>1, <2>2, EosQuiet, AudioTypes DEF EosInv
<1>4. CASE RecvFrame
  <2>1. dpc = "recv" /\ dpc' \in {"send", "send_last", "run"} /\ UNCHANGED <<codec, eof>>
    BY <1>4 DEF RecvFrame, At
  <2>2. Decoding' => Decoding
    BY <1>1, <2>1 DEF Decoding
  <2> QED
    BY <1>1, <2>1, <2>2, EosQuiet, AudioTypes DEF EosInv
<1>5. CASE WriteStale
  <2>1. /\ dpc = "stale" /\ UNCHANGED eof
        /\ \/ FirstStream \in input /\ codec' = FirstStream /\ dpc' = "recv"
           \/ dpc' = "run" /\ UNCHANGED codec
    BY <1>5 DEF WriteStale, At
  <2>2. Decoding' => Decoding
    BY <1>1, <2>1 DEF Decoding, EosInv
  <2> QED
    BY <1>1, <2>1, <2>2, EosQuiet, AudioTypes DEF EosInv
<1>6. CASE RecvNoFrame \/ UnloadNoPacket \/ Toggle \/ Exit
  <2>1. UNCHANGED <<dpc, codec, eof>>
    BY <1>6 DEF RecvNoFrame, UnloadNoPacket, Crash, Toggle, Exit, decvars
  <2> QED
    BY <1>1, <2>1, EosQuiet, AudioTypes DEF EosInv, Decoding
<1>7. CASE UnloadSendul
  <2>1. dpc = "u_sendul" /\ dpc' \in {"u_sendul", "u_stop"} /\ UNCHANGED <<codec, eof>>
    BY <1>7 DEF UnloadSendul, Crash, At, decvars
  <2> QED
    BY <1>1, <2>1, EosQuiet, AudioTypes DEF EosInv, Decoding
<1> QED
  BY <1>2, <1>3, <1>4, <1>5, <1>6, <1>7

\* An item joins a queue: a frame while the decoder is decoding, or the end.
LEMMA EosPut ==
  ASSUME TypeInv, EosInv, NEW s \in Streams, NEW item \in {"frame", "eos"},
         Put(s, item), ptr[s] # 0,
         UNCHANGED <<load, codec, eof, input, ptr, ppc, waits>>,
         item = "frame" => Decoding \/ s # "audio",
         Decoding' => Decoding /\ (item = "frame" \/ s # "audio"),
         dpc' # "l_audio",
         dpc' \in {"eos_video", "eos_audio"} => eof
  PROVE  EosInv'
<1>1. \A k \in Loads, t \in Streams :
        queue'[k][t] = IF k = ptr[s] /\ t = s THEN Append(queue[k][t], item) ELSE queue[k][t]
  BY PutStep DEF TypeInv
<1>2. "audio" \in Streams
  BY DEF Streams
<1>3. CASE s # "audio"
  <2>1. \A k \in Loads : queue'[k]["audio"] = queue[k]["audio"]
    BY <1>1, <1>2, <1>3
  <2> QED
    BY <1>3, <2>1, EosQuiet, AudioTypes DEF EosInv
<1>4. CASE s = "audio"
  <2> DEFINE m == ptr["audio"]
  <2>1. /\ m \in Loads
        /\ \A k \in Loads : queue'[k]["audio"] = IF k = m THEN Append(queue[k]["audio"], item) ELSE queue[k]["audio"]
    BY <1>1, <1>2, <1>4, PutStep DEF TypeInv
  <2>2. \A k \in Loads : queue[k]["audio"] \in Seq({"frame", "eos"})
    BY AudioTypes
  <2>3. \A k \in Loads : EosLast(queue'[k]["audio"])
    <3>1. EosLast(Append(queue[m]["audio"], item))
      <4>1. CASE item = "frame"
        BY <1>4, <2>1, <2>2, <4>1, EosAppend DEF EosInv
      <4>2. CASE item = "eos"
        BY <2>1, <2>2, <4>2, EosAppend DEF EosInv
      <4> QED
        BY <4>1, <4>2
    <3> QED
      BY <2>1, <3>1 DEF EosInv
  <2>4. \A p \in Loads : ppc[p] = "stop" => NoFrame(queue'[waits[p]]["audio"])
    <3> SUFFICES ASSUME NEW p \in Loads, ppc[p] = "stop"
                 PROVE  NoFrame(queue'[waits[p]]["audio"])
      OBVIOUS
    <3>1. waits[p] \in Loads /\ NoFrame(queue[waits[p]]["audio"])
      BY AudioTypes DEF EosInv
    <3>2. CASE waits[p] = m
      <4>1. item = "eos"
        BY <1>4, <3>2 DEF EosInv
      <4> QED
        BY <2>1, <2>2, <3>1, <3>2, <4>1, EosAppend
    <3>3. CASE waits[p] # m
      BY <2>1, <3>1, <3>3
    <3> QED
      BY <3>2, <3>3
  <2>5. Decoding' => NoEos(queue'[m]["audio"]) /\ \A p \in Loads : ppc[p] = "stop" => waits[p] # m
    <3> SUFFICES ASSUME Decoding'
                 PROVE  NoEos(queue'[m]["audio"]) /\ \A p \in Loads : ppc[p] = "stop" => waits[p] # m
      OBVIOUS
    <3>1. item = "frame" /\ NoEos(queue[m]["audio"]) /\ \A p \in Loads : ppc[p] = "stop" => waits[p] # m
      BY <1>4 DEF EosInv
    <3> QED
      BY <2>1, <2>2, <3>1, EosAppend
  <2>6. \A k \in Loads : Untouched(k)' => Untouched(k) /\ queue'[k]["audio"] = queue[k]["audio"]
    BY <2>1 DEF Untouched, EosInv
  <2> QED
    BY <2>3, <2>4, <2>5, <2>6 DEF EosInv
<1> QED
  BY <1>3, <1>4

LEMMA EosSends ==
  ASSUME TypeInv, EosInv, SendFrame \/ EofEos \/ UnloadEos
  PROVE  EosInv'
<1>1. UNCHANGED <<load, codec, eof, input, ptr, ppc, waits>>
  BY DEF SendFrame, EofEos, UnloadEos, SendEos, decvars, ctxvars, presvars
<1>2. CASE SendFrame
  <2>1. /\ dpc \in {"send", "send_last"} /\ dpc' \in {"recv", "run"} /\ Put(codec, "frame")
        /\ codec \in Streams /\ ptr[codec] # 0
    BY <1>2 DEF SendFrame, At, TypeInv, TypeOK, Places
  <2>2. Decoding \/ codec # "audio"
    BY <2>1 DEF Decoding
  <2>3. Decoding' => Decoding
    BY <1>1, <2>1 DEF Decoding
  <2>4. "frame" \in {"frame", "eos"} /\ dpc' \notin {"l_audio", "eos_video", "eos_audio"}
    BY <2>1
  <2> QED
    BY <1>1, <2>1, <2>2, <2>3, <2>4, EosPut
<1>3. ASSUME NEW s \in Streams, NEW to \in {"eos_audio", "eof_wait", "u_eos_audio", "u_sendul"}, SendEos(s, to),
             Decoding' => Decoding /\ s # "audio", to = "eos_audio" => eof
      PROVE  EosInv'
  <2>1. dpc' = to
    BY <1>3 DEF SendEos
  <2>2. CASE s \in streams
    <3>1. Put(s, "eos") /\ ptr[s] # 0
      BY <1>3, <2>2 DEF SendEos, TypeInv, Places
    <3>2. "eos" \in {"frame", "eos"} /\ "eos" # "frame"
      OBVIOUS
    <3> QED
      BY <1>1, <1>3, <2>1, <3>1, <3>2, EosPut
  <2>3. CASE s \notin streams
    <3>1. UNCHANGED queue
      BY <1>3, <2>3 DEF SendEos
    <3> QED
      BY <1>1, <1>3, <2>1, <3>1, EosQuiet, AudioTypes DEF EosInv
  <2> QED
    BY <2>2, <2>3
<1>4. "video" \in Streams /\ "audio" \in Streams
  BY DEF Streams
<1>5. CASE EofEos
  <2>1. CASE dpc = "eos_video" /\ SendEos("video", "eos_audio")
    <3>1. eof /\ ~Decoding'
      BY <1>1, <2>1 DEF EosInv, Decoding, SendEos
    <3> QED
      BY <1>3, <1>4, <2>1, <3>1
  <2>2. CASE dpc = "eos_audio" /\ SendEos("audio", "eof_wait")
    <3>1. ~Decoding'
      BY <1>1, <2>2 DEF EosInv, Decoding, SendEos
    <3> QED
      BY <1>3, <1>4, <2>2, <3>1
  <2> QED
    BY <1>5, <2>1, <2>2 DEF EofEos, At
<1>6. CASE UnloadEos
  <2>1. CASE dpc = "dispatch" /\ SendEos("video", "u_eos_audio")
    <3>1. Decoding' => Decoding
      BY <1>1, <2>1 DEF Decoding, SendEos
    <3> QED
      BY <1>3, <1>4, <2>1, <3>1
  <2>2. CASE dpc = "u_eos_audio" /\ SendEos("audio", "u_sendul")
    <3>1. ~Decoding'
      BY <2>2 DEF Decoding, SendEos
    <3> QED
      BY <1>3, <1>4, <2>2, <3>1
  <2> QED
    BY <1>6, <2>1, <2>2 DEF UnloadEos, In, At
<1> QED
  BY <1>2, <1>5, <1>6

LEMMA EosUnloadFree ==
  ASSUME TypeInv, EosInv, UnloadFree
  PROVE  EosInv'
<1>1. /\ queue' = [k \in Loads |-> [s \in Streams |-> IF <<s, k>> \in Held THEN <<>> ELSE queue[k][s]]]
      /\ input' = {} /\ dpc' = "dispatch" /\ ptr' = [x \in DOMAIN ptr |-> 0]
      /\ UNCHANGED <<load, ppc, waits>>
  BY DEF UnloadFree, Release, presvars
<1>2. \A k \in Loads : queue'[k]["audio"] \in {queue[k]["audio"], <<>>}
  BY <1>1 DEF Streams
<1>3. ptr'["audio"] = 0 /\ ~Decoding' /\ \A k \in Loads : k # 0
  BY <1>1 DEF Decoding, TypeInv, TypeOK, Loads
<1>4. \A k \in Loads : Untouched(k)' => Untouched(k)
  BY <1>1 DEF Untouched
<1>5. \A k \in Loads : EosLast(queue'[k]["audio"])
  BY <1>2, EosEmpty DEF EosInv
<1>6. \A p \in Loads : ppc[p] = "stop" => NoFrame(queue'[waits[p]]["audio"])
  BY <1>2, EosEmpty, AudioTypes DEF EosInv
<1>7. \A k \in Loads : queue[k]["audio"] = <<>> => queue'[k]["audio"] = <<>>
  BY <1>2
<1> QED
  BY <1>1, <1>3, <1>4, <1>5, <1>6, <1>7 DEF EosInv

LEMMA EosPresenter ==
  ASSUME TypeInv, EosInv, NEW p \in Loads, Presenter(p)
  PROVE  EosInv'
<1>1. /\ UNCHANGED <<load, codec, eof, input, ptr>>
      /\ dpc' = dpc \/ (dpc = "u_stop" /\ dpc' = "u_free")
  BY PresenterFrame
<1>2. /\ Decoding' => Decoding
      /\ \A k \in Loads : Untouched(k)' => Untouched(k)
      /\ dpc' \in {"eos_video", "eos_audio"} => eof
  BY <1>1 DEF Decoding, Untouched, EosInv
<1>3. /\ \A q \in Loads : q # p => ppc'[q] = ppc[q] /\ waits'[q] = waits[q]
  BY PresenterSelf
<1>4. /\ \A k \in Loads : queue[k]["audio"] \in Seq({"frame", "eos"})
      /\ waits \in [Loads -> Loads] /\ ppc \in [Loads -> PresenterPcs]
  BY AudioTypes
<1>5. CASE TakeSample(p) /\ ~Crash
  <2> DEFINE m == waits[p]
             q == queue[m]["audio"]
  <2>1. /\ ppc[p] = "audio" /\ q # <<>> /\ queue' = [queue EXCEPT ![m]["audio"] = Tail(@)]
        /\ ppc' = [ppc EXCEPT ![p] = IF Head(q) = "eos" THEN "stop" ELSE "show"]
        /\ UNCHANGED waits
    BY <1>5 DEF TakeSample
  <2>2. m \in Loads /\ q \in Seq({"frame", "eos"})
    BY <1>4
  <2>3. \A k \in Loads : queue'[k]["audio"] = IF k = m THEN Tail(q) ELSE queue[k]["audio"]
    BY <2>1, <2>2, TakeStep DEF TypeInv, Streams
  <2>4. /\ ppc'[p] = IF Head(q) = "eos" THEN "stop" ELSE "show"
        /\ \A r \in Loads : r # p => ppc'[r] = ppc[r]
    BY <1>4, <2>1
  <2>5. EosLast(q)
    BY <2>2 DEF EosInv
  <2> HIDE DEF q
  <2>6. \A k \in Loads : EosLast(queue'[k]["audio"])
    BY <2>1, <2>2, <2>3, <2>5, EosTail DEF EosInv
  <2>7. \A r \in Loads : ppc'[r] = "stop" => NoFrame(queue'[waits[r]]["audio"])
    <3> SUFFICES ASSUME NEW r \in Loads, ppc'[r] = "stop"
                 PROVE  NoFrame(queue'[waits[r]]["audio"])
      OBVIOUS
    <3>1. CASE r = p
      BY <2>1, <2>2, <2>3, <2>4, <2>5, <3>1, EosTail
    <3>2. CASE r # p
      <4>1. waits[r] \in Loads /\ NoFrame(queue[waits[r]]["audio"])
        BY <1>4, <2>4, <3>2 DEF EosInv
      <4> QED
        BY <2>1, <2>2, <2>3, <4>1, EosTail DEF q
    <3> QED
      BY <3>1, <3>2
  <2>8. Decoding => /\ NoEos(queue'[ptr["audio"]]["audio"])
                   /\ \A r \in Loads : ppc'[r] = "stop" => waits[r] # ptr["audio"]
    <3> SUFFICES ASSUME Decoding
                 PROVE  /\ NoEos(queue'[ptr["audio"]]["audio"])
                        /\ \A r \in Loads : ppc'[r] = "stop" => waits[r] # ptr["audio"]
      OBVIOUS
    <3>1. /\ ptr["audio"] \in Loads /\ NoEos(queue[ptr["audio"]]["audio"])
          /\ \A r \in Loads : ppc[r] = "stop" => waits[r] # ptr["audio"]
      BY AudioTypes DEF EosInv
    <3>2. NoEos(queue'[ptr["audio"]]["audio"])
      BY <2>1, <2>2, <2>3, <3>1, EosTail DEF q
    <3>3. Head(q) = "eos" => m # ptr["audio"]
      BY <2>1, <2>2, <3>1, EosTail DEF q
    <3> QED
      BY <2>4, <3>1, <3>2, <3>3
  <2>9. \A k \in Loads : Untouched(k) =>
          /\ queue'[k]["audio"] = <<>>
          /\ \A r \in Loads : ppc'[r] \in {"audio", "stop"} => waits[r] # k
    BY <2>1, <2>3, <2>4 DEF EosInv
  <2> QED
    BY <1>1, <1>2, <2>1, <2>6, <2>7, <2>8, <2>9 DEF EosInv
<1>6. CASE Crash \/ Poll(p) \/ TakePicture(p) \/ WaitSample(p) \/ SendStop(p) \/ Show(p)
  <2>1. \A k \in Loads : queue'[k]["audio"] = queue[k]["audio"]
    <3>1. CASE TakePicture(p) /\ ~Crash
      <4>1. queue[waits[p]]["video"] # <<>> /\ queue' = [queue EXCEPT ![waits[p]]["video"] = Tail(@)]
        BY <3>1 DEF TakePicture
      <4>2. waits[p] \in Loads
        BY <1>4
      <4> QED
        BY <4>1, <4>2, TakeStep DEF TypeInv, Streams
    <3>2. CASE Crash \/ Poll(p) \/ WaitSample(p) \/ SendStop(p) \/ Show(p)
      BY <3>2 DEF Crash, Poll, WaitSample, WaitIn, SendStop, Show
    <3> QED
      BY <1>6, <3>1, <3>2
  <2>2. /\ ppc'[p] = "stop" => ppc[p] = "stop" /\ waits'[p] = waits[p]
        /\ ppc'[p] = "audio" => waits'[p] = ptr["audio"] \/ (ppc[p] = "audio" /\ waits'[p] = waits[p])
    <3>1. CASE Crash
      BY <3>1 DEF Crash, presvars
    <3>2. ASSUME NEW s \in Streams, WaitIn(p, s), ~Crash
          PROVE  ppc'[p] = s /\ waits'[p] = ptr[s]
      BY <1>4, <3>2 DEF WaitIn
    <3>3. CASE (Poll(p) \/ WaitSample(p)) /\ ~Crash
      <4>1. (\E s \in Streams : WaitIn(p, s)) \/ ppc' = [ppc EXCEPT ![p] = "done"]
        BY <3>3 DEF Poll, Wants, WaitSample, Streams
      <4>2. CASE \E s \in Streams : WaitIn(p, s)
        BY <3>2, <3>3, <4>2 DEF Streams
      <4>3. CASE ppc' = [ppc EXCEPT ![p] = "done"]
        BY <1>4, <4>3
      <4> QED
        BY <4>1, <4>2, <4>3
    <3>4. CASE (TakePicture(p) \/ SendStop(p) \/ Show(p)) /\ ~Crash
      BY <1>4, <3>4 DEF TakePicture, SendStop, Show
    <3> QED
      BY <1>6, <3>1, <3>3, <3>4
  <2>3. \A r \in Loads : ppc'[r] = "stop" => ppc[r] = "stop" /\ waits'[r] = waits[r]
    BY <1>3, <2>2
  <2>4. \A k \in Loads : Untouched(k) => \A r \in Loads : ppc'[r] \in {"audio", "stop"} => waits'[r] # k
    BY <1>3, <2>2, <2>3 DEF EosInv
  <2>5. \A k \in Loads : EosLast(queue'[k]["audio"])
    BY <2>1 DEF EosInv
  <2>6. \A r \in Loads : ppc'[r] = "stop" => NoFrame(queue'[waits'[r]]["audio"])
    BY <1>4, <2>1, <2>3 DEF EosInv
  <2>7. Decoding => /\ NoEos(queue'[ptr["audio"]]["audio"])
                   /\ \A r \in Loads : ppc'[r] = "stop" => waits'[r] # ptr["audio"]
    BY <2>1, <2>3, AudioTypes DEF EosInv
  <2>8. \A k \in Loads : Untouched(k) => queue'[k]["audio"] = <<>> /\ ptr["audio"] # k
    BY <2>1 DEF EosInv
  <2> QED
    BY <1>1, <1>2, <2>4, <2>5, <2>6, <2>7, <2>8 DEF EosInv
<1> QED
  BY <1>5, <1>6 DEF Presenter

LEMMA EosInit == Init => EosInv
<1> SUFFICES ASSUME Init PROVE EosInv
  OBVIOUS
<1>1. \A k \in Loads : queue[k]["audio"] = <<>>
  BY DEF Init, Streams
<1>2. /\ dpc = "dispatch" /\ input = {} /\ ptr["audio"] = 0 /\ \A p \in Loads : ppc[p] = "off" /\ p # 0
  BY DEF Init, Loads
<1> QED
  BY <1>1, <1>2, EosEmpty DEF EosInv, Decoding

LEMMA EosStep ==
  ASSUME NoStaleAudio
  PROVE  TypeInv /\ EosInv /\ [Next]_vars => EosInv'
<1> SUFFICES ASSUME TypeInv, EosInv, [Next]_vars
             PROVE  EosInv'
  OBVIOUS
<1>1. CASE Request \/ Accept \/ UNCHANGED vars
  <2>1. UNCHANGED <<dpc, load, codec, eof, input, ptr, queue, ppc, waits>>
    BY <1>1 DEF Request, Accept, vars, decvars, ctxvars, presvars
  <2> QED
    BY <2>1, EosQuiet, AudioTypes DEF EosInv, Decoding
<1>2. CASE Decoder
  BY <1>2, EosReaders, EosLoadOpen, EosStartPresenter, EosMoves, EosSends, EosUnloadFree DEF Decoder
<1>3. ASSUME NEW p \in Loads, Presenter(p)
      PROVE  EosInv'
  BY <1>3, EosPresenter
<1> QED
  BY <1>1, <1>2, <1>3 DEF Next

\* The presenter asks for STOP only after the last sample, whatever fails: with
\* every number of loads, when the decoder goes on after an error, and even when
\* the presenter of an earlier load still lives.
THEOREM EosComesLast ==
  ASSUME NoStaleAudio
  PROVE  Spec => []EosAfterAll
<1>1. TypeInv /\ EosInv => EosAfterAll
  BY DEF EosInv, EosAfterAll, NoFrame
<1> QED
  BY <1>1, EosInit, EosStep, TypeInvariant, PTL DEF Spec

=============================================================================
