------------------------ MODULE RenderControl_proofs ------------------------
(***************************************************************************)
(* Proofs about RenderControl, for every set of urls and words, every set  *)
(* of presenter threads and every capacity of the command queue; and about *)
(* RenderVlc, which implements it: the player and the renderer's state     *)
(* keep in step as PauseAgrees says.                                       *)
(***************************************************************************)
EXTENDS RenderVlc, RenderCommands_proofs, TLAPS

\* A command carries the url its line names: its own argument if it is a SET.
NamesItself(c) == IF c.cmd = "SET" /\ c.arg # NoUrl THEN c.arg ELSE NoUrl

\* In the queue each command carries the url in force after it is handled.
InForce(i) ==
  IF NamesItself(cmdq[i]) # NoUrl THEN NamesItself(cmdq[i])
  ELSE IF i = 1 THEN url ELSE cmdq[i - 1].named

\* What makes PlaysNamedUrl inductive.
NamedInv ==
  /\ \A s \in Senders : outbox[s] # <<>> => outbox[s][1].named = NamesItself(outbox[s][1])
  /\ \A i \in 1 .. Len(cmdq) : cmdq[i].named = InForce(i)
  /\ named = IF cmdq = <<>> THEN url ELSE cmdq[Len(cmdq)].named

-----------------------------------------------------------------------------
(* Type correctness *)

\* What the senders compose are commands.
LEMMA ComposedType ==
  /\ \A c \in CommandNames : Bare(c) \in Command
  /\ KeyCommands \subseteq Command
  /\ \A w : \A a \in MaybeUrl :
       [cmd |-> CommandOf(w), arg |-> a, literal |-> FALSE,
        named |-> IF w \in NamingWords THEN a ELSE NoUrl] \in Command
<1>1. ASSUME NEW c \in CommandNames
      PROVE  Bare(c) \in Command /\ [Bare(c) EXCEPT !.literal = TRUE] \in Command
  BY DEF Bare, Command, MaybeUrl
<1>2. {"QUIT", "PAUSE", "STOP", "PLAY", "SEEK"} \subseteq CommandNames
  BY DEF CommandNames
<1>3. KeyCommands \subseteq Command
  BY <1>1, <1>2 DEF KeyCommands
<1>4. ASSUME NEW w, NEW a \in MaybeUrl
      PROVE  [cmd |-> CommandOf(w), arg |-> a, literal |-> FALSE,
              named |-> IF w \in NamingWords THEN a ELSE NoUrl] \in Command
  BY CommandOfType DEF Command, MaybeUrl
<1> QED
  BY <1>1, <1>3, <1>4

LEMMA ComposeType ==
  ASSUME TypeOK, NEW s \in Senders, NEW c \in Command, Compose(s, c)
  PROVE  TypeOK'
BY DEF TypeOK, Compose

LEMMA SendType ==
  ASSUME TypeOK, NEW s \in Senders, Send(s)
  PROVE  TypeOK'
<1> DEFINE c    == outbox[s][1]
           last == IF c.named = NoUrl THEN named ELSE c.named
           d    == [c EXCEPT !.named = last]
<1>1. c \in Command
  BY DEF TypeOK, Send
<1>2. last \in MaybeUrl
  BY <1>1 DEF TypeOK, Command
<1>3. d \in Command
  BY <1>1, <1>2 DEF Command
<1>4. cmdq' = Append(cmdq, d) /\ named' = last /\ outbox' = [outbox EXCEPT ![s] = <<>>]
  BY DEF Send
<1>5. cmdq' \in Seq(Command) /\ Len(cmdq') = Len(cmdq) + 1
  BY <1>3, <1>4 DEF TypeOK
<1>6. Len(cmdq') <= CmdqSize
  BY <1>5, ControlAssumption DEF Send, TypeOK
<1> QED
  BY <1>2, <1>4, <1>5, <1>6 DEF TypeOK, Send

LEMMA ReadCmdType ==
  ASSUME TypeOK, ReadCmd
  PROVE  TypeOK'
<1>1. Head(cmdq) \in Command
  BY DEF TypeOK, ReadCmd
<1>2. cmdq' \in Seq(Command) /\ Len(cmdq') <= CmdqSize
  BY ControlAssumption DEF TypeOK, ReadCmd
<1>3. url' \in MaybeUrl
  BY <1>1 DEF TypeOK, ReadCmd, UrlAfter, Command
<1>4. rstate' \in States /\ proc' \in {"up", "exited", "crashed"}
  BY <1>1, TransitionFromReading DEF TypeOK, ReadCmd, Command
<1> QED
  BY <1>2, <1>3, <1>4 DEF TypeOK, ReadCmd

LEMMA DecoderType ==
  ASSUME TypeOK, Load \/ Unload \/ Toggle \/ Exit \/ RunError
  PROVE  TypeOK'
<1>1. {"STOP", "RUN", "IDLE", "UNLOAD"} \subseteq States
  BY StraightDomain DEF States, ReadingStates
<1>2. CASE Load
  BY <1>1, <1>2, TransitionStraight DEF TypeOK, Load
<1>3. CASE Unload
  BY <1>1, <1>3, TransitionStraight DEF TypeOK, Unload
<1>4. CASE Toggle
  BY <1>1, <1>4, TransitionStraight DEF TypeOK, Toggle
<1>5. CASE Exit
  BY <1>5 DEF TypeOK, Exit
<1>6. CASE RunError
  BY <1>1, <1>6, TransitionError DEF TypeOK, RunError
<1> QED
  BY <1>2, <1>3, <1>4, <1>5, <1>6

\* TypeOK holds in every reachable state.
THEOREM TypeCorrect == Spec => []TypeOK
<1>1. Init => TypeOK
  <2> SUFFICES ASSUME Init PROVE TypeOK
    OBVIOUS
  <2>1. <<>> \in Seq(Command) /\ Len(<<>>) = 0
    OBVIOUS
  <2>2. {"STOP", "LOAD"} \subseteq States
    BY StraightDomain DEF States, ReadingStates
  <2> QED
    BY <2>1, <2>2, ControlAssumption DEF Init, TypeOK
<1>2. TypeOK /\ [Next]_vars => TypeOK'
  <2> SUFFICES ASSUME TypeOK, [Next]_vars
               PROVE  TypeOK'
    OBVIOUS
  <2>1. {"server", "window"} \subseteq Senders /\ Presenters \subseteq Senders
    BY DEF Senders
  <2>2. ASSUME NEW w \in Words, NEW a \in MaybeUrl, SrvWrite(w, a)
        PROVE  TypeOK'
    <3> DEFINE c == [cmd |-> CommandOf(w), arg |-> a, literal |-> FALSE,
                     named |-> IF w \in NamingWords THEN a ELSE NoUrl]
    <3>1. c \in Command
      BY ComposedType
    <3>2. Compose("server", c)
      BY <2>2 DEF SrvWrite
    <3> QED
      BY <2>1, <3>1, <3>2, ComposeType
  <2>3. ASSUME NEW c \in KeyCommands, KeyPress(c)
        PROVE  TypeOK'
    BY <2>1, <2>3, ComposedType, ComposeType DEF KeyPress
  <2>4. ASSUME NEW p \in Presenters, PresenterStop(p)
        PROVE  TypeOK'
    <3>1. "STOP" \in CommandNames
      BY DEF CommandNames
    <3> QED
      BY <2>1, <2>4, <3>1, ComposedType, ComposeType DEF PresenterStop
  <2>5. ASSUME NEW s \in Senders, Send(s)
        PROVE  TypeOK'
    BY <2>5, SendType
  <2>6. CASE ReadCmd
    BY <2>6, ReadCmdType
  <2>7. CASE Load \/ Unload \/ Toggle \/ Exit \/ RunError
    BY <2>7, DecoderType
  <2>8. CASE UNCHANGED vars
    BY <2>8 DEF TypeOK, vars
  <2> QED
    BY <2>2, <2>3, <2>4, <2>5, <2>6, <2>7, <2>8 DEF Next, Environment, Decoder, Gone
<1> QED
  BY <1>1, <1>2, PTL DEF Spec

-----------------------------------------------------------------------------
(* Nothing is loaded in STOP, LOAD and EXIT *)

\* A stream is only ever loaded over nothing, and the process exits with no
\* stream open. RUN may be entered with or without a stream; what carries the
\* invariant is that the table leaves RUN and IDLE towards STOP only through
\* UNLOAD, whatever the command.
THEOREM NeverLoadedTwice == Spec => []NothingLoaded
<1>1. Init => NothingLoaded
  BY DEF Init, NothingLoaded
<1>2. TypeOK /\ NothingLoaded /\ [Next]_vars => NothingLoaded'
  <2> SUFFICES ASSUME TypeOK, NothingLoaded, [Next]_vars
               PROVE  NothingLoaded'
    OBVIOUS
  <2>1. ASSUME UNCHANGED <<rstate, media>>
        PROVE  NothingLoaded'
    BY <2>1 DEF NothingLoaded
  <2>2. CASE Environment
    BY <2>1, <2>2 DEF Environment, SrvWrite, KeyPress, PresenterStop, Compose
  <2>3. ASSUME NEW s \in Senders, Send(s)
        PROVE  NothingLoaded'
    BY <2>1, <2>3 DEF Send
  <2>4. CASE ReadCmd
    <3>1. Head(cmdq).cmd \in CommandNames
      <4>1. cmdq \in Seq(Command) /\ cmdq # <<>>
        BY <2>4 DEF ReadCmd, TypeOK
      <4>2. Head(cmdq) \in Command
        BY <4>1
      <4> QED
        BY <4>2 DEF Command
    <3>2. rstate' \in {"STOP", "LOAD", "EXIT"} => rstate \in {"STOP", "LOAD", "EXIT"}
      BY <2>4, <3>1, TransitionFromReading DEF ReadCmd
    <3> QED
      BY <2>4, <3>2 DEF ReadCmd, NothingLoaded
  <2>5. CASE Load
    BY <2>5, TransitionStraight DEF Load, NothingLoaded
  <2>6. CASE Unload
    BY <2>6 DEF Unload, NothingLoaded
  <2>7. CASE Toggle
    BY <2>7, TransitionStraight DEF Toggle, NothingLoaded
  <2>8. CASE Exit
    BY <2>1, <2>8 DEF Exit
  <2>9. CASE RunError
    BY <2>9, TransitionError DEF RunError, NothingLoaded
  <2>10. CASE UNCHANGED vars
    BY <2>1, <2>10 DEF vars
  <2> QED
    BY <2>2, <2>3, <2>4, <2>5, <2>6, <2>7, <2>8, <2>9, <2>10 DEF Next, Decoder, Gone
<1> QED
  BY <1>1, <1>2, TypeCorrect, PTL DEF Spec

-----------------------------------------------------------------------------
(* A PLAY that starts a stream starts the url named last *)

\* Only "put" sets the url; the README's "set" must not be among the words.
LEMMA NamedInit == Init => NamedInv
<1> SUFFICES ASSUME Init PROVE NamedInv
  OBVIOUS
<1>1. cmdq = <<>> /\ Len(cmdq) = 0 /\ named = url
  BY DEF Init
<1>2. \A s \in Senders : outbox[s] = <<>>
  BY DEF Init
<1> QED
  BY <1>1, <1>2 DEF NamedInv

LEMMA NamedCompose ==
  ASSUME TypeOK, NamedInv, NEW s \in Senders, NEW c \in Command,
         Compose(s, c), c.named = NamesItself(c)
  PROVE  NamedInv'
<1>1. \A t \in Senders : outbox'[t] = IF t = s THEN <<c>> ELSE outbox[t]
  BY DEF Compose, TypeOK
<1>2. UNCHANGED <<cmdq, url, named>>
  BY DEF Compose
<1>3. \A t \in Senders : outbox'[t] # <<>> => outbox'[t][1].named = NamesItself(outbox'[t][1])
  BY <1>1 DEF NamedInv, NamesItself
<1> QED
  BY <1>2, <1>3 DEF NamedInv, InForce, NamesItself

LEMMA NamedSend ==
  ASSUME TypeOK, NamedInv, NEW s \in Senders, Send(s)
  PROVE  NamedInv'
<1> DEFINE c    == outbox[s][1]
           last == IF c.named = NoUrl THEN named ELSE c.named
           d    == [c EXCEPT !.named = last]
           n    == Len(cmdq)
<1>1. c \in Command /\ c.named = NamesItself(c)
  BY DEF TypeOK, Send, NamedInv
<1>2. cmdq' = Append(cmdq, d) /\ named' = last /\ outbox' = [outbox EXCEPT ![s] = <<>>]
  BY DEF Send
<1>3. d.named = last /\ NamesItself(d) = NamesItself(c)
  BY <1>1 DEF Command, NamesItself
<1>4. /\ cmdq \in Seq(Command) /\ n \in Nat
      /\ Len(cmdq') = n + 1 /\ cmdq' # <<>>
      /\ \A i \in 1 .. n : cmdq'[i] = cmdq[i]
      /\ cmdq'[n + 1] = d
  BY <1>2 DEF TypeOK
<1>5. url' = url
  BY DEF Send
<1>6. \A i \in 1 .. n : cmdq'[i].named = InForce(i)'
  <2> SUFFICES ASSUME NEW i \in 1 .. n
               PROVE  cmdq'[i].named = InForce(i)'
    OBVIOUS
  <2>1. cmdq[i].named = InForce(i)
    BY DEF NamedInv
  <2>2. i # 1 => i - 1 \in 1 .. n
    BY <1>4
  <2>3. InForce(i)' = InForce(i)
    BY <1>4, <1>5, <2>2 DEF InForce, NamesItself
  <2> QED
    BY <1>4, <2>1, <2>3
<1>7. ASSUME NEW k \in Nat, k = n + 1
      PROVE  cmdq'[k].named = InForce(k)'
  <2>1. named = IF n = 0 THEN url ELSE cmdq[n].named
    BY <1>4 DEF NamedInv
  <2>2. last = IF NamesItself(d) # NoUrl THEN NamesItself(d)
               ELSE IF k = 1 THEN url ELSE cmdq[n].named
    BY <1>1, <1>3, <1>4, <1>7, <2>1
  <2>3. k # 1 => cmdq'[k - 1] = cmdq[n]
    BY <1>4, <1>7
  <2>4. InForce(k)' = IF NamesItself(d) # NoUrl THEN NamesItself(d)
                      ELSE IF k = 1 THEN url ELSE cmdq'[k - 1].named
    BY <1>4, <1>5, <1>7 DEF InForce, NamesItself
  <2> QED
    BY <1>3, <1>4, <1>7, <2>2, <2>3, <2>4
<1>8. \A i \in 1 .. Len(cmdq') : cmdq'[i].named = InForce(i)'
  <2> SUFFICES ASSUME NEW i \in 1 .. Len(cmdq')
               PROVE  cmdq'[i].named = InForce(i)'
    OBVIOUS
  <2>1. i \in 1 .. n \/ (i \in Nat /\ i = n + 1)
    BY <1>4
  <2> QED
    BY <1>6, <1>7, <2>1
<1>9. named' = IF cmdq' = <<>> THEN url' ELSE cmdq'[Len(cmdq')].named
  BY <1>2, <1>3, <1>4
<1>10. \A t \in Senders : outbox'[t] # <<>> => outbox'[t][1].named = NamesItself(outbox'[t][1])
  <2>1. \A t \in Senders : outbox'[t] = IF t = s THEN <<>> ELSE outbox[t]
    BY <1>2 DEF TypeOK
  <2> QED
    BY <2>1 DEF NamedInv, NamesItself
<1> QED
  BY <1>8, <1>9, <1>10 DEF NamedInv, NamesItself

\* The url after a command was read is the one that command carried.
LEMMA ReadCarries ==
  ASSUME TypeOK, NamedInv, ReadCmd
  PROVE  url' = Head(cmdq).named
<1>1. cmdq \in Seq(Command) /\ cmdq # <<>>
  BY DEF TypeOK, ReadCmd
<1>2. 1 \in 1 .. Len(cmdq) /\ Head(cmdq) = cmdq[1]
  BY <1>1
<1>3. cmdq[1].named = InForce(1)
  BY <1>2 DEF NamedInv
<1> QED
  BY <1>2, <1>3 DEF ReadCmd, UrlAfter, InForce, NamesItself

LEMMA NamedRead ==
  ASSUME TypeOK, NamedInv, ReadCmd
  PROVE  NamedInv'
<1> DEFINE n == Len(cmdq)
<1>1. cmdq \in Seq(Command) /\ cmdq # <<>> /\ n \in Nat \ {0}
  BY DEF TypeOK, ReadCmd
<1>2. /\ cmdq' = Tail(cmdq)
      /\ Len(cmdq') = n - 1
      /\ \A i \in 1 .. n - 1 : cmdq'[i] = cmdq[i + 1]
      /\ Head(cmdq) = cmdq[1]
  BY <1>1 DEF ReadCmd
<1>3. url' = cmdq[1].named
  BY <1>2, ReadCarries
<1>4. \A i \in 1 .. Len(cmdq') : cmdq'[i].named = InForce(i)'
  <2> SUFFICES ASSUME NEW i \in 1 .. Len(cmdq')
               PROVE  cmdq'[i].named = InForce(i)'
    OBVIOUS
  <2>1. i + 1 \in 1 .. n /\ cmdq'[i] = cmdq[i + 1]
    BY <1>1, <1>2
  <2>2. cmdq[i + 1].named = InForce(i + 1)
    BY <2>1 DEF NamedInv
  <2>3. i # 1 => cmdq'[i - 1] = cmdq[i]
    BY <1>1, <1>2
  <2>4. InForce(i + 1) = IF NamesItself(cmdq[i + 1]) # NoUrl
                         THEN NamesItself(cmdq[i + 1]) ELSE cmdq[i].named
    BY <2>1 DEF InForce
  <2>5. InForce(i)' = IF NamesItself(cmdq[i + 1]) # NoUrl
                      THEN NamesItself(cmdq[i + 1])
                      ELSE IF i = 1 THEN url' ELSE cmdq'[i - 1].named
    BY <2>1 DEF InForce, NamesItself
  <2> QED
    BY <1>3, <2>1, <2>2, <2>3, <2>4, <2>5
<1>5. named' = IF cmdq' = <<>> THEN url' ELSE cmdq'[Len(cmdq')].named
  <2>1. named' = named /\ named = cmdq[n].named
    BY <1>1 DEF ReadCmd, NamedInv
  <2>2. CASE n = 1
    BY <1>1, <1>2, <1>3, <2>1, <2>2
  <2>3. CASE n # 1
    <3>1. n \in Nat /\ n - 1 \in Nat \ {0}
      <4>1. n \in Nat /\ n # 0
        BY <1>1
      <4> HIDE DEF n
      <4> QED
        BY <4>1, <2>3
    <3>2. cmdq'[n - 1] = cmdq[n]
      <4>1. n - 1 \in 1 .. n - 1 /\ n - 1 + 1 = n
        <5> HIDE DEF n
        <5> QED
          BY <3>1
      <4> QED
        BY <1>2, <4>1
    <3>3. cmdq' # <<>>
      <4>1. Len(cmdq') # 0
        BY <1>2, <3>1
      <4> QED
        BY <4>1
    <3> QED
      BY <1>2, <2>1, <3>2, <3>3
  <2> QED
    BY <2>2, <2>3
<1>6. outbox' = outbox
  BY DEF ReadCmd
<1> QED
  BY <1>4, <1>5, <1>6 DEF NamedInv, NamesItself

LEMMA NamedUntouched ==
  ASSUME NamedInv, UNCHANGED <<cmdq, outbox, url, named>>
  PROVE  NamedInv'
BY DEF NamedInv, InForce, NamesItself

LEMMA NamedStep ==
  ASSUME "set" \notin Words, TypeOK, NamedInv, [Next]_vars
  PROVE  NamedInv'
<1>1. {"server", "window"} \subseteq Senders /\ Presenters \subseteq Senders
  BY DEF Senders
<1>2. ASSUME NEW w \in Words, NEW a \in MaybeUrl,
             w \notin NamingWords => a = NoUrl, SrvWrite(w, a)
      PROVE  NamedInv'
  <2> DEFINE c == [cmd |-> CommandOf(w), arg |-> a, literal |-> FALSE,
                   named |-> IF w \in NamingWords THEN a ELSE NoUrl]
  <2>1. c \in Command
    BY ComposedType
  <2>2. w \in NamingWords => w = "put" /\ CommandOf(w) = "SET"
    BY DEF NamingWords, CommandOf
  <2>3. c.named = NamesItself(c)
    BY <1>2, <2>2 DEF NamesItself
  <2>4. Compose("server", c)
    BY <1>2 DEF SrvWrite
  <2> QED
    BY <1>1, <2>1, <2>3, <2>4, NamedCompose
<1>3. ASSUME NEW c \in KeyCommands, KeyPress(c)
      PROVE  NamedInv'
  <2>1. c \in Command /\ c.named = NamesItself(c)
    BY ComposedType DEF KeyCommands, Bare, NamesItself
  <2> QED
    BY <1>1, <1>3, <2>1, NamedCompose DEF KeyPress
<1>4. ASSUME NEW p \in Presenters, PresenterStop(p)
      PROVE  NamedInv'
  <2>1. Bare("STOP") \in Command
    BY ComposedType DEF CommandNames
  <2>2. Bare("STOP").named = NamesItself(Bare("STOP"))
    BY DEF Bare, NamesItself
  <2> QED
    BY <1>1, <1>4, <2>1, <2>2, NamedCompose DEF PresenterStop
<1>5. ASSUME NEW s \in Senders, Send(s)
      PROVE  NamedInv'
  BY <1>5, NamedSend
<1>6. CASE ReadCmd
  BY <1>6, NamedRead
<1>7. CASE Load \/ Unload \/ Toggle \/ Exit \/ RunError \/ UNCHANGED vars
  <2>1. UNCHANGED <<cmdq, outbox, url, named>>
    BY <1>7 DEF Load, Unload, Toggle, Exit, RunError, vars
  <2> QED
    BY <2>1, NamedUntouched
<1> QED
  BY <1>2, <1>3, <1>4, <1>5, <1>6, <1>7 DEF Next, Environment, Decoder, Gone

\* The url that a PLAY in STOP starts is the one named last before the PLAY
\* was accepted, provided clients name urls with "put": cmdq neither loses nor
\* reorders what the server, the window and the presenter send.
THEOREM PlayStartsNamedUrl ==
  ASSUME "set" \notin Words
  PROVE  Spec => PlaysNamedUrl
<1>1. Init => NamedInv
  BY NamedInit
<1>2. TypeOK /\ NamedInv /\ [Next]_vars => NamedInv'
  BY NamedStep
<1>3. TypeOK /\ NamedInv /\ [Next]_vars
        => [rstate = "STOP" /\ rstate' = "LOAD" => url' = Head(cmdq).named]_vars
  <2> SUFFICES ASSUME TypeOK, NamedInv, Next, rstate = "STOP", rstate' = "LOAD"
               PROVE  url' = Head(cmdq).named
    BY DEF vars
  <2>1. rstate' # rstate
    OBVIOUS
  <2>2. ReadCmd
    BY <2>1 DEF Next, Environment, SrvWrite, KeyPress, PresenterStop, Compose, Send,
                Decoder, Load, Unload, Toggle, Exit, RunError, Gone, vars
  <2> QED
    BY <2>2, ReadCarries
<1> QED
  BY <1>1, <1>2, <1>3, TypeCorrect, PTL DEF Spec, PlaysNamedUrl

-----------------------------------------------------------------------------
(* The libVLC backend: the invariants of player and renderer *)

\* PauseAgrees, carried through the two states in which the pause is toggled.
InStep ==
  ~hasty => /\ rstate \in {"IDLE", "ENGAGE"} => player \notin {"opening", "playing"}
            /\ rstate \in {"RUN", "DISENG"}  => player # "paused"

VlcInv == TypeOK /\ PlayerStopped /\ InStep

-----------------------------------------------------------------------------
(* The control core underneath *)

\* The steps of the control core that are none of the player's business.
Quiet ==
  /\ ReadCmd \/ Environment \/ (\E s \in Senders : Send(s)) \/ Exit \/ Gone
  /\ UNCHANGED <<player, hasty>>

LEMMA VlcSteps ==
  VlcNext => Quiet \/ VlcLoad \/ VlcUnload \/ VlcToggle \/ PlayerEvent
BY DEF VlcNext, VlcDecoder, VlcSend, Untouched, Quiet

\* Every step of the libVLC backend is a step of the control core, or the
\* player's own.
LEMMA VlcStepIsStep == [VlcNext]_vlcvars => [Next]_vars
<1>1. CASE Quiet
  BY <1>1 DEF Quiet, Next, Decoder
<1>2. CASE VlcLoad
  BY <1>2 DEF VlcLoad, Next, Decoder
<1>3. CASE VlcUnload
  BY <1>3 DEF VlcUnload, Next, Decoder
<1>4. CASE VlcToggle
  BY <1>4 DEF VlcToggle, Next, Decoder
<1>5. CASE PlayerEvent
  BY <1>5 DEF PlayerEvent
<1>6. CASE UNCHANGED vlcvars
  BY <1>6 DEF vlcvars
<1> QED
  BY <1>1, <1>2, <1>3, <1>4, <1>5, <1>6, VlcSteps

\* render.c with render_vlc.c is an instance of the control core, so what is
\* proved of every backend holds of it.
THEOREM VlcImplementsControl == VlcSpec => Spec
<1>1. VlcInit => Init
  BY DEF VlcInit
<1> QED
  BY <1>1, VlcStepIsStep, PTL DEF VlcSpec, Spec

-----------------------------------------------------------------------------
(* The player *)

\* Reading a command leaves the player alone and keeps the state in step.
LEMMA VlcReadCmd ==
  ASSUME VlcInv, ReadCmd, UNCHANGED <<player, hasty>>
  PROVE  PlayerStopped' /\ InStep'
<1> DEFINE c == Head(cmdq)
<1>1. cmdq \in Seq(Command) /\ cmdq # <<>>
  BY DEF VlcInv, TypeOK, ReadCmd
<1>2. c \in Command
  BY <1>1
<1>3. c.cmd \in CommandNames
  BY <1>2 DEF Command
<1>4. rstate' \in {rstate, Transition(c.cmd, rstate)} /\ rstate \in {"STOP", "RUN", "IDLE"}
  BY DEF ReadCmd, ReadingStates
<1> HIDE DEF c
<1> QED
  BY <1>3, <1>4, TransitionRanges DEF VlcInv, PlayerStopped, InStep

\* The rest of the quiet steps leave the state alone too.
LEMMA VlcQuiet ==
  ASSUME VlcInv, Quiet
  PROVE  PlayerStopped' /\ InStep'
<1>1. CASE ReadCmd
  BY <1>1, VlcReadCmd DEF Quiet
<1>2. CASE Environment \/ (\E s \in Senders : Send(s)) \/ Exit \/ Gone
  <2>1. UNCHANGED rstate
    BY <1>2 DEF Environment, SrvWrite, KeyPress, PresenterStop, Compose, Send, Exit, Gone, vars
  <2> QED
    BY <2>1 DEF VlcInv, PlayerStopped, InStep, Quiet
<1> QED
  BY <1>1, <1>2 DEF Quiet

LEMMA VlcStep ==
  ASSUME VlcInv, [VlcNext]_vlcvars
  PROVE  PlayerStopped' /\ InStep'
<1>1. CASE Quiet
  BY <1>1, VlcQuiet
<1>2. CASE VlcLoad
  <2>1. rstate = "LOAD" /\ rstate' = "RUN" /\ player = "idle"
    BY <1>2, TransitionStraight DEF VlcLoad, Load, VlcInv, PlayerStopped
  <2>2. player' \in {"idle", "opening"}
    BY <1>2, <2>1 DEF VlcLoad
  <2> QED
    BY <2>1, <2>2 DEF PlayerStopped, InStep
<1>3. CASE VlcUnload
  <2>1. rstate' = "STOP" /\ player' = "idle"
    BY <1>3, TransitionStraight DEF VlcUnload, Unload
  <2> QED
    BY <2>1 DEF PlayerStopped, InStep
<1>4. CASE VlcToggle
  <2>1. \/ rstate = "ENGAGE" /\ rstate' = "RUN"
        \/ rstate = "DISENG" /\ rstate' = "IDLE"
    BY <1>4, TransitionStraight DEF VlcToggle, Toggle
  <2>2. player' = Toggled(player) /\ (~hasty' => ~hasty /\ player # "opening")
    BY <1>4 DEF VlcToggle
  <2> QED
    BY <2>1, <2>2 DEF VlcInv, PlayerStopped, InStep, Toggled
<1>5. CASE PlayerEvent
  <2>1. UNCHANGED <<rstate, hasty>>
    BY <1>5 DEF PlayerEvent, vars
  <2>2. \/ player = "opening" /\ player' = "playing"
        \/ player = "playing" /\ player' = "ended"
        \/ player \in {"opening", "playing", "paused"} /\ player' = "error"
    BY <1>5 DEF PlayerEvent
  <2> QED
    BY <2>1, <2>2 DEF VlcInv, PlayerStopped, InStep
<1>6. CASE UNCHANGED vlcvars
  BY <1>6 DEF vlcvars, vars, VlcInv, PlayerStopped, InStep
<1> QED
  BY <1>1, <1>2, <1>3, <1>4, <1>5, <1>6, VlcSteps

LEMMA VlcInvariant == VlcSpec => []VlcInv
<1>1. VlcInit => PlayerStopped /\ InStep
  BY DEF VlcInit, PlayerStopped, InStep
<1>2. TypeOK /\ (PlayerStopped /\ InStep) /\ [VlcNext]_vlcvars => (PlayerStopped /\ InStep)'
  BY VlcStep DEF VlcInv
<1>3. VlcSpec => []TypeOK
  BY VlcImplementsControl, TypeCorrect, PTL
<1> QED
  BY <1>1, <1>2, <1>3, PTL DEF VlcSpec, VlcInv

\* The decoder thread's state, its media and the player's are of their types, in
\* whatever order the commands and the player's own changes come.
THEOREM VlcTypeCorrect == VlcSpec => []VlcTypeOK
<1> DEFINE Own == player \in PlayerStates /\ hasty \in BOOLEAN
<1>1. VlcInit => Own
  BY DEF VlcInit, PlayerStates
<1>2. Own /\ [VlcNext]_vlcvars => Own'
  <2> SUFFICES ASSUME Own, [VlcNext]_vlcvars PROVE Own'
    OBVIOUS
  <2>1. CASE Quiet
    BY <2>1 DEF Quiet
  <2>2. CASE VlcLoad
    BY <2>2 DEF VlcLoad, PlayerStates
  <2>3. CASE VlcUnload
    BY <2>3 DEF VlcUnload, PlayerStates
  <2>4. CASE VlcToggle
    <3>1. Toggled(player) \in PlayerStates
      BY DEF Toggled, PlayerStates
    <3>2. player' = Toggled(player) /\ hasty' \in BOOLEAN
      BY <2>4, Zenon DEF VlcToggle
    <3> QED
      BY <3>1, <3>2
  <2>5. CASE PlayerEvent
    BY <2>5 DEF PlayerEvent, PlayerStates
  <2>6. CASE UNCHANGED vlcvars
    BY <2>6 DEF vlcvars
  <2> QED
    BY <2>1, <2>2, <2>3, <2>4, <2>5, <2>6, VlcSteps
<1>3. VlcSpec => []TypeOK
  BY VlcImplementsControl, TypeCorrect, PTL
<1>4. TypeOK /\ Own => VlcTypeOK
  BY DEF VlcTypeOK
<1> QED
  BY <1>1, <1>2, <1>3, <1>4, PTL DEF VlcSpec

\* libvlc is given a media, and the process is left, only when the player is
\* stopped: for every set of urls and clients and every capacity of the queue.
THEOREM PlayerIsStopped == VlcSpec => []PlayerStopped
BY VlcInvariant, PTL DEF VlcInv

\* The toggling pause keeps in step with the renderer's state, whatever the
\* player does by itself, unless it was toggled while the media was opening.
THEOREM PauseKeepsInStep == VlcSpec => []PauseAgrees
<1>1. VlcInv => PauseAgrees
  BY DEF VlcInv, InStep, PauseAgrees
<1> QED
  BY <1>1, VlcInvariant, PTL

=============================================================================
