--------------------------- MODULE RenderControl ----------------------------
(***************************************************************************)
(* The control core of ommrender (render.c), without a particular backend. *)
(*                                                                         *)
(* The 9P server process and the SDL event loop send commands to one       *)
(* bounded channel, cmdq; a presenter thread of the backend may do so too. *)
(* The decoder thread runs the state machine: it reads commands in STOP,   *)
(* RUN and IDLE and passes through the other states by itself. A backend   *)
(* contributes what LOAD opens and whether RUN can meet an error.          *)
(***************************************************************************)
EXTENDS RenderCommands, Naturals, Sequences

CONSTANTS
  Urls,        \* the urls a client may set
  NoUrl,       \* rctx->url = nil
  Words,       \* the command words clients write to ctl
  Presenters,  \* backend threads that send STOP at the end of a stream
  CmdqSize     \* MAX_COMMANDQ_SIZE

ASSUME ControlAssumption ==
  /\ NoUrl \notin Urls
  /\ CmdqSize \in Nat \ {0}
  /\ {"server", "window"} \cap Presenters = {}

VARIABLES
  rstate,   \* rctx->renderer_state
  cmdq,     \* rctx->cmdq, the commands accepted and not yet read
  outbox,   \* per sender: <<>>, or <<c>> while it is in send() with command c
  url,      \* rctx->url
  media,    \* <<>>, or <<u>> while a stream opened from url u is loaded
  proc,     \* the process: "up", "exited" or "crashed"
  named     \* history: the url named by the last accepted line that names one

vars == <<rstate, cmdq, outbox, url, media, proc, named>>

Senders == {"server", "window"} \cup Presenters

MaybeUrl == Urls \cup {NoUrl}

\* A Command. "literal" says that arg points to a string literal, which free()
\* must not be given; "named" is history: before the command is accepted the
\* url its line names, afterwards the url named last up to and including it.
Command == [cmd : CommandNames, arg : MaybeUrl, literal : BOOLEAN, named : MaybeUrl]

Bare(c) == [cmd |-> c, arg |-> NoUrl, literal |-> FALSE, named |-> NoUrl]

\* Words that name the url to play: in render.c, and in README.md.
NamingWords == {"put", "set"}

TypeOK ==
  /\ rstate \in States
  /\ cmdq \in Seq(Command)
  /\ Len(cmdq) <= CmdqSize
  /\ outbox \in [Senders -> {<<>>} \cup {<<c>> : c \in Command}]
  /\ url \in MaybeUrl
  /\ media \in {<<>>} \cup {<<u>> : u \in MaybeUrl}
  /\ proc \in {"up", "exited", "crashed"}
  /\ named \in MaybeUrl

\* A url on the command line is set before the threads start and begins in LOAD.
Init ==
  /\ cmdq = <<>>
  /\ outbox = [s \in Senders |-> <<>>]
  /\ url \in MaybeUrl
  /\ rstate = IF url = NoUrl THEN "STOP" ELSE "LOAD"
  /\ media = <<>>
  /\ proc = "up"
  /\ named = url

-----------------------------------------------------------------------------
(* The senders *)

Compose(s, c) ==
  /\ proc = "up"
  /\ outbox[s] = <<>>
  /\ outbox' = [outbox EXCEPT ![s] = <<c>>]
  /\ UNCHANGED <<rstate, cmdq, url, media, proc, named>>

\* A 9P write to ctl: the server parses the line and enters send(), which holds
\* up every other request until the queue takes the command.
SrvWrite(word, arg) ==
  Compose("server",
          [cmd |-> CommandOf(word), arg |-> arg, literal |-> FALSE,
           named |-> IF word \in NamingWords THEN arg ELSE NoUrl])

KeyCommands == {Bare(c) : c \in {"QUIT", "PAUSE", "STOP", "PLAY"}}
                 \cup {[Bare("SEEK") EXCEPT !.literal = TRUE]}

KeyPress(c) == Compose("window", c)

PresenterStop(p) == Compose(p, Bare("STOP"))

\* Mutant: a full queue silently drops the command (nbsend instead of send).
SendDropBug(s) ==
  /\ proc = "up"
  /\ outbox[s] # <<>>
  /\ LET c    == outbox[s][1]
         last == IF c.named = NoUrl THEN named ELSE c.named
     IN  /\ named' = last
         /\ cmdq' = IF Len(cmdq) < CmdqSize
                      THEN Append(cmdq, [c EXCEPT !.named = last]) ELSE cmdq
  /\ outbox' = [outbox EXCEPT ![s] = <<>>]
  /\ UNCHANGED <<rstate, url, media, proc>>

\* Mutant: the queue takes a command beyond its capacity.
SendFullBug(s) ==
  /\ proc = "up"
  /\ outbox[s] # <<>>
  /\ LET c    == outbox[s][1]
         last == IF c.named = NoUrl THEN named ELSE c.named
     IN  /\ named' = last
         /\ cmdq' = Append(cmdq, [c EXCEPT !.named = last])
  /\ outbox' = [outbox EXCEPT ![s] = <<>>]
  /\ UNCHANGED <<rstate, url, media, proc>>

\* send(cmdq, c) returns: there was room, or the reader made some.
Send(s) ==
  /\ proc = "up"
  /\ outbox[s] # <<>>
  /\ Len(cmdq) < CmdqSize
  /\ LET c    == outbox[s][1]
         last == IF c.named = NoUrl THEN named ELSE c.named
     IN  /\ named' = last
         /\ cmdq' = Append(cmdq, [c EXCEPT !.named = last])
  /\ outbox' = [outbox EXCEPT ![s] = <<>>]
  /\ UNCHANGED <<rstate, url, media, proc>>

-----------------------------------------------------------------------------
(* The decoder thread *)

\* cmd_put: ignored without an argument, otherwise the *next* url.
UrlAfter(c) == IF c.cmd = "SET" /\ c.arg # NoUrl THEN c.arg ELSE url

\* read_cmd: run the handler, free the argument, look up the next state.
ReadCmd ==
  /\ proc = "up"
  /\ rstate \in ReadingStates
  /\ cmdq # <<>>
  /\ LET c == Head(cmdq) IN
       /\ url' = UrlAfter(c)
       /\ IF c.literal
            THEN proc' = "crashed" /\ UNCHANGED rstate
            ELSE rstate' = Transition(c.cmd, rstate) /\ UNCHANGED proc
  /\ cmdq' = Tail(cmdq)
  /\ UNCHANGED <<outbox, media, named>>

\* state_load: both the straight transition and the error transition lead to
\* RUN, with a stream or without one.
Load ==
  /\ proc = "up"
  /\ rstate = "LOAD"
  /\ \/ media' = <<url>> /\ rstate' = Transition("NONE", "LOAD")
     \/ UNCHANGED media  /\ rstate' = Transition("ERR", "LOAD")
  /\ UNCHANGED <<cmdq, outbox, url, proc, named>>

Unload ==
  /\ proc = "up"
  /\ rstate = "UNLOAD"
  /\ media' = <<>>
  /\ rstate' = Transition("NONE", "UNLOAD")
  /\ UNCHANGED <<cmdq, outbox, url, proc, named>>

\* Mutant: state_disengage waits for the next command instead of going on.
ToggleBug ==
  /\ proc = "up"
  /\ rstate \in {"ENGAGE", "DISENG"}
  /\ rstate' = IF rstate = "ENGAGE" THEN Transition("NONE", rstate) ELSE rstate
  /\ UNCHANGED <<cmdq, outbox, url, media, proc, named>>

\* state_engage and state_disengage.
Toggle ==
  /\ proc = "up"
  /\ rstate \in {"ENGAGE", "DISENG"}
  /\ rstate' = Transition("NONE", rstate)
  /\ UNCHANGED <<cmdq, outbox, url, media, proc, named>>

\* A backend that meets an error while running takes the CMD_ERR transition.
RunError ==
  /\ proc = "up"
  /\ rstate = "RUN"
  /\ rstate' = Transition("ERR", "RUN")
  /\ UNCHANGED <<cmdq, outbox, url, media, proc, named>>

\* state_exit: stop_server ends every thread of the process.
Exit ==
  /\ proc = "up"
  /\ rstate = "EXIT"
  /\ proc' = "exited"
  /\ UNCHANGED <<rstate, cmdq, outbox, url, media, named>>

\* Nothing runs after the process has gone.
Gone == proc # "up" /\ UNCHANGED vars

Environment ==
  \/ \E w \in Words, a \in MaybeUrl :
       /\ w \notin NamingWords => a = NoUrl
       /\ SrvWrite(w, a)
  \/ \E c \in KeyCommands : KeyPress(c)
  \/ \E p \in Presenters : PresenterStop(p)

Decoder == ReadCmd \/ Load \/ Unload \/ Toggle \/ Exit

Next == Environment \/ (\E s \in Senders : Send(s)) \/ Decoder \/ RunError \/ Gone

Spec == Init /\ [][Next]_vars

-----------------------------------------------------------------------------
(* Properties *)

\* No stream is ever loaded over another and the process is never left with a
\* stream open: in STOP, LOAD and EXIT nothing is loaded, whatever commands
\* came in whatever order from the server, the window and the presenter.
NothingLoaded == rstate \in {"STOP", "LOAD", "EXIT"} => media = <<>>

\* A PLAY that starts a stream starts the url that was named last before the
\* PLAY was accepted: no accepted line is lost, delayed or overtaken.
PlaysNamedUrl ==
  [][rstate = "STOP" /\ rstate' = "LOAD" => url' = Head(cmdq).named]_vars

=============================================================================
