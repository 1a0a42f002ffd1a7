--------------------------- MODULE RenderCommands ---------------------------
(***************************************************************************)
(* The vocabulary of the renderer (render.c): its states, its commands,    *)
(* the words a client may write to the ctl file, and the table that says   *)
(* which state follows when a command is read in a state.                  *)
(***************************************************************************)

\* The states in which a thread reads commands.
ReadingStates == {"STOP", "RUN", "IDLE"}

\* The states that are left without reading a command, and where they lead.
Straight == [LOAD |-> "RUN", UNLOAD |-> "STOP", ENGAGE |-> "RUN", DISENG |-> "IDLE"]

States == ReadingStates \cup DOMAIN Straight \cup {"EXIT"}

CommandNames == {"SET", "STOP", "PLAY", "PAUSE", "QUIT", "SEEK", "VOL", "NONE", "ERR"}

\* The command that a written word stands for: the last prefix match wins and
\* no command string is a prefix of another, so the word decides. A word that
\* is in no table, such as the "set" of README.md, is read as NONE.
CommandOf(word) ==
  CASE word = "put"   -> "SET"
    [] word = "stop"  -> "STOP"
    [] word = "play"  -> "PLAY"
    [] word = "pause" -> "PAUSE"
    [] word = "quit"  -> "QUIT"
    [] word = "seek"  -> "SEEK"
    [] word = "vol"   -> "VOL"
    [] word = "err"   -> "ERR"
    [] OTHER          -> "NONE"

QuitRow == [STOP |-> "EXIT", RUN |-> "RUN", IDLE |-> "IDLE"]

PlayRow == [STOP |-> "LOAD", RUN |-> "RUN", IDLE |-> "ENGAGE"]

\* Mutant: STOP while paused goes to STOP without unloading.
StopRowBug == [STOP |-> "STOP", RUN |-> "UNLOAD", IDLE |-> "STOP"]

StopRow  == [STOP |-> "STOP", RUN |-> "UNLOAD", IDLE |-> "UNLOAD"]

PauseRow == [STOP |-> "STOP", RUN |-> "DISENG", IDLE |-> "ENGAGE"]

ErrRow   == [STOP |-> "STOP", RUN |-> "UNLOAD", IDLE |-> "IDLE"]

\* The rows of SET, SEEK, VOL and NONE.
KeepRow  == [STOP |-> "STOP", RUN |-> "RUN", IDLE |-> "IDLE"]

Row(cmd) ==
  CASE cmd = "STOP"  -> StopRow
    [] cmd = "PLAY"  -> PlayRow
    [] cmd = "PAUSE" -> PauseRow
    [] cmd = "QUIT"  -> QuitRow
    [] cmd = "ERR"   -> ErrRow
    [] OTHER         -> KeepRow

\* transitions[cmd][state]: there is no column for EXIT, and in a straight
\* state every command, CMD_ERR included, has the same successor.
Transition(cmd, state) ==
  IF state \in ReadingStates THEN Row(cmd)[state] ELSE Straight[state]

=============================================================================
