----------------------- MODULE RenderCommands_proofs -----------------------
(***************************************************************************)
(* Lemmas about the command table of the renderer, for the proofs about    *)
(* the control core and its backends.                                      *)
(***************************************************************************)
EXTENDS RenderCommands, TLAPS

\* Every written word stands for a command.
LEMMA CommandOfType == \A w : CommandOf(w) \in CommandNames
BY DEF CommandOf, CommandNames

\* The states that are left without a command, and where they lead.
LEMMA StraightDomain ==
  /\ DOMAIN Straight = {"LOAD", "UNLOAD", "ENGAGE", "DISENG"}
  /\ Straight["LOAD"] = "RUN" /\ Straight["UNLOAD"] = "STOP"
  /\ Straight["ENGAGE"] = "RUN" /\ Straight["DISENG"] = "IDLE"
BY DEF Straight

\* The table leads from a reading state to a state, and it enters STOP, LOAD
\* and EXIT only from STOP: RUN and IDLE are left through UNLOAD.
LEMMA TransitionFromReading ==
  ASSUME NEW c \in CommandNames, NEW s \in ReadingStates
  PROVE  /\ Transition(c, s) \in States
         /\ Transition(c, s) \in {"STOP", "LOAD", "EXIT"} => s = "STOP"
<1>1. Transition(c, s) = Row(c)[s]
  BY DEF Transition
<1>2. Row(c) \in {StopRow, PlayRow, PauseRow, QuitRow, ErrRow, KeepRow}
  BY DEF Row, CommandNames
<1>3. /\ Row(c)[s] \in States
      /\ Row(c)[s] \in {"STOP", "LOAD", "EXIT"} => s = "STOP"
  BY <1>2, StraightDomain
  DEF States, ReadingStates, StopRow, PlayRow, PauseRow, QuitRow, ErrRow, KeepRow
<1> QED
  BY <1>1, <1>3

\* In a straight state the command does not matter.
LEMMA TransitionStraight ==
  \A c : /\ Transition(c, "LOAD") = "RUN"
         /\ Transition(c, "UNLOAD") = "STOP"
         /\ Transition(c, "ENGAGE") = "RUN"
         /\ Transition(c, "DISENG") = "IDLE"
BY StraightDomain DEF Transition, ReadingStates

\* Where the table leads from each state in which commands are read.
LEMMA TransitionRanges ==
  ASSUME NEW c \in CommandNames
  PROVE  /\ Transition(c, "STOP") \in {"STOP", "LOAD", "EXIT"}
         /\ Transition(c, "RUN")  \in {"RUN", "UNLOAD", "DISENG"}
         /\ Transition(c, "IDLE") \in {"IDLE", "UNLOAD", "ENGAGE"}
<1>1. Row(c) \in {StopRow, PlayRow, PauseRow, QuitRow, ErrRow, KeepRow}
  BY DEF Row, CommandNames
<1>2. ASSUME NEW s \in ReadingStates
      PROVE  Transition(c, s) = Row(c)[s]
  BY DEF Transition
<1> QED
  BY <1>1, <1>2 DEF ReadingStates, StopRow, PlayRow, PauseRow, QuitRow, ErrRow, KeepRow

\* An error while running leads to UNLOAD.
LEMMA TransitionError == Transition("ERR", "RUN") = "UNLOAD"
BY DEF Transition, ReadingStates, Row, ErrRow

=============================================================================
