----------------------------- MODULE RenderVlc ------------------------------
(***************************************************************************)
(* ommrender with the libVLC backend (render_vlc.c), the default of the    *)
(* Makefile. The control core is that of RenderControl; loading, playing   *)
(* and pausing are calls to a libvlc media player, which runs threads of   *)
(* its own and goes on while the decoder thread waits for commands. The    *)
(* player is external: it is modelled by what the calls of render_vlc.c    *)
(* rely on. Nothing tells the decoder thread that the player has changed.  *)
(***************************************************************************)
EXTENDS RenderControl

VARIABLES
  player,  \* the state of rctx->player
  hasty    \* history: a pause was toggled while the player was still opening

vlcvars == <<vars, player, hasty>>

PlayerStates == {"idle", "opening", "playing", "paused", "ended", "error"}

VlcTypeOK == TypeOK /\ player \in PlayerStates /\ hasty \in BOOLEAN

VlcInit == Init /\ player = "idle" /\ hasty = FALSE

\* libvlc_media_player_pause toggles; it has no effect unless there is
\* something to pause or to resume.
Toggled(s) ==
  CASE s = "playing" -> "paused"
    [] s = "paused"  -> "playing"
    [] OTHER         -> s

-----------------------------------------------------------------------------
(* The decoder thread *)

\* state_load: the media is set and played and the renderer goes on to RUN
\* without waiting. Without a url there is no media and play does nothing.
VlcLoad ==
  /\ Load
  /\ media' = <<url>>
  /\ player' = IF url = NoUrl THEN player ELSE "opening"
  /\ hasty' = FALSE

\* Mutant: state_unload leaves the player playing.
VlcUnloadBug == Unload /\ UNCHANGED <<player, hasty>>

VlcUnload == Unload /\ player' = "idle" /\ UNCHANGED hasty

\* Mutant: state_disengage mutes the SDL device and leaves the player alone.
VlcToggleBug ==
  /\ Toggle
  /\ player' = IF rstate = "ENGAGE" THEN Toggled(player) ELSE player
  /\ hasty' = (hasty \/ player = "opening")

\* state_engage and state_disengage make the same call.
VlcToggle ==
  /\ Toggle
  /\ player' = Toggled(player)
  /\ hasty' = (hasty \/ player = "opening")

-----------------------------------------------------------------------------
(* The player by itself *)

PlayerEvent ==
  /\ proc = "up"
  /\ \/ player = "opening" /\ player' = "playing"
     \/ player = "playing" /\ player' = "ended"
     \/ player \in {"opening", "playing", "paused"} /\ player' = "error"
  /\ UNCHANGED <<vars, hasty>>

Untouched == UNCHANGED <<player, hasty>>

\* The decoder thread reads commands, or passes through a state. state_run of
\* this backend only reads commands: it meets no error.
VlcDecoder ==
  \/ (ReadCmd \/ Exit) /\ Untouched
  \/ VlcLoad \/ VlcUnload \/ VlcToggle

VlcSend(s) == Send(s) /\ Untouched

VlcNext ==
  \/ (Environment \/ Gone) /\ Untouched
  \/ \E s \in Senders : VlcSend(s)
  \/ VlcDecoder
  \/ PlayerEvent

VlcSpec == VlcInit /\ [][VlcNext]_vlcvars

\* The decoder is a thread of its own, and the calls of the player return. A
\* sender that waits in send() is parked in the channel and is one of those the
\* next free slot is given to, so it is not passed over for ever. Clients, keys
\* and the player's own events need never come.
VlcFairness == WF_vlcvars(VlcDecoder) /\ \A s \in Senders : SF_vlcvars(VlcSend(s))

VlcFairSpec == VlcSpec /\ VlcFairness

-----------------------------------------------------------------------------
(* Properties *)

\* A media is only ever given to a player that was stopped, and the process is
\* not left with a player that plays: whatever the player did by itself since.
PlayerStopped == rstate \in {"STOP", "LOAD", "EXIT"} => player = "idle"

\* Engage and disengage make the same toggling call, so the renderer's IDLE and
\* RUN mean paused and not paused only as long as they keep in step with the
\* player. They do, whatever else happens, unless a pause came while the player
\* was still opening the media; from then on they are the wrong way round.
PauseAgrees ==
  ~hasty => /\ rstate = "IDLE" => player \notin {"opening", "playing"}
            /\ rstate = "RUN"  => player # "paused"

\* A client or a key that waits in send(cmdq) gets through, or the process is
\* gone: whatever the commands were, the decoder comes back to reading them.
\* (A decoder of the FFmpeg backend can stay in a channel for ever instead: see
\* UnloadUnblocks in RenderFfmpeg.)
SendersServed ==
  \A s \in Senders : outbox[s] # <<>> ~> (outbox[s] = <<>> \/ proc # "up")

=============================================================================
