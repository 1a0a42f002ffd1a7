---------------------------- MODULE MCRenderVlc -----------------------------
(***************************************************************************)
(* An instance of RenderVlc for TLC. README.md's "set" is left out: the     *)
(* table knows it as NONE, of which "vol" is an example.                    *)
(***************************************************************************)
EXTENDS RenderVlc

CONSTANTS u1

OneUrl   == {u1}
VlcWords == {"put", "play", "pause", "stop", "quit", "vol"}
=============================================================================
