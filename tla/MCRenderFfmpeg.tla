--------------------------- MODULE MCRenderFfmpeg ---------------------------
(***************************************************************************)
(* Instances of RenderFfmpeg for TLC.                                      *)
(***************************************************************************)
EXTENDS RenderFfmpeg

AudioVideo == {Streams}
WithAudio  == {Streams, {"audio"}}
OneStream  == {{"audio"}, {"video"}}

PlayStop   == {"PLAY", "STOP"}
AllKinds   == {"PLAY", "STOP", "PAUSE", "QUIT"}
=============================================================================
