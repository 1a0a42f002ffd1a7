-------------------------- MODULE MCRenderControl ---------------------------
(***************************************************************************)
(* Instances of RenderControl for TLC. The client names urls and plays; the *)
(* keys send the other commands, which enter the queue in the same way, and *)
(* no key names a url. README.md writes "set" where the table has "put".   *)
(***************************************************************************)
EXTENDS RenderControl

CONSTANT u1

OneUrl == {u1}

ClientWords == {"put", "play"}
ReadmeWords == {"set", "play", "stop"}

=============================================================================
