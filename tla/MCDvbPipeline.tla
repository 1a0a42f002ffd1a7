--------------------------- MODULE MCDvbPipeline ----------------------------
(***************************************************************************)
(* An instance of DvbPipeline for TLC: two streams of one service, which   *)
(* need a clone, and packets enough to fill the queue of one.              *)
(***************************************************************************)
EXTENDS DvbPipeline

CONSTANTS news,   \* the service
          h1, h2  \* the streams

OneService == {news}
TwoStreams == {h1, h2}

=============================================================================
