----------------------------- MODULE MCStreams -----------------------------
(* One and two processes, one-byte alphabet plus the text of the files.    *)
EXTENDS Streams
MCText == <<1, 2, 3>>
=============================================================================
