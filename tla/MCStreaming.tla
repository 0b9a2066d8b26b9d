---------------------------- MODULE MCStreaming ----------------------------
(* Streaming with files of a few bytes, for TLC. *)
EXTENDS Streaming

\* Positions in, at the end of and after every file, and the negative ones that a second
\* dash makes.
SmallPositions == -1 .. 5
=============================================================================
