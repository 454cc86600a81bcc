----------------------------- MODULE MCStreams -----------------------------
(* TLC instances of Streams. *)
EXTENDS Streams, TLC

\* No action distinguishes the streams, and no property names one.
StreamSymmetry == Permutations(Streams)
=============================================================================
