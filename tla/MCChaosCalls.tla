---------------------------- MODULE MCChaosCalls ----------------------------
(* TLC instances of ChaosCalls. *)
EXTENDS ChaosCalls, TLC

\* No action distinguishes the workers, and no property names one.
WorkerSymmetry == Permutations(Workers)
=============================================================================
