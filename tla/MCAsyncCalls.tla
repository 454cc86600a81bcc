---------------------------- MODULE MCAsyncCalls ----------------------------
(* TLC instances of AsyncCalls. *)
EXTENDS AsyncCalls, TLC

\* No action distinguishes the tasks, and no property names one.
TaskSymmetry == Permutations(Workers)
=============================================================================
