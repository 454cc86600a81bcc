------------------------------ MODULE ToolRun -------------------------------
(***************************************************************************)
(* What the offline tools share: one tool runs at a time, "job" is what it *)
(* was asked (chosen at the start and never changed) and "run" is how far  *)
(* it has come.  Each tool is a module of its own over these variables.    *)
(***************************************************************************)
EXTENDS Integers, Sequences, FiniteSets, Reports

VARIABLES job, run

toolVars == <<job, run>>
=============================================================================
