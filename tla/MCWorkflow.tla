---------------------------- MODULE MCWorkflow ----------------------------
(***************************************************************************)
(* TLC instances of Workflow: a step, a parallel block with a nested one,  *)
(* a gate, and a check behind it.                                          *)
(***************************************************************************)
EXTENDS Workflow, TLC

MCTop == <<"warm", "block", "gate", "final">>
MCBranches ==
  "block" :> <<<<"probe", "left">>, <<"inner", "guard">>>> @@ "inner" :> <<<<"one">>, <<"two">>>>
MCSteps == {"warm", "left", "one", "two"}
MCChecks == {"probe", "guard", "final"}

\* A worker per branch; and max_workers=1 inside, so that branches queue.
MCWorkers == "block" :> 2 @@ "inner" :> 1
===========================================================================
