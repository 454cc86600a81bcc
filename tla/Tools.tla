------------------------------- MODULE Tools --------------------------------
(***************************************************************************)
(* The tools around the chaos core, in one specification: each behaviour   *)
(* is one use of one of them.  They share no state in the code, so nothing *)
(* is lost by running them apart; what they do share are the reports, the  *)
(* scopes and the contracts they are built from.                           *)
(***************************************************************************)
EXTENDS Evaluations, Experiments, ChaosRuns, Campaigns, Drift, Cron, ProviderPatches, Topology

Init ==
    \/ PatchInit \/ RunInit \/ EvalInit \/ ExperimentInit
    \/ FuzzInit \/ SearchInit \/ DriftInit \/ CronInit \/ TopologyInit

Next ==
    \/ PatchNext \/ RunNext \/ EvalNext \/ ExperimentNext
    \/ FuzzNext \/ TrySeverity \/ DriftNext \/ CronNext \/ TopologyNext

Spec == Init /\ [][Next]_toolVars
=============================================================================
