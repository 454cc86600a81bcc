----------------------------- MODULE MCHistory -----------------------------
(* TLC instances of History. *)
EXTENDS History, TLC

\* No action distinguishes the jobs or the names, and no property names one.
HistorySymmetry == Permutations(Jobs) \cup Permutations(Names)
\* One job records two runs and another one, or one alone records three.
MCPlans == {[j \in Jobs |-> IF j = k THEN n[1] ELSE n[2]] : k \in Jobs, n \in {<<2, 1>>, <<3, 0>>}}
=============================================================================
