-------------------------- MODULE InjectionBudget --------------------------
(***************************************************************************)
(* What max_injections promises (docs/safety.md, CircuitBreaker): a budget *)
(* of injections.  An injection is admitted before its fault executes, and *)
(* the admission is either spent, when the fault produces an event, or     *)
(* given back.  At no time is more than the budget admitted, and once the  *)
(* session has aborted or ended nothing more is.                           *)
(***************************************************************************)
EXTENDS Naturals

CONSTANTS Budget, NoLimit

VARIABLES admitted, spent, stopped

budgetVars == <<admitted, spent, stopped>>

Init == admitted = 0 /\ spent = 0 /\ stopped = FALSE

Admit ==
    /\ ~stopped
    /\ Budget = NoLimit \/ admitted < Budget
    /\ admitted' = admitted + 1
    /\ UNCHANGED <<spent, stopped>>

Spend ==
    /\ spent < admitted
    /\ spent' = spent + 1
    /\ UNCHANGED <<admitted, stopped>>

GiveBack ==
    /\ spent < admitted
    /\ admitted' = admitted - 1
    /\ UNCHANGED <<spent, stopped>>

\* A stream fault is admitted and spent at once, where delivery is affected.
Commit ==
    /\ ~stopped
    /\ Budget = NoLimit \/ admitted < Budget
    /\ admitted' = admitted + 1
    /\ spent' = spent + 1
    /\ UNCHANGED stopped

Stop ==
    /\ stopped' = TRUE
    /\ UNCHANGED <<admitted, spent>>

Next == Admit \/ Spend \/ GiveBack \/ Commit \/ Stop

Spec == Init /\ [][Next]_budgetVars

=============================================================================
