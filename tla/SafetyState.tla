---------------------------- MODULE SafetyState ----------------------------
(***************************************************************************)
(* The safety state one chaos session shares with all its workers          *)
(* (agentic_chaos/safety/__init__.py, SafetyState) and the limits it       *)
(* enforces (CircuitBreaker).                                              *)
(*                                                                         *)
(* Every method of the class holds the state's RLock from its first line   *)
(* to its last, so a method is one atomic step here.  A method that can    *)
(* raise has two operators: XOk, in which it returns, and XRaises, in      *)
(* which it raises.  What the caller does about an exception is the        *)
(* caller's business (ChaosCalls).                                         *)
(*                                                                         *)
(* Abstractions: money is counted in whole units, time is one bit (the     *)
(* session has outlived max_duration_seconds, or not), the failure-rate    *)
(* limit is the fraction RateNum / RateDen.  The abort keeps the           *)
(* threshold, the observed number as a fraction and in_flight_at_abort;    *)
(* the limit follows from the threshold.                                   *)
(***************************************************************************)
EXTENDS Naturals, Sequences, FiniteSets

CONSTANTS
    NoLimit,        \* the value of a limit the breaker was not given (None)
    MaxInjections,  \* max_injections, or NoLimit
    MaxCost,        \* max_cost_usd in whole units, or NoLimit
    HasDuration,    \* whether max_duration_seconds was given
    HasRate,        \* whether max_failure_rate was given
    RateNum,        \* max_failure_rate = RateNum / RateDen
    RateDen,
    WindowSize,     \* window_size
    MinCalls        \* min_calls

\* What CircuitBreaker.__init__ accepts.
ASSUME BreakerAssumption ==
    /\ NoLimit \notin Nat
    /\ MaxInjections \in (Nat \ {0}) \cup {NoLimit}
    /\ MaxCost \in (Nat \ {0}) \cup {NoLimit}
    /\ HasDuration \in BOOLEAN
    /\ HasRate \in BOOLEAN
    /\ RateDen \in Nat \ {0}
    /\ RateNum \in 0 .. RateDen
    /\ WindowSize \in Nat \ {0}
    /\ MinCalls \in 1 .. WindowSize

VARIABLES
    closed,      \* the session has exited
    expired,     \* max_duration_seconds have passed since the session started
    cost,        \* recorded cost
    failures,    \* the last WindowSize outcomes, TRUE for a failed operation
    injections,  \* committed injections
    reserved,    \* _reserved_injections
    inFlight,    \* in_flight
    abort        \* the first threshold that fired, or NoAbort

accounting == <<cost, failures, injections, reserved, inFlight>>
safetyVars == <<closed, expired, cost, failures, injections, reserved, inFlight, abort>>

Thresholds == {"max_cost_usd", "max_failure_rate", "max_duration_seconds", "max_injections"}

\* An observed number: amount / of.  Of the elapsed time the model knows none.
Fractions == [amount : Nat, of : Nat]
Number(n) == [amount |-> n, of |-> 1]
Elapsed == [amount |-> 0, of |-> 0]

Aborts == [threshold : Thresholds \cup {"none"}, observed : Fractions, in_flight_at_abort : Nat]
NoAbort == [threshold |-> "none", observed |-> Elapsed, in_flight_at_abort |-> 0]

SafetyTypeOK ==
    /\ closed \in BOOLEAN
    /\ expired \in BOOLEAN
    /\ cost \in Nat
    /\ failures \in Seq(BOOLEAN)
    /\ Len(failures) <= WindowSize
    /\ injections \in Nat
    /\ reserved \in Nat
    /\ inFlight \in Nat
    /\ abort \in Aborts

SafetyInit ==
    /\ closed = FALSE
    /\ expired = FALSE
    /\ cost = 0
    /\ failures = <<>>
    /\ injections = 0
    /\ reserved = 0
    /\ inFlight = 0
    /\ abort = NoAbort

-----------------------------------------------------------------------------
(* _abort and check *)

Aborted == abort # NoAbort

\* _abort: the first threshold is kept, with the operations running then.
AbortWith(threshold, observed, running) ==
    abort' = IF Aborted THEN abort
             ELSE [threshold |-> threshold, observed |-> observed,
                   in_flight_at_abort |-> running]

\* check returns.
CheckOk == ~closed /\ ~Aborted /\ ~expired

\* check raises; on a live session that has outlived its duration it aborts first.
CheckRaises ==
    /\ ~CheckOk
    /\ IF closed \/ Aborted THEN UNCHANGED abort
       ELSE AbortWith("max_duration_seconds", Elapsed, inFlight)
    /\ UNCHANGED <<closed, expired, accounting>>

-----------------------------------------------------------------------------
(* begin, reserve_injection, complete_injection, inject *)

BeginOk ==
    /\ CheckOk
    /\ inFlight' = inFlight + 1
    /\ UNCHANGED <<closed, expired, cost, failures, injections, reserved, abort>>

BeginRaises == CheckRaises

\* Mutation of BudgetSpent: reservations of calls under way are not counted.
CommittedBudgetSpent == MaxInjections # NoLimit /\ injections >= MaxInjections

\* Mutation of BudgetSpent: one injection too many.
BudgetSpentLate == MaxInjections # NoLimit /\ injections + reserved > MaxInjections

\* admitted >= max_injections
BudgetSpent == MaxInjections # NoLimit /\ injections + reserved >= MaxInjections

ReserveOk ==
    /\ CheckOk
    /\ ~BudgetSpent
    /\ reserved' = reserved + 1
    /\ UNCHANGED <<closed, expired, cost, failures, injections, inFlight, abort>>

ReserveRaises ==
    \/ CheckRaises
    \/ /\ CheckOk
       /\ BudgetSpent
       /\ AbortWith("max_injections", Number(injections + reserved), inFlight)
       /\ UNCHANGED <<closed, expired, accounting>>

Complete(injected) ==
    /\ reserved' = reserved - 1
    /\ injections' = IF injected THEN injections + 1 ELSE injections
    /\ UNCHANGED <<closed, expired, cost, failures, inFlight, abort>>

\* inject: reserve and commit under one hold of the lock.
InjectOk ==
    /\ CheckOk
    /\ ~BudgetSpent
    /\ injections' = injections + 1
    /\ UNCHANGED <<closed, expired, cost, failures, reserved, inFlight, abort>>

InjectRaises == ReserveRaises

-----------------------------------------------------------------------------
(* finish, record_cost, close *)

Failed(window) == {i \in DOMAIN window : window[i]}

\* Mutation of RateExceeded: a rate at the limit is one above it.
RateReached(window) ==
    /\ HasRate
    /\ Len(window) >= MinCalls
    /\ Cardinality(Failed(window)) * RateDen >= RateNum * Len(window)

\* sum(failures) / len(failures) > max_failure_rate, after min_calls completions
RateExceeded(window) ==
    /\ HasRate
    /\ Len(window) >= MinCalls
    /\ Cardinality(Failed(window)) * RateDen > RateNum * Len(window)

Rate(window) == [amount |-> Cardinality(Failed(window)), of |-> Len(window)]

\* Mutation of Slide: the deque has no maxlen.
SlideUnbounded(window, outcome) == Append(window, outcome)

\* append to a deque of maxlen WindowSize
Slide(window, outcome) ==
    Append(IF Len(window) < WindowSize THEN window ELSE Tail(window), outcome)

\* Mutation of Finish: the early return for a stopped session comes first.
FinishSkipsStopped(failed) ==
    IF Aborted \/ closed THEN UNCHANGED safetyVars
    ELSE /\ inFlight' = inFlight - 1
         /\ failures' = Slide(failures, failed)
         /\ IF expired THEN AbortWith("max_duration_seconds", Elapsed, inFlight - 1)
            ELSE IF RateExceeded(failures')
            THEN AbortWith("max_failure_rate", Rate(failures'), inFlight - 1)
            ELSE UNCHANGED abort
         /\ UNCHANGED <<closed, expired, cost, injections, reserved>>

\* finish raises exactly when it aborts, that is when abort' # abort.
Finish(failed) ==
    /\ inFlight' = inFlight - 1
    /\ failures' = Slide(failures, failed)
    /\ IF Aborted \/ closed THEN UNCHANGED abort
       ELSE IF expired THEN AbortWith("max_duration_seconds", Elapsed, inFlight - 1)
       ELSE IF RateExceeded(failures')
       THEN AbortWith("max_failure_rate", Rate(failures'), inFlight - 1)
       ELSE UNCHANGED abort
    /\ UNCHANGED <<closed, expired, cost, injections, reserved>>

\* The cost is recorded even when it reaches the limit and the call raises; on a
\* stopped session record_cost raises as check does.
RecordCostOk(amount) ==
    /\ CheckOk
    /\ cost' = cost + amount
    /\ IF MaxCost # NoLimit /\ cost' >= MaxCost
       THEN AbortWith("max_cost_usd", Number(cost'), inFlight) ELSE UNCHANGED abort
    /\ UNCHANGED <<closed, expired, failures, injections, reserved, inFlight>>

CloseSafety ==
    /\ closed' = TRUE
    /\ UNCHANGED <<expired, accounting, abort>>

\* The clock passes max_duration_seconds.
Expire ==
    /\ HasDuration
    /\ ~expired
    /\ expired' = TRUE
    /\ UNCHANGED <<closed, accounting, abort>>

=============================================================================
