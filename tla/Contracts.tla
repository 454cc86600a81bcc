----------------------------- MODULE Contracts ------------------------------
(***************************************************************************)
(* The chaos contracts: pass/fail/inconclusive verdicts over a finished    *)
(* report, and the views of its call log they share (agentic_chaos/        *)
(* contracts).  Messages and observed values are left out; a verdict is    *)
(* the status only.                                                        *)
(* The form of a report is in Reports.                                     *)
(***************************************************************************)
EXTENDS Integers, Sequences, FiniteSets, Reports
LOCAL INSTANCE FiniteSetsExt

Missing(report, field) == field \notin report.recorded

StepKey(call) == <<call.kind, call.name>>

CallSet(report) == {report.calls[i] : i \in DOMAIN report.calls}
InStartOrder(calls) ==
    [n \in 1..Cardinality(calls) |->
        CHOOSE c \in calls : Cardinality({d \in calls : d.sequence <= c.sequence}) = n]
OrderedCalls(report) == InStartOrder(CallSet(report))

\* Consecutive failures of the step of calls[n], counted just before calls[n].
StreakBefore(calls, n) ==
    LET earlier == {i \in 1..(n - 1) : StepKey(calls[i]) = StepKey(calls[n])}
        oks == {i \in earlier : calls[i].ok}
    IN  Cardinality({i \in earlier : \A k \in oks : i > k})

\* A retry: a call of a named step whose previous call raised.
FindRetries(report) ==
    LET calls == OrderedCalls(report)
    IN  {[step |-> calls[n].name, at |-> calls[n].at, streak |-> StreakBefore(calls, n), n |-> n] :
            n \in {i \in DOMAIN calls : calls[i].name # Unnamed /\ StreakBefore(calls, i) > 0}}

MaxRetriesOf(report, step) ==
    Max({0} \union {r.streak : r \in {q \in FindRetries(report) :
                                         step = NoValue \/ q.step = step}})

VisitedNodes(report) == report.nodes \union ({c.name : c \in CallSet(report)} \ {Unnamed})

InjectedFailures(report) == {i \in DOMAIN report.events : report.events[i].outcome = "errored"}

\* Mutation of UnrecoveredSteps: any successful call of the step will do.
UnrecoveredStepsAnytime(report) ==
    LET calls == OrderedCalls(report)
        Hit(i) == calls[i].name # Unnamed /\ ~calls[i].ok /\ calls[i].event # 0
    IN  {calls[i].name : i \in {k \in DOMAIN calls : Hit(k) /\
            \A j \in DOMAIN calls : ~(calls[j].ok /\ calls[j].name = calls[k].name)}}

\* Steps an injected failure hit, by name, with no successful call after it.
UnrecoveredSteps(report) ==
    LET calls == OrderedCalls(report)
        Hit(i) == calls[i].name # Unnamed /\ ~calls[i].ok /\ calls[i].event # 0
    IN  {calls[i].name : i \in {k \in DOMAIN calls : Hit(k) /\
            \A j \in (k + 1)..Len(calls) : ~(calls[j].ok /\ calls[j].name = calls[k].name)}}

-----------------------------------------------------------------------------
Verdict(passes) == IF passes THEN "passed" ELSE "failed"

CompletesWithin(report, budget) ==
    IF report.elapsed = NoValue THEN "inconclusive" ELSE Verdict(report.elapsed <= budget)

NoUnhandledError(report) ==
    IF Missing(report, "unhandled_error") THEN "inconclusive" ELSE Verdict(~report.raised)

LogUnusable(report) == Missing(report, "calls") \/ report.dropped > 0

MaxRetries(report, n, step) ==
    IF LogUnusable(report) THEN "inconclusive" ELSE Verdict(MaxRetriesOf(report, step) <= n)

RecoveredAfterFailure(report, stepSuccess) ==
    CASE InjectedFailures(report) = {} -> "inconclusive"
      [] InjectedFailures(report) # {} /\ (report.raised \/ report.aborted) -> "failed"
      [] OTHER ->
           IF Missing(report, "unhandled_error") \/ (stepSuccess /\ Missing(report, "calls"))
           THEN "inconclusive"
           ELSE IF stepSuccess /\ UnrecoveredSteps(report) # {}
                THEN IF report.dropped > 0 THEN "inconclusive" ELSE "failed"
                ELSE "passed"

\* factor is num/den of the baseline; the reference is a baseline report or value.
MaxCostImpact(report, baseline, value, metric, num, den) ==
    LET Measure(r) == IF metric = "calls" THEN Len(r.calls) + r.dropped ELSE r.cost
        old == /\ metric = "calls"
               /\ \/ Missing(report, "calls")
                  \/ (baseline # NoValue /\ Missing(baseline, "calls"))
        reference == IF value # NoValue THEN value ELSE Measure(baseline)
    IN  IF old \/ (value = NoValue /\ baseline = NoValue) THEN "inconclusive"
        ELSE IF reference = 0
             THEN IF Measure(report) = 0 THEN "inconclusive" ELSE "failed"
             ELSE Verdict(Measure(report) * den <= num * reference)

\* The sliding window over the retries sorted by start: when it ends at one of
\* them it holds that one and those that began within the window before it.
PeakInWindow(retries, window) ==
    LET Held(last) == {r \in retries : r.at \in (last.at - window)..last.at}
    IN  Max({0} \union {Cardinality(Held(last)) : last \in retries})

NoRetryStorm(report, limit, window) ==
    LET retries == FindRetries(report)
    IN  IF LogUnusable(report) \/ (\E r \in retries : r.at = NoValue) THEN "inconclusive"
        ELSE Verdict(PeakInWindow(retries, window) <= limit)

FullTopologyTraversal(report, baseline, expected, ignore) ==
    LET wanted == (IF expected # NoValue THEN expected
                   ELSE IF baseline # NoValue THEN VisitedNodes(baseline) ELSE {}) \ ignore
    IN  IF wanted = {} THEN "inconclusive"
        ELSE IF wanted \subseteq VisitedNodes(report) THEN "passed"
        ELSE IF LogUnusable(report) THEN "inconclusive" ELSE "failed"

ContractKinds ==
    {"completes_within", "no_unhandled_error", "max_retries", "recovered_after_failure", "max_cost_impact",
     "no_retry_storm", "full_topology_traversal"}

\* A contract is a record of its kind and parameters.
Check(contract, report, baseline) ==
    CASE contract.kind = "completes_within" -> CompletesWithin(report, contract.n)
      [] contract.kind = "no_unhandled_error" -> NoUnhandledError(report)
      [] contract.kind = "max_retries" -> MaxRetries(report, contract.n, contract.step)
      [] contract.kind = "recovered_after_failure" ->
            RecoveredAfterFailure(report, contract.stepSuccess)
      [] contract.kind = "max_cost_impact" ->
            MaxCostImpact(report, baseline, contract.step, contract.metric, contract.n, 1)
      [] contract.kind = "no_retry_storm" -> NoRetryStorm(report, contract.n, contract.window)
      [] contract.kind = "full_topology_traversal" ->
            FullTopologyTraversal(report, baseline, contract.step, {})

\* check_contracts and ContractReport.passed: inconclusive never passes.
CheckContracts(contracts, report, baseline) ==
    [i \in DOMAIN contracts |-> Check(contracts[i], report, baseline)]
AllPassed(results) == \A i \in DOMAIN results : results[i] = "passed"

-----------------------------------------------------------------------------
(* containment: _assert_observations over a verified sequence of records,  *)
(* each with kind, own (the subject and task are the asserted ones), call. *)

\* Mutation of Own: the records of other tasks count too.
OwnOrNot(records, kind, indices) == {i \in indices : records[i].kind = kind}

Own(records, kind, indices) ==
    {i \in indices : records[i].kind = kind /\ records[i].own}
CallsOf(records, indices) == {records[i].call : i \in indices}

\* The scan: no call is dispatched twice, none completes that is not pending.
WellFormed(records) ==
    \A i \in Own(records, "dispatched", DOMAIN records) \union Own(records, "completed", DOMAIN records) :
        LET earlier(kind) == {j \in Own(records, kind, 1..(i - 1)) : records[j].call = records[i].call}
        IN  IF records[i].kind = "dispatched" THEN earlier("dispatched") = {}
            ELSE earlier("dispatched") # {} /\ earlier("completed") = {}

\* "ack" is the index of the acknowledgement, 0 when it is missing.
AssertObservations(records, ack, attempted) ==
    LET before == 1..(ack - 1)
        after == (ack + 1)..Len(records)
        running == CallsOf(records, Own(records, "dispatched", before))
                     \ CallsOf(records, Own(records, "completed", before))
        completed == CallsOf(records, Own(records, "completed", after))
    IN  IF /\ attempted # {} /\ WellFormed(records) /\ ack # 0
           /\ records[ack].kind = "stop_acknowledged" /\ records[ack].own
           /\ Own(records, "dispatched", after) = {}
           /\ attempted \subseteq CallsOf(records, Own(records, "denied", after))
           /\ completed \subseteq running
        THEN [ok |-> TRUE, running |-> running, completed |-> completed]
        ELSE [ok |-> FALSE, running |-> {}, completed |-> {}]
=============================================================================
