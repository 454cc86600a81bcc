----------------------------- MODULE Resilience -----------------------------
(***************************************************************************)
(* The 0-100 resilience score of a finished report (resilience/score.py):  *)
(* five components, each a number of 0..One or NoValue when the report     *)
(* cannot show it, and their weighted mean over those that it can.         *)
(* One is divisible by every denominator a bounded report can produce, so  *)
(* the arithmetic is exact; the noise of the floating point is left out.   *)
(* Reports are the records of Contracts.                                   *)
(***************************************************************************)
EXTENDS Contracts
LOCAL INSTANCE FiniteSetsExt

One == 840
HalfOne == 420
Least(x, y) == IF x < y THEN x ELSE y
Most(x, y) == IF x > y THEN x ELSE y

DefaultWeights == [recovery |-> 35, probes |-> 25, latency |-> 15, retryEfficiency |-> 15, cost |-> 10]

\* sum(), over a list and over the five components.
Total(list) ==
    LET sum[n \in 0..Len(list)] == IF n = 0 THEN 0 ELSE sum[n - 1] + list[n]
    IN  sum[Len(list)]
OfComponents(x) == x.recovery + x.probes + x.latency + x.retryEfficiency + x.cost
Only(x, indices) == [i \in DOMAIN x |-> IF i \in indices THEN x[i] ELSE 0]

\* The event the unhandled error came from; an error that carries none is
\* blamed on the last event that did not merely degrade an output.
EscapedEventId(report) ==
    LET blamed == {i \in DOMAIN report.events : report.events[i].outcome # "degraded"}
    IN  CASE ~report.raised -> 0
          [] report.raised /\ report.carries # 0 -> report.carries
          [] OTHER -> IF blamed = {} THEN 0 ELSE report.events[Max(blamed)].id

\* A step, for the score, is the contracts' within one stage of a workflow.
StageStep(call) == <<call.stage, StepKey(call)>>

\* A failed call was retried, or its step was not called again (a fallback:
\* also said of a call whose record was dropped), or every retry failed.
AfterFailure(event, calls) ==
    LET hit == {c \in calls : c.event = event.id}
        last == CHOOSE c \in hit : \A d \in hit : d.sequence <= c.sequence
        later == {c \in calls : c.sequence > last.sequence /\ StageStep(c) = StageStep(last)}
    IN  IF hit = {} THEN "fallback"
        ELSE IF last.name = Unnamed \/ later = {} THEN "fallback"
        ELSE IF \E c \in later : c.ok THEN "retried" ELSE "unrecovered"

EventVerdict(report, event) ==
    CASE event.id = EscapedEventId(report) -> "escaped"
      [] event.id # EscapedEventId(report) /\ event.outcome = "degraded" ->
            IF event.fidelity = NoValue THEN "unverified" ELSE "judged"
      [] event.id # EscapedEventId(report) /\ event.outcome = "errored" ->
            AfterFailure(event, CallSet(report))
      [] OTHER -> "tolerated"

EventValue(report, event) ==
    LET verdict == EventVerdict(report, event)
    IN  CASE verdict \in {"retried", "fallback", "tolerated"} -> One
          [] verdict = "judged" -> (Most(0, Least(100, event.fidelity)) * One) \div 100
          [] verdict \in {"escaped", "unrecovered"} -> 0
          [] verdict = "unverified" -> NoValue

Recovery(report) ==
    LET value == [i \in DOMAIN report.events |-> EventValue(report, report.events[i])]
        valued == {i \in DOMAIN value : value[i] # NoValue}
    IN  IF valued = {} THEN NoValue ELSE Total(Only(value, valued)) \div Cardinality(valued)

\* A during result counts half as much as a post result.
Probes(report) ==
    LET counted == {i \in DOMAIN report.probes : report.probes[i].phase \in {"during", "post"}}
        share == [i \in DOMAIN report.probes |->
                     report.probes[i].weight * (IF report.probes[i].phase = "during" THEN 1 ELSE 2)]
        total == Total(Only(share, counted))
    IN  IF total = 0 THEN NoValue
        ELSE (One * Total(Only(share, {i \in counted : report.probes[i].passed}))) \div total

\* One less the excess over the baseline in units of the tolerance.
Overhead(observed, reference, tolerance) ==
    Most(0, One - (One * Most(0, observed - reference)) \div (tolerance * reference))

Latency(report, baseline) ==
    IF baseline = NoReport THEN NoValue
    ELSE IF report.elapsed = NoValue \/ baseline.elapsed \in {NoValue, 0} THEN NoValue
    ELSE Overhead(report.elapsed, baseline.elapsed, 2)

RetryEfficiency(report) ==
    LET failures == Cardinality(InjectedFailures(report))
        retries == Cardinality(FindRetries(report))
    IN  IF failures = 0 \/ report.calls = <<>> \/ report.dropped > 0 \/ retries = 0 THEN NoValue
        ELSE Least(One, (One * failures) \div retries)

Cost(report, baseline) ==
    IF baseline = NoReport THEN NoValue
    ELSE IF baseline.cost = 0 THEN NoValue ELSE Overhead(report.cost, baseline.cost, 1)

Components(report, baseline) ==
    [recovery |-> Recovery(report), probes |-> Probes(report),
     latency |-> Latency(report, baseline), retryEfficiency |-> RetryEfficiency(report),
     cost |-> Cost(report, baseline)]

\* round(): to the nearest integer, a half to the even one.
RoundHalfEven(n, d) ==
    LET q == n \div d
        r == 2 * (n % d)
    IN  IF r < d \/ (r = d /\ q % 2 = 0) THEN q ELSE q + 1

\* Mutation of FailedPre: the last probe result decides.
FailedPreLast(report) == report.probes # <<>> /\ ~report.probes[Len(report.probes)].passed

FailedPre(report) == \E i \in DOMAIN report.probes :
                        report.probes[i].phase = "pre" /\ ~report.probes[i].passed

ComputeResilience(report, baseline, weights) ==
    LET parts == Components(report, baseline)
        scored == {c \in DOMAIN parts : parts[c] # NoValue /\ weights[c] > 0}
        total == OfComponents(Only(weights, scored))
        sum == OfComponents([c \in DOMAIN parts |-> IF c \in scored THEN weights[c] * parts[c] ELSE 0])
    IN  IF report.events # <<>> /\ ~report.dry /\ ~FailedPre(report) /\ scored # {}
        THEN RoundHalfEven(100 * sum, total * One) ELSE NoValue

\* meets(): an inconclusive score meets no threshold.
Meets(score, minimum) == IF score = NoValue THEN FALSE ELSE score >= minimum

=============================================================================
