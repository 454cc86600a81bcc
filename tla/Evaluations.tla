---------------------------- MODULE Evaluations -----------------------------
(***************************************************************************)
(* The pure judgements of the library, asked one question at a time: a     *)
(* contract and the resilience verdicts on the report of a run whose call  *)
(* log was cut short, the merged report of a workflow, two scopes combined *)
(* and the evidence of a stop.                                             *)
(* The question is chosen at the start; the answer is the code's.          *)
(***************************************************************************)
EXTENDS ToolRun, Resilience, Scopes

CONSTANTS
    LoggedRuns,     \* complete call logs: sequences of name, kind, ok, event
    StageRuns,      \* reports of the first and of the second step of a workflow
    Questions,      \* contracts
    ScopePairs,     \* pairs of scopes
    Stops           \* observations, acknowledgement and attempted calls

\* Scopes that Scope.__init__ accepts: what they include are sets of labels, and
\* there is a label that they do not exclude.
ASSUME ScopeAssumption ==
    \A pair \in ScopePairs :
        /\ \A s \in {pair[1], pair[2]} :
              /\ ScopeValid(s) /\ "elsewhere" \notin s.notSteps \union s.notProviders
              /\ NoValue \notin {s, Intersect(pair[1], pair[2])}
        /\ Everywhere \notin {pair[1].steps, pair[2].steps} => pair[1].steps \intersect pair[2].steps # Everywhere
        /\ Everywhere \notin {pair[1].providers, pair[2].providers} =>
              pair[1].providers \intersect pair[2].providers # Everywhere

\* The acknowledgement is one of the records, or missing.
Observation == [kind : {"dispatched", "completed", "denied", "stop_acknowledged"}, own : BOOLEAN, call : Nat]
ASSUME StopAssumption ==
    \A s \in Stops : s.records \in Seq(Observation) /\ s.ack \in 0..Len(s.records)

\* In a complete log only calls that a fault hit name an event, and each its own.
\* The calls of a stage are numbered from 1, and the stages of a workflow, which
\* have sessions of their own, do not share the ids of events.
IsList(s) == Len(s) \in Nat /\ s \in [1..Len(s) -> {s[i] : i \in 1..Len(s)}]
Ids(report) == {report.events[i].id : i \in 1..Len(report.events)}
StageReport(report) ==
    /\ IsList(report.events) /\ Ids(report) \subseteq Nat \ {0}
    /\ report.raised \in BOOLEAN /\ report.carries \in {0} \union Ids(report) /\ IsList(report.calls)
    /\ \A i \in 1..Len(report.calls) :
          /\ report.calls[i].sequence = i /\ report.calls[i].stage = 0
          /\ report.calls[i].ok \in BOOLEAN /\ report.calls[i].event \in {0} \union Ids(report)
ASSUME EvidenceAssumption ==
    /\ \A log \in LoggedRuns :
          /\ IsList(log)
          /\ \A i \in 1..Len(log) :
                /\ log[i].ok \in BOOLEAN /\ log[i].event \in Nat
                /\ \A k \in 1..Len(log) : log[k].event = log[i].event => log[i].event = 0 \/ k = i
    /\ \A q \in Questions :
          q.kind \in ContractKinds /\ (q.kind = "recovered_after_failure" => q.stepSuccess \in BOOLEAN)
    /\ \A s \in StageRuns : StageReport(s[1]) /\ StageReport(s[2]) /\ Ids(s[1]) \intersect Ids(s[2]) = {}

\* The report of a run: its events are the ones its calls name, and a call
\* starts at its number.  A full log keeps some of the records (those that
\* finished first) and counts the others.
CallOf(log, i) == [sequence |-> i, kind |-> log[i].kind, name |-> log[i].name, ok |-> log[i].ok,
                   event |-> log[i].event, at |-> i, stage |-> 0]
Reported(log, kept, raised) ==
    LET hits == InStartOrder({CallOf(log, i) : i \in {k \in DOMAIN log : log[k].event # 0}})
    IN  [calls |-> InStartOrder({CallOf(log, i) : i \in kept}),
         dropped |-> Len(log) - Cardinality(kept),
         recorded |-> {"calls", "unhandled_error"},
         events |-> [n \in DOMAIN hits |->
                        [id |-> hits[n].event, type |-> "fault", fidelity |-> NoValue,
                         outcome |-> IF hits[n].ok THEN "degraded" ELSE "errored"]],
         raised |-> raised, carries |-> 0, aborted |-> FALSE, dry |-> FALSE,
         elapsed |-> NoValue, cost |-> 0, nodes |-> {}, probes |-> <<>>]

\* Topologies are united by node name.
MergedTopology(nodes, others) == nodes \union others

Whole(log, raised) == Reported(log, DOMAIN log, raised)
Cut == Reported(job.log, job.kept, job.raised)

Restaged(calls, stage, offset) ==
    [i \in 1..Len(calls) |->
        [sequence |-> offset + i, kind |-> calls[i].kind, name |-> calls[i].name, ok |-> calls[i].ok,
         event |-> calls[i].event, at |-> offset + i, stage |-> stage]]

\* to_chaos_report of two steps: their calls renumbered under their stage, their
\* events, and the first error that escaped.
Merged(first, second) ==
    LET leader == IF first.raised THEN first ELSE second
    IN  [calls |-> Restaged(first.calls, 1, 0) \o Restaged(second.calls, 2, Len(first.calls)),
         dropped |-> first.dropped + second.dropped, recorded |-> first.recorded,
         events |-> first.events \o second.events, raised |-> leader.raised, carries |-> leader.carries,
         aborted |-> first.aborted \/ second.aborted, dry |-> first.dry, elapsed |-> first.elapsed,
         cost |-> first.cost + second.cost, nodes |-> MergedTopology(first.nodes, second.nodes),
         probes |-> first.probes]

EvalInit ==
    /\ \/ \E log \in LoggedRuns : \E kept \in SUBSET DOMAIN log, q \in Questions, raised \in BOOLEAN :
             job = [tool |-> "contract", log |-> log, kept |-> kept, question |-> q, raised |-> raised]
       \/ \E stages \in StageRuns : job = [tool |-> "merge", first |-> stages[1], second |-> stages[2]]
       \/ job \in [tool : {"scope"}, pair : ScopePairs]
       \/ job \in [tool : {"stop"}, stop : Stops]
    /\ run = [pc |-> "asked"]

Asked(tool) == job.tool = tool /\ run.pc = "asked"

\* One contract, and the score's verdict on each event.
JudgeReport ==
    /\ Asked("contract")
    /\ run' = [pc |-> "answered", status |-> Check(job.question, Cut, NoValue),
               verdicts |-> {EventVerdict(Cut, Cut.events[i]) : i \in DOMAIN Cut.events}]
    /\ UNCHANGED job

\* The score of a workflow is that of its merged report; the verdict on each
\* event, by its id.
VerdictsOn(report) ==
    {<<report.events[i].id, EventVerdict(report, report.events[i])>> : i \in DOMAIN report.events}
ScoreMerged ==
    /\ Asked("merge")
    /\ LET merged == Merged(job.first, job.second)
       IN  run' = [pc |-> "answered", verdicts |-> VerdictsOn(merged), retries |-> Cardinality(FindRetries(merged))]
    /\ UNCHANGED job

\* Scope.intersect: NoValue when it raises.
CombineScopes ==
    /\ Asked("scope")
    /\ LET both == Intersect(job.pair[1], job.pair[2])
       IN  run' = [pc |-> "answered", scope |-> IF ScopeValid(both) THEN both ELSE NoValue]
    /\ UNCHANGED job

AssertStop ==
    /\ Asked("stop")
    /\ run' = [pc |-> "answered",
               found |-> AssertObservations(job.stop.records, job.stop.ack, job.stop.attempted)]
    /\ UNCHANGED job

EvalNext == JudgeReport \/ ScoreMerged \/ CombineScopes \/ AssertStop

-----------------------------------------------------------------------------
Answered(tool) == job.tool = tool /\ run.pc = "answered"

\* The verdict on a report whose log was cut short is that on the complete one,
\* or inconclusive.
TruncationHonest ==
    Answered("contract") =>
        run.status \in {"inconclusive", Check(job.question, Whole(job.log, job.raised), NoValue)}

\* A call of a named step that an injected failure hit.
Hit(record) == record.name # Unnamed /\ ~record.ok /\ record.event # 0

\* The same of every contract but recovered_after_failure: requiring each step's
\* success, it takes a step for recovered when the record of the failed call was
\* dropped, whatever else is known of the step (builtin.py:183-190), and passes a
\* run that failed in no other case.  And with the log complete it agrees with
\* the score: requiring each step's success, it passes a run only if no error
\* escaped and the score found no event unrecovered, and fails one only if some
\* event was not retried, when the calls of a name are all of one kind.
ContractsAgree ==
    Answered("contract") =>
        LET whole == Check(job.question, Whole(job.log, job.raised), NoValue)
            recovered == job.question.kind = "recovered_after_failure"
            strict == IF recovered THEN job.question.stepSuccess ELSE FALSE
            oneKind == \A i, k \in DOMAIN job.log :
                          job.log[i].name = job.log[k].name => job.log[i].kind = job.log[k].kind
        IN  /\ \/ run.status \in {"inconclusive", whole}
               \/ /\ strict /\ run.status = "passed"
                  /\ \E i \in DOMAIN job.log \ job.kept : Hit(job.log[i])
            /\ (strict /\ job.kept = DOMAIN job.log /\ oneKind) =>
                  /\ run.status = "passed" => run.verdicts \intersect {"escaped", "unrecovered"} = {}
                  /\ run.status = "failed" => run.verdicts \intersect {"escaped", "unrecovered", "fallback"} # {}

\* Merging the steps of a workflow changes the verdict on an event only where
\* an error is lost or misplaced: a second step's error is dropped, and an error
\* that carries no event is blamed on the last fault of any step
\* (report.py:168, score.py:309).  Retries are only added, by a name that both
\* steps call (analysis.py:60 does not look at the stage).
MergeAgrees ==
    Answered("merge") =>
        LET own == VerdictsOn(job.first) \union VerdictsOn(job.second)
            retries == Cardinality(FindRetries(job.first)) + Cardinality(FindRetries(job.second))
            names(report) == {report.calls[i].name : i \in DOMAIN report.calls}
            traced == /\ ~(job.first.raised /\ job.second.raised)
                      /\ job.first.raised /\ job.first.carries = 0 =>
                            \A i \in DOMAIN job.second.events : job.second.events[i].outcome = "degraded"
                      /\ job.second.raised /\ job.second.carries = 0 =>
                            \E i \in DOMAIN job.second.events : job.second.events[i].outcome # "degraded"
        IN  /\ traced => run.verdicts = own
            /\ \A v \in run.verdicts \ own : v[2] = "escaped" \/ <<v[1], "escaped">> \in own
            /\ run.retries >= retries
            /\ names(job.first) \intersect names(job.second) = {} => run.retries = retries

\* The library judges one run in three places, and they agree where they can: a
\* contract on a truncated log with the same contract on the whole one, a contract
\* with the resilience score, and the score of a merged report with the scores of
\* its steps.
VerdictsAgree == ContractsAgree /\ MergeAgrees

\* Two scopes combined allow what both allow, and there is no combination only
\* where they have nothing in common.
ScopesCombine ==
    Answered("scope") =>
        LET steps == UNION {s.steps : s \in {t \in {job.pair[1], job.pair[2]} : t.steps # Everywhere}}
            names == {"elsewhere"} \union steps \union job.pair[1].notSteps \union job.pair[2].notSteps
            providers == UNION {s.providers : s \in {t \in {job.pair[1], job.pair[2]} : t.providers # Everywhere}}
            vendors == {"elsewhere"} \union providers \union job.pair[1].notProviders \union job.pair[2].notProviders
            shared == {c \in names \X vendors :
                          Allows(job.pair[1], c[1], c[2]) /\ Allows(job.pair[2], c[1], c[2])}
        IN  IF run.scope = NoValue THEN shared = {}
            ELSE shared # {} /\ \A c \in names \X vendors : Allows(run.scope, c[1], c[2]) <=> c \in shared

\* Replay of observations as the dispatcher would have made them: the calls
\* running after the first n records, of the asserted task.
Running(records, n) ==
    {c \in {records[i].call : i \in 1..n} :
        /\ \E i \in 1..n : records[i].own /\ records[i].kind = "dispatched" /\ records[i].call = c
        /\ ~\E i \in 1..n : records[i].own /\ records[i].kind = "completed" /\ records[i].call = c}

\* One record less.
Without(records, i) == [k \in 1..(Len(records) - 1) |-> records[IF k < i THEN k ELSE k + 1]]

\* The assertion accepts evidence only if a dispatcher that stopped could have
\* left it: after the acknowledgement the running calls only become fewer, down
\* from the ones it names, and each call that was attempted was denied; and
\* the answer is the same without a record of another task.
StopShown ==
    Answered("stop") =>
        LET s == job.stop
            n == Len(s.records)
        IN  /\ run.found.ok =>
                  /\ Running(s.records, s.ack) = run.found.running
                  /\ \A i \in s.ack..(n - 1) : Running(s.records, i + 1) \subseteq Running(s.records, i)
                  /\ run.found.completed = run.found.running \ Running(s.records, n)
                  /\ \A c \in s.attempted : \E i \in s.ack..n :
                        s.records[i].kind = "denied" /\ s.records[i].own /\ s.records[i].call = c
            /\ \A i \in 1..n : (s.ack # 0 /\ s.records[s.ack].own /\ ~s.records[i].own) =>
                  run.found = AssertObservations(Without(s.records, i), IF i < s.ack THEN s.ack - 1 ELSE s.ack,
                                                 s.attempted)
=============================================================================
