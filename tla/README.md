# A verification of agentic-chaos

TLA+ models of agentic-chaos: the chaos core (safety limits, call wrappers, streams,
faults), the workflow engine and its history, and the tools around them (contracts,
scores, probes, fuzzing, drift, cron, experiment files, provider patches). TLC checks
the models on small instances; TLAPS proves, for every number of workers and every
value of the other constants, the properties of calls (synchronous and asynchronous), of
streams, of the built-in faults and of the workflow engine.

The modules are translated from the code under `src/src/agentic_chaos/`
(`agentic_chaos/` below). A definition has the name of the method it stands for
where it has one; `PROJECT.json` maps each definition to its lines.

- [Parts of the system](#parts-of-the-system)
- [Modules](#modules)
- [Runs](#runs)
- [Theorems](#theorems)
- [Where code and documentation disagree](#where-code-and-documentation-disagree)
- [Not modelled](#not-modelled)

## Parts of the system

agentic-chaos wraps the calls of an agent and injects faults into them while a
`chaos_session` is active. A session is found through a context variable, so
threads and tasks that copy the context share one session object.

| Part | State | Operations | What is hard about it | What makes it correct |
| --- | --- | --- | --- | --- |
| **Safety state** `safety/__init__.py` | closed, cost, failure window, injections, reservations, in-flight count, first abort; one re-entrant lock | check, begin, reserve, complete, inject, finish, record_cost, snapshot, close | Each method is atomic, a call is several of them; every check may abort; two of them also change state when they raise | Limits hold under any interleaving; counts match the calls under way; a stop is final |
| **Call log** `chaos/calls.py` | finished records, sequence, dropped; one lock | begin, finish, as_json | Bounded; records are numbered at begin and stored at finish | One record per call, or one counted as dropped |
| **Session** `chaos/context.py`, `session.py` | events, plans, preview copies, cleanups; no lock of its own | plan, record_cost, to_report, select_faults, preview_fault, exit | plan checks under a lock and appends without; a report is read piece by piece while calls go on | Evidence (events, records, counters) tells one story |
| **chaos_call** `chaos/inject.py` | locals of a call | select, pass through, plan, reserve, trigger, settle, score, record, finish | Exceptions at every step, from the target, the fault, the judge and the checks | Admission, reservation and record are each closed exactly once |
| **chaos_acall** `chaos/async_call.py` | cancelled flag, pending futures, an isolated session per call | run in a thread, dispatch on the loop, merge or discard | A thread, a loop and a cancellation race; a check's lock is free again before the target is entered | Of all that is queued at a stop at most one target is entered; what runs for a cancelled task is being cancelled; events are merged once or discarded |
| **chaos_stream / chaos_astream** `chaos/streaming.py` | chunk count, emitted, record | select, pull, cut, hang, delay, yield, close | A generator may be closed, cancelled or abandoned at each yield or await | One event at most; no read past the boundary; the source is closed; after a stop a stream moves on by one chunk at most |
| **Provider wrappers** `integrations/providers.py` | originals to restore | patch, restore, wrap streams | A patch rejected half way; clients that share a method; handles closed early or twice | All patches or none; a client is afterwards as it was |
| **Faults, cascade** `chaos/faults.py`, `provider_faults.py`, `poisoning.py`, `advanced.py`, `agents/faults.py` | bursts, turns, stages; no lock | eligible, trigger, advance_preview | Several workers share a fault object; a dry run walks through copies | The preview is the run; a budget is a budget; stages go one at a time; an event tells what happened |
| **Workflow engine** `workflows/` | completed results, probe results | run, resume, sequence, step, check, parallel, suspend, finish | Nested thread pools, gates, resumption, terminal statuses that compete | Order, status and report agree with what ran |
| **Run history** `resilience/history.py` | one JSON file, no lock | record, prune, trend | Read three times, replaced whole; crashes | The file is whole, bounded, in order; the trend is the right one |
| **Drivers of a run** `probes/runner.py`, `cli/main.py`, the pytest plugin | the run so far | probes, session, score, history, contracts, verdict | Four drivers, each with early exits; an exception at any point | Green only for a run that earned it; evidence is saved before the verdict |
| **Score, contracts, containment** `resilience/score.py`, `contracts/`, `containment/` | none | pure functions over reports | Retries deduced from records; logs that dropped records; merged reports | They agree with one another on the same run |
| **Fuzzing, breaking point** `workflows/fuzz.py`, `chaos/advanced.py` | trials so far | place, try, blame, search | Scopes of campaign, fault and call; a target that does not reach a node | Blame is local; the point is the least failing severity |
| **Topology** `agents/` | trackers; a context variable with the active one | make, deactivate, register, attach, take | Tokens used out of order, probes and interrupted runs that leave one active, tasks with a context of their own | A report shows the nodes of its own run |
| **Drift** `drift/` | a report and an alert state, two files | compare, emit, suppress | A kill between the two writes; suppression against the last report | What changed is reported; what is suppressed is already saved |
| **Experiments, cron** `experiments/` | none | compile, validate, run; next_runs | A compiler that goes on after errors; a search that skips months, days, hours | An accepted document is run as written; no run is skipped |
| **Scopes** `chaos/scope.py` | none | allows, intersect | Inclusions and exclusions in two dimensions | The intersection allows what both allow |
| **Profiles, judges, hub, exports, rendering** | little or none | parsing, conversion, I/O | – | – |

Interactions: `chaos_call` uses the safety state, the log and the session, each
through its own lock. `chaos_acall` runs `chaos_call` in an executor thread and
its target on the loop. The streams use the safety state and the log as calls do,
and commit an injection at a delivery boundary with `inject()` instead of
reserving it. The workflow engine runs each step in a session of its own, branches in
threads with an empty context, and hands its score to the history. The drivers read
the report of their session with the score and the contracts.

## Modules

| Module | Models | State and actions |
| --- | --- | --- |
| `SafetyState` | `SafetyState` of `safety/__init__.py` | Its fields are variables; an operator per method and outcome: `ReserveOk` for the return, `ReserveRaises` for the exception, which may set the abort. Being under one lock makes each one step |
| `CallLog` | `chaos/calls.py` | `LogBegin`, `LogFinish`; a record is its number, whether it ended in an error and whether it names a fault |
| `InjectionBudget` | the promise of `max_injections` | Units are admitted, then spent or given back; never more than the budget; none admitted after a stop |
| `ChaosCalls` | `chaos_call` and `_session_call`, the session, the application and the main thread | A worker's `pc` is the place between two calls into shared state, one action each; costs, expiry, checks elsewhere, exit and the capture of a report are actions of their own |
| `AsyncCalls` | `chaos_acall` | Extends `ChaosCalls`: each worker's call runs in a thread of a bounded pool, `invoke` is refined into submit, append, recheck and wait, and the target is a coroutine that the loop may start, end or cancel |
| `Streams` | `chaos_stream`, `chaos_astream`, and `close` of the provider wrappers | A generator's `pc`; `Async` adds cancellation at each await, `Wrapped` selects the wrapper's `close`; whether the session is a dry run is chosen initially, as in `ChaosCalls` |
| `Faults` | every built-in fault, `Cascade`, the draw and scope of a selection, the dry run's preview copies | A live session and its dry-run twin get the same calls. A step of a call is what happens between two points at which another thread may run: selection, publication of the copy, trigger, count of a burst, choice of a stage, advance of the cascade |
| `Workflow` | `ChaosWorkflow.run` and `_Run` | A call of `sequence` is a frame with its own `pc`; branches are frames of a pool; run, probes, conclusion and history are steps of the run |
| `History` | `resilience/history.py` | Each job's `record` is its three readings, mkstemp, write and rename; any may be the last |
| `ScoreLedger` | the promise of the history to one job | A list to which a run is added with its retention in one step |
| `Reports`, `ToolRun` | the form of a finished report, and the two variables the tools share | `job` is what a tool was asked, `run` how far it has come |
| `Contracts` | `contracts/`: the built-in contracts, retries and recoveries deduced from call records; the judgement of `containment/` | Operators over reports |
| `Resilience` | `resilience/score.py` | Verdict on each event, five components, weighted mean in exact arithmetic |
| `Evaluations` | the questions put to the two modules above, to the merge of step reports (`workflows/report.py`) and to scopes | One action per question |
| `ChaosRuns` | `chaos_run`, `chaos run`, `agent run`, a marked test of the plugin | From the refusal of options through probes, calls, score, history and contracts to the verdict, one action per stage |
| `Campaigns` | `workflows/fuzz.py`, `find_breaking_point` | One action per trial |
| `Drift` | `drift/` and `drift compare` | A command is its comparison, its two writes, and perhaps a kill between them |
| `Cron` | `experiments/cron.py` | The fields, and `next_runs`: an action per skip (month, day, hour) and per minute; the calendar is a constant |
| `Experiments` | `experiments/schema.py`, `loader.py`, `expand_nodes`, the experiment command | The compiler: an operator per section of a document; validate and run are actions |
| `Scopes` | `chaos/scope.py` | Operators |
| `ProviderPatches` | `integrations/providers.py` and the cleanups of a session | Install, reject half way, close, enter and exit a session |
| `Topology` | `agents/topology.py`, the wrappers of `agents/langgraph.py`, and what each driver does with the active tracker | Trackers with their tokens, the context variable in two contexts; a run is a sequence of stages, with any use of trackers in those that run user code |
| `Tools` | the ten modules above as one specification | A behaviour is one use of one tool |
| `MC*` | – | Instances: symmetry sets, workflow, campaigns, jobs and documents |
| `SafetyStateProofs`, `CallsProofs`, `StreamsProofs`, `FaultsProofs`, `WorkflowProofs`, `HistoryProofs`, `ToolsProofs`, `JudgementsProofs` | – | [Theorems](#theorems) |

`ChaosCalls`, and through it `AsyncCalls`, and `Streams` are built from
`SafetyState` and `CallLog`. Refinements: `ChaosCalls` and `Streams` implement
`InjectionBudget`, `AsyncCalls` implements `ChaosCalls`, and `History` with one
job implements `ScoreLedger` (all proved).

Abstractions of the core: an exception is a flag; an event is the number
of the call it belongs to; a cost is a whole number of units; time is one bit,
*the duration limit has passed*; a limit of `None` is `NoLimit`; an abort keeps its threshold,
its `in_flight_at_abort` and the number it observed, as a fraction, or none for elapsed time. In `ChaosCalls` and
`Streams` which call is sampled or eligible is a nondeterministic choice, which
`Faults` replaces by the code's own; what a target, a judge, an approver or a probe
does is nondeterministic everywhere. Abstractions of the tools: a name is a member of
a small set, a text one of a few shapes whose distances are given, a parsed document
a record, and what the YAML parser or a section without a bearing on the workflow says of it
a verdict.

Operators whose comment says that they are a mutation are not part of the model:
replacing the definition named there with one shows that a property notices.

## Runs

| Run | Asks | Bounds |
| --- | --- | --- |
| `ChaosCallsLimits` | All limits at once, session ending under the workers, real and dry run: `CountsExact`, `EvidenceSound`, `AbortSound`, `StopIsFinal`, `ImplementsBudget` | 3 workers, 3 calls, 2 injections: three compete for two; window 2; log of 2, so that one record is dropped; `AbortSound` asks each abort for the number it was taken at |
| `ChaosCallsReport` | A report captured in four pieces while calls run, with a judge that raises (`ReportConsistent`); after a stop, in-flight returns to zero for good (`Drains`) | 2 workers, 2 calls, log of 1; liveness, no symmetry |
| `AsyncCallsTasks` | Cancellation and exit at any moment: `MergedOnce`, `NoLateDispatch`, `ImplementsCalls`; a cancelled call ends, its coroutine with it (`CancelUnwinds`) | 2 tasks, 2 threads, 1 injection, log of 1, no duration limit (`NoLateEntry` covers it); liveness, no symmetry |
| `StreamsFaults` | All faults, real and dry run, cancelled and closed anywhere: `ChunksExact`, `StreamAccounting`, `NoDeliveryAfterStop`, `SourceClosed`, `ImplementsBudget` | 2 streams sharing 1 injection and 1 unit of cost; 3 chunks, so that a slow stream delays twice, around the boundary 1 |
| `StreamsUnstarted` | Violation: the source of an unstarted `chaos_stream` | 1 stream |
| `FaultsTwins` | Every fault alone and five cascades, live and dry run call by call: `PreviewPredicts` and `CascadeInOrder` of one thread, `BudgetHolds` and `EventTruth` also of two | 2 workers, 3 calls, 2 labels; bursts and turns of 0 to 2, so that a budget ends within the calls; draws that always, never or sometimes fire |
| `HistoryJobs` | Two jobs, kills, failing saves: `StoreSound`, `SavesKeep`; one job alone implements the ledger | 3 records in all (`Plans`, at most `MaxRecords` of a job), 2 names, 2 scores (so that a trend rises, falls or stands), 2 instants further apart than `MaxAge`, `MaxRuns` 2 |
| `WorkflowRuns` | Order, status, history and plan of a run, fresh or resumed, with and without `stop_on_failure`; every run ends | A step, a block with a soft check, a step, a nested block of two branches with one worker and a halting check, a gate, a check; run twice; liveness |
| `WorkflowResumed` | Violation: the plan in the report of a resumed run | the same workflow, run once |
| `Tools` | Twelve properties of the tools, see below | 2.2 million states of small uses, see below |
| `TruncatedLog` | Violation: a contract that passes on a log cut short | Logs of up to 3 calls of 2 steps |
| `AcceptedDocuments` | Violation: a document that validates and cannot be run | Documents of one node |

What `Tools` shows, and of which uses:

| Property | Says | Uses |
| --- | --- | --- |
| `GreenIsEarned` | A run is green only if the target ended, in a system that was steady, with all contracts passed and the score asked for (a dry run, or one in which no fault fired, may be green if no score is asked for); the report is saved before the verdict, unless the history could not be written, after which nothing is saved or checked and the run is not green | All four drivers, dry and real, with and without baseline, minimum score, history; up to 2 calls |
| `ScoreIsMeaningful` | Nothing is injected into an unsteady system unasked; only a real, steady run in which a fault fired has a score | the same |
| `VerdictsAgree` | A contract says of a cut log what it says of the whole one, or that it cannot tell, but for a strict recovery whose failed call was dropped; contract and score agree on recovery; a merged report scores its events as the steps did | All logs of up to 3 calls of 2 names, cut anywhere; pairs of steps of up to 2 calls |
| `ScopesCombine` | An intersection allows exactly what both scopes allow | All pairs over 2 steps and a provider |
| `StopShown` | Containment accepts only evidence that a dispatcher that stopped could have left | All sequences of up to 4 observations of 2 calls |
| `BlameIsLocal` | A fuzzed node is blamed only for faults at its own calls, and is unreached only if no call there was allowed | 2 nodes, 2 trials, scopes of campaign and fault over steps and providers |
| `BreakingPointExact` | The search ends at a failing severity above a passing one, without asking twice | 6 severities, every set of failing ones |
| `DriftReported` | What changed fails the command, and a suppressed report is one that the file already shows, kills between writes included | 3 commands, kills between the writes, cooldown passed or not |
| `NothingSkipped` | `next_runs` yields exactly the matching minutes | A year of 9 days, days of 6 minutes; 216 expressions with lists, ranges, steps and the day/weekday rule |
| `PatchesRestored` | Wrappers belong to the open session and to one handle; without one a client is as it was | 2 clients that share a method, 3 patches, 2 sessions |
| `OwnTopology` | The topology in a report is of a tracker that its own run made, unless a test attached one, and the tracker that the target left active is not lost | A workflow step and `chaos_run`, two agent runs, a campaign, tests in plain, bound and copied contexts, with a baseline; interruptions; 3 trackers, made and deactivated in any order |
| `DocumentKept` | An accepted document becomes the workflow it describes | Documents of up to 2 nodes of every kind, 5 sets of templates, cycles included; single-step documents; probes |

Why the bounds are enough: three calls are the least in which two share a limit that the third
finds taken; a window and a log of two are both filled and passed; a boundary at one
chunk has a delivery before and a chunk behind it; two threads suffice for every lost
update of a counter or an index, and three calls for two that overlap and one that finds
the result; two jobs suffice for each overwritten save; a block in a block is the least
nesting, and nothing in the engine counts depth; the compiler treats a document's nodes
one by one, but for names and templates, which pairs exercise; the
search of cron never looks at more than one month, day and hour at a time. The
theorems have none of these bounds.

Deadlock checking is off where the system stops of itself: jobs that have recorded
all their runs, a workflow that has been run as often as it may, a tool that has answered.

**Fairness.** `ChaosCalls!FairSpec`, `AsyncFairSpec`: a worker in a call, a
thread, a callback of the loop goes on.
None of them waits for another worker but through a lock that is held for one step, so
weak fairness per worker is what the scheduler gives. `Drains`
assumes that targets and judges return; the code sets them no timeout.
`CancelUnwinds` does not: there the target may run for ever. `Workflow!FairSpec`:
each thread goes on, and targets, checks and approvers return. Beginning a
call, a cost, a cancel, a kill and the end of a session are never fair. `Streams` has no
fairness: a consumer may abandon its stream, as it may in the code.

## Theorems

For every finite set of workers or streams, every breaker, every log limit, every
`after_chunks`; for every set of campaigns of one fault or of two stages, all labels and
scopes, and any number of calls; for every plan of nested blocks, any number of workers,
retries and runs. Assumed are only the named assumptions of the modules. Those on the
workflow say that the nodes of a plan have names of their own (`_named` refuses
others), that blocks are nested as a finite tree of Python objects is, and that no branch
has a gate (`Parallel` refuses it); those on the faults that a cascade has two stages (a bound of the model) and
that a storm among its stages has a positive budget, as the constructor of the cascade demands.
Those on the history say that scores and instants are integers, the limits positive and the jobs
finitely many (`HistoryAssumption`), and that a missing or a half-written file is none that holds a list
of entries (`FileAssumption`).
Those on the tools say what their numbers are (`SearchAssumption`, `DriftAssumption`), that a
placed scope is built of sets of labels (`FuzzAssumption`), that the paths of one
patch are different methods (`PatchAssumption`), that the scopes to combine are ones their
constructor accepts (`ScopeAssumption`), that the acknowledgement of a stop is one of the records
or missing (`StopAssumption`), that the drivers of successive runs are those the code has, of which
`agent run` has a process of its own (`TopologyAssumption`), and that a run's driver is one of the four,
its contracts are of the seven kinds, and only `chaos_run` may go on in a system that is not steady
(`RunAssumption`). The calendar of a schedule has months of at least one day and hours of at least two minutes
(`CalendarAssumption`). The evidence to judge is what the library records (`EvidenceAssumption`): in a complete log
a fault event belongs to one call; the calls of a workflow's step are numbered from 1 and name only events
of that step, whose ids no other step has.

| Theorem | Says |
| --- | --- |
| `CallsProofs!TypeCorrect` | `Spec => []TypeOK`; the counters never fall below zero |
| `CallsProofs!CountsAreExact` | `in_flight` is the number of calls between begin and finish, `_reserved_injections` that of calls inside a fault |
| `CallsProofs!CapHolds` | committed and reserved injections stay within `max_injections` |
| `CallsProofs!BudgetRefined` | `Spec => Budget!Spec` under the refinement mapping |
| `CallsProofs!StopHolds` | a stop is final (`StopIsFinal`) |
| `CallsProofs!AbortsAreSound` | an abort names a limit and the number that reached it: exactly `max_injections` committed or reserved, a failure rate above the limit over enough of the last calls, a cost at its limit; no abort is missed; `in_flight_at_abort` bounds what may still finish (`AbortSound`) |
| `CallsProofs!EvidenceIsSound` | events, injections, call records and their numbers agree |
| `CallsProofs!ReportsAreConsistent` | a report captured in pieces never shows more events than injections, and a log that says nothing was dropped is whole |
| `CallsProofs!AsyncCallsImplement` | `AsyncSpec => Spec`: every step of tasks, threads and the loop is a step of a call, or leaves all calls alone |
| `CallsProofs!AsyncCallsAreSound` | so the counts, the evidence, the aborts and the finality of a stop hold of asynchronous calls too, cancelled tasks included |
| `CallsProofs!NoLateEntry` | however many coroutines are queued, at most one target is entered after a stop, the one whose check had just passed; one that runs for a cancelled task has its cancellation on the way (`NoLateDispatch`) |
| `CallsProofs!BuffersMergedOnce` | the real session gets all that a call left in its isolated buffers, once, and nothing of a cancelled task (`MergedOnce`) |
| `StreamsProofs!AccountingIsExact` | types, `in_flight`, one event or plan per stream, one event per injection |
| `StreamsProofs!ChunksAreExact` | no read past `after_chunks`, no chunk delivered twice or lost but to a failure |
| `StreamsProofs!SourcesAreClosed` | wrapped streams close their source (assuming `Wrapped`) |
| `StreamsProofs!DeliveryStops` | after a stop each stream reads or delivers at most the one chunk its last check let through (`NoDeliveryAfterStop`) |
| `StreamsProofs!StreamBudgetRefined` | the streams' injections implement `InjectionBudget` |
| `FaultsProofs!FaultsTypesHold` | no counter of a fault passes the number of calls, no index its stages by more than the threads that share it |
| `FaultsProofs!EventTruthHolds` | an event tells what happened to its call (`EventTruth`) |
| `FaultsProofs!BudgetHoldsAlways` | a burst or a turn budget is exceeded by at most one call per further thread, live and on each preview copy (`BudgetHolds`) |
| `FaultsProofs!CascadeInOrderAlways` | without concurrency stages fire in order, each until it is over (`CascadeInOrder`) |
| `FaultsProofs!PreviewPredictsAlways` | without concurrency a dry run plans what the live run injects (`PreviewPredicts`) |
| `WorkflowProofs!RunsInOrderAlways` | a node runs only after all that stands before it, checks within their attempts (`RunsInOrder`) |
| `WorkflowProofs!StatusTrueAlways` | status of run and blocks agree with what the nodes did, the worst of it wins; what the history records (`StatusTrue`) |
| `WorkflowProofs!FreshReportFullAlways` | a fresh run reports a result for every node (`FreshReportFull`) |
| `HistoryProofs!StoreSoundAlways` | whatever jobs are killed, fail or save over each other, the history file is complete, within its limits and in order (`StoreSound`) |
| `HistoryProofs!SavesKeepAlways` | a save keeps the run it records and loses another only for a reason (`SavesKeep`) |
| `HistoryProofs!LedgerImplemented` | `Spec => ImplementsLedger`: one job's readings and renames are the ledger's indivisible steps |
| `ToolsProofs!PatchesUndone` | a client is patched by the open session only, each wrapper by one handle, and left as it was (`PatchesRestored`) |
| `ToolsProofs!BreakingPointHolds` | the search returns the least failing severity and tries none twice (`BreakingPointExact`) |
| `ToolsProofs!BlameHolds` | a campaign blames only nodes where its fault could fire (`BlameIsLocal`) |
| `ToolsProofs!DriftHolds` | what a compare command saw is saved or raised again; its exit status is right (`DriftReported`) |
| `ToolsProofs!TopologyOwned` | whatever runs before it left active, a report shows a topology of its own run, and loses none its target left (`OwnTopology`) |
| `JudgementsProofs!ScopesCombineAlways` | an intersection allows exactly what both scopes allow, and is refused when that is nothing (`ScopesCombine`) |
| `JudgementsProofs!StopShownAlways` | evidence of a stop is accepted only from a dispatcher that stopped, whatever other tasks did (`StopShown`) |
| `JudgementsProofs!GreenIsEarnedAlways` | a green run of any driver has its target returned, in a steady system, every contract passed and the score asked for; it is saved before it is judged, and recorded at most once (`GreenIsEarned`) |
| `JudgementsProofs!NothingSkippedAlways` | the runs of a schedule are the matching moments, however the search skips (`NothingSkipped`) |
| `JudgementsProofs!VerdictsAgreeAlways` | a cut log, the whole one and the score are judged alike, but for a strict recovery whose failed call was dropped from the log; a merged report is judged as its steps, but for an escaped error lost or traced to another step (`VerdictsAgree`) |
| `JudgementsProofs!ScoreIsMeaningfulAlways` | a score is in 0..100 and needs a steady system, a real run and a fault that fired (`ScoreIsMeaningful`) |

**Calls.** `TypeOK` is not inductive: that `in_flight - 1` is a natural number when a call
finishes needs a call to be under way. The inductive invariant is `Accounting`, the conjunction of
`TypeOK`, `InFlightExact` and `ReservedExact`: the worker that finishes is in
`InCall`, so the cardinality is positive. `MoveCount` says how the number of
workers at some places changes when one worker moves; `CountedStep`, `QuietStep`,
`RejectedStep` and `OtherStep` prove the invariant for the four ways an action
touches the counters, and `AccountingNext` puts them together.
`NextIsSafetyStep` then reduces every step of `Next` to an operation of the safety
state, from which the cap, the refinement and the finality of a stop follow without
looking at workers again.

**Aborts.** The window has an outcome per completed call, where completed means that
`finish` has run; since the record is counted one step before, the number is
`FinishedCount` less the workers about to finish. That the calls a failure rate was taken
from are the last ones, `min_calls` of them at least, needs the window to be complete; that no
abort is missed needs every outcome and every cost to be followed by its comparison; that
`in_flight_at_abort` is a bound needs a stop to be final; and that the number at which the injections ran
out is the cap itself needs `CapHolds`. The parts of `AbortSound` are inductive
together, on top of `Accounting` and the cap.

**Evidence.** `EvidenceSound` speaks of stored records. It is inductive with `Linked`,
which says of the calls under way what will be said of their records: numbers in use were
handed out, no two alike, and a call is marked exactly when its event is in the
session. For `ReportsAreConsistent` the invariant compares each piece read
with what has happened since: counts only grow, and the order of reading does the rest.

**Asynchronous calls.** `ThreadStepImplements` and `AsyncStepImplements` map each step:
`invoke` is the target's step of `chaos_call`, and on the loop only `dispatch` touches
the session, whose check may abort it. No invariant is needed, so the refinement holds
for any number of tasks and any executor. The evidence theorem speaks of the isolated
buffers. That they reach the session once needs an invariant after all (`MergeInv`): where
the thread of each task stands (`Hosted`), that no two tasks share a number and no call leaves
two events (`Numbered`), and `MergedIn`, that the session holds, of calls that are done, as many
entries as their buffers. `BufferSteps` sorts the steps of tasks, threads and loop by what they
do to numbers and buffers; a step that appends to a buffer belongs to a task that is not
done, so its number is not in the session.

Between the check of a dispatch and the target it lets through another thread may stop the
session. The loop runs one coroutine at a time, and none between those two lines, so at a stop
at most one coroutine is past its check (`LoopFree`): this is `DispatchInv`, from which the
first half of `NoLateDispatch` follows. The second half follows each future from its
publication to its cancellation (`FutureInv`).

**Streams.** Every property of a state follows from `Local`, what is true of each stream by itself:
where it may be once admitted, which chunk it holds, how far it has read, what its event
or plan has left behind, whether its source is open. `LocalStep` proves it of the stream that
moves and `OthersUntouched` that no other one does. The shared counts are then the
cardinalities of sets which one step changes by at most the stream that takes it. A check and
the delivery it allows are two steps here too; `NoDeliveryAfterStop` counts what a stream has
read, delivered and been let through to, which only a check that returns can increase.

**Faults.** `Typed` says of each value by itself where it may be, `Counts` bounds the counters by
the calls begun; every proof rests on both. For `EventTruth` the invariant follows a call from selection to
its event. `BudgetHolds` needs to know how far a burst can be overrun: a thread past the
test `_fired < n` has not counted yet, so `EventBudget` bounds what is fired together with
the threads between test and count. The plans of a dry run are counted on copies, of which
each thread publishes at most one and none is used before it is published
(`CopiesFresh`); `PlanBudget` numbers the plans of each copy without repetition, and a
pigeonhole argument bounds them. Of one thread, `Ordered` places each event by the index of
the cascade, and `Lockstep` says that the live fault and the copy of its twin are in the same state
between calls, and one step apart within one.

**Workflow.** The invariant is local: `FrameOK` says of each call of `sequence` what is true of
the nodes before, at and behind its index (`Before`, `Ended`, `Untouched`, `Skipped`), with
`Verdict` and `BlockTrue` for how statuses follow from results; `RunOK` does so for the run. A lemma per
kind of step proves it of the frame that moves. `Others` shows that the step leaves every
other sequence alone; this is the geometry of the plan: places are unique, no
block is nested in itself, and what two blocks contain is disjoint or nested. The
nodes under a node are the least set closed under nesting (`Under`), which no proof needs to unfold
by induction. `FreshReportFull` follows since every node is under one of the top sequence.

**History.** `At` makes a list of the elements at some places, as a comprehension does, and most
of the work is in what it makes: `InOrderEnumerates` says that it goes through the places in their order,
`OneOrder` that there is only one such order, `PartOfPart` that a selection from a selection is a
selection. So `RetainIs` finds the places that last (`Lasting`), and how many of them have a name follows
by counting (`LastingFew`): never more than `MaxRuns`, and as many if any young one was dropped. `HistoryInv` then
says of every file and of every list that a job carries that it is `Sound`; the order of a job's runs
holds because a run gets its entry from the one reading that no later step of its job repeats (`Dated`).
With a single job, `Follows` says what each reading told it about the file, which only it writes;
`RetainIsRetained` and `TrendIs` compare retention and trend with the ledger's definitions, which
number the places another way.

**Tools.** A behaviour of `Tools` is one use of one tool and `job` never changes, so each of these
theorems is about the initial states and the steps of its tool (`PatchSpec`, `SearchSpec`,
`FuzzSpec`, `DriftSpec`, `TopologySpec`). For patches the invariant `Wrapped` relates three things: what the handles
have noted, which methods are wrappers, and what the instance had at the start; each method is noted by at
most one handle, at one place. A close that nothing refuses gives back what its handle noted, whichever
handles were made before or after (`CloseAll`, `Undone`); a patch rejected half way closes what it
just installed (`RejectedPatch`). `Pending`, that a handle still open is among the cleanups of the
session, gives the rest when the session ends. In the search nothing between the bounds was tried and what lies just
outside them was. In drift detection the report file and the alert state agree except between the two
writes of a command.

Topologies need the most, since a tracker outlives its run. `TopologyInv` places each state in its
driver's sequence of stages. From the stage `First`, where the driver has just reset or noted what is
active, to `TakeAt`, where it takes the topology, `Looking` says that what is active in a context,
*and what every tracker of these stages would give back*, is what was active at first or another of
them; without the second half a deactivation could bring an earlier run's tracker back. `LeftOver` adds
that what the target left is still active unless a later probe made a tracker, `Bound` that only
the task of a test hands one over. `Timetable` lists what of the seven sequences the argument uses,
so that one proof covers all drivers; a test that was interrupted (`Cut`) only has its task unbound.

**Judgements.** The answer to a question is one step, so the invariants only say what was asked; the
work is in the lemmas on the operators, for sequences of any length and any labels. `CombinationExact`
takes a scope apart into its two dimensions (`Shared`). `EvidenceReplayed` compares the sets that the
assertion computes before and after the acknowledgement with the calls that run after each record.
That a record of another task changes nothing is proved by an order-preserving renumbering of the
records that are left (`Was`, `Is`, `CallsThinned`); leaving out one after another gives any number.

A run is judged by what it did, so `RunInv` follows the driver through the whole of it: which of the
probes, the session and the stages of the closing are behind it at each point (`Left`, `Distinct`), and that
the target ran only if it was `Allowed` to. `StageKeeps` proves the stages of the closing at once, `VerdictIs` what the
last step may conclude. That the score stays within 0..100 needs its components: each is a number of
0..`One` for any evidence, which `ScoreIn` proves from sums over lists and sets. They are sums of recursive functions;
that the function exists (`SumsExist`), is a bounded sum (`TotalBound`) and grows with its terms (`TotalGrows`)
is proved by the induction theorem in its form for sets, on the set of lengths for which it holds.

`VerdictsAgreeAlways` compares operators that choose calls by rank, count streaks and pick the last call of an event.
`StartOrder` and `ListedIsOrdered` show that ranking puts numbered calls in place; `CutHonest` then takes the seven
contracts one by one, and `ScoreConcurs` reads the fate of a failed call (`AfterFailureOf`) and the unrecovered steps
(`UnrecoveredIs`) from the same log. In a merged report the calls of the second step stand behind those of the first (`MergedOf`),
so a failed call keeps its fate (`FirstAfter`, `SecondAfter`), a retry stays one (`RetriesKept`, counted in `RetriesMerged`),
and the error is traced to the same event when its step can be told (`TracedEscape`).

For a schedule the invariant is `NothingSkipped` itself with the types of a search; a jump keeps it when nothing matches
on the way (`JumpKeeps`). `WithinHour`, `WithinDays` and `WithinMonth` say what does not change before the next hour, day and month;
the last one rests on `MonthIs`, that a day of the year lies in exactly one month.

`SafetyStateProofs` holds what calls and streams use: that each operation of the safety state and
of the log keeps its types.

Model-checked only: liveness (`Drains`, `CancelUnwinds`, `RunEnds`),
which is beyond the prover under fairness; `WorkflowResumed` and the other violations, which are
counterexamples; and the compiler of documents (`DocumentKept`), whose operators recurse over
nested documents, which needs induction over data.

## Where code and documentation disagree

- **`StreamsUnstarted`.** `chaos_stream` "owns source and closes it on exhaustion,
  fault, or close()". A generator closed before its first `next()` never runs the
  `finally` that closes the source. The provider wrappers close it themselves.
- **`WorkflowResumed`.** `node_names` is "every node name, depth-first, as it will
  appear in the report", and "a report always shows the full plan". In a resumed run
  a parallel block before the gate is reported without its branches.
- **`TruncatedLog`.** Contracts "that need the complete log report themselves
  inconclusive when anything was dropped". `recovered_after_failure` with
  `require_step_success` passes when the record of the failed call itself was dropped.
- **`AcceptedDocuments`.** "Every run validates the experiment first", and the tests
  expect a document without a target to be refused. `target: null` is accepted, and so are
  scopes that leave a fault nothing to hit; the run then raises.

Agreeing with the documentation, and worth knowing: jobs that share a history file may
overwrite each other's runs (`SavesKeep` says which); a failure before
a gate is not remembered by the run that resumes behind it; threads that share a burst
may exceed it by one call each, and so may the plans of a dry run on each preview
copy (`BudgetHolds`); a fault limited to providers is
never tried by the fuzzer, which asks its scope about the node alone
(`BlameIsLocal`); an embedding model is compared only when the snapshots name a model
(`DriftReported`); `agent run` looks for the topology after its post probes, of which one
that makes a tracker replaces the script's, while `chaos_run` looks before them; a
tracker that a test attaches to both its baseline and its run shows the nodes of both; an
asynchronous test whose context is a copy loses the tracker it makes (`OwnTopology`).

## Not modelled

`PROJECT.json` lists each part with its status. What is left out, and why:

- Profiles and cost estimates, the recipe hub and its plugins, the exports to
  AgenticLens and AIOS, rendering: parsing, conversion, downloads, without state of
  their own.
- Judges: an external model scores a text. That a judge may raise inside a call is in
  `ChaosCalls`.
- Nested `chaos_acall`s: an outer call holds its executor thread while the inner one
  waits for another, which can starve a small executor. The worker of `AsyncCalls`
  makes one call at a time; a stack of calls per worker multiplies its states beyond
  what TLC can visit.
- The record of a cancelled call, which may name an event that was discarded with the task's
  buffer: `AsyncCalls` keeps the merged events apart, and no promise is made about such
  a record that could be checked.
- A provider that opens the source before `chaos_stream`'s selection raises: in `Streams`
  the source exists from the start, opened by the consumer.
- In `Faults`, that `_fired += 1` is itself a read and a write: with the interpreter's lock
  released between the two, a burst could lose a count. The test before it is a step of its own.
- A write of a file that is torn by a kill: in `History` the file a kill leaves half written is
  the temporary one, and `drift compare` (`Drift`) writes its two files each in one step.
- Mutation of a response by the fault that returns it: a response is a value.
- Signatures and hashes of containment evidence, and floating point rounding in the
  score and in drift distances.
- What a built-in probe measures, how targets are imported, graph adapters: I/O around
  calls that are modelled.
