----------------------------- MODULE ChaosCalls -----------------------------
(***************************************************************************)
(* Workers of one chaos session making instrumented calls.                 *)
(*                                                                         *)
(* A worker is a thread (or an async task's worker thread) whose context   *)
(* holds the session.  It runs chaos_call and _session_call                *)
(* (agentic_chaos/chaos/inject.py); between two of its steps other workers *)
(* run, the application records costs, the clock advances, the main thread *)
(* exits the session, or a report is captured.  A step is one call into    *)
(* the shared state, so every lock is taken and released within a step.    *)
(*                                                                         *)
(* Faults are any subclass of BaseFault: trigger calls the target zero or  *)
(* one times and may return an event, an exception to raise, both or       *)
(* neither.  Which call is in scope, sampled and eligible is the           *)
(* environment's choice.                                                   *)
(***************************************************************************)
EXTENDS SafetyState, CallLog

CONSTANTS
    Workers,        \* the threads whose context holds the session
    JudgeMayFail,   \* a fidelity judge is active and its score can raise
    MaxCalls,       \* bound of the model: calls the workers begin
    Costs,          \* bound of the model: amounts the application records
    MaxReports      \* bound of the model: 1 to capture a report, 0 not to

ASSUME ChaosCallsAssumption ==
    /\ IsFiniteSet(Workers)
    /\ JudgeMayFail \in BOOLEAN
    /\ MaxCalls \in Nat
    /\ Costs \subseteq Nat
    /\ MaxReports \in {0, 1}

VARIABLES
    pc,         \* where each worker is in chaos_call
    seq,        \* the sequence number of the worker's call record
    failed,     \* an exception is on its way out of the call
    injected,   \* outcome.event is not None
    fault,      \* the record has been attributed to a fault event
    events,     \* session.events, each event named by its call's number
    planned,    \* session.planned_events, likewise
    dryRun,     \* session.dry_run
    report      \* what the report being captured has read so far

workerVars == <<pc, seq, failed, injected, fault>>
sessionVars == <<events, planned, dryRun>>
vars == <<safetyVars, logVars, workerVars, sessionVars, report>>

PC == { "idle",       \* next: Begin
        "admitted",   \* safety.begin returned; next: StartRecord
        "selecting",  \* in _session_call; next: SelectionError, PassThrough, Plan, Reserve
        "planning",   \* plan's check returned; next: AppendPlan
        "calling",    \* the target runs without a fault; next: TargetEnds
        "reserved",   \* in fault.trigger; next: FaultActs, Invoke
        "invoking",   \* the target runs under the fault; next: TriggerEnds
        "settling",   \* trigger is over; next: Settle
        "recording",  \* next: ScoreFails, RecordEvent
        "logging",    \* next: FinishRecord
        "finishing" } \* next: FinishCall

InCall == {w \in Workers : pc[w] # "idle"}
Holding == {w \in Workers : pc[w] \in {"reserved", "invoking", "settling"}}
Logged == {w \in Workers : pc[w] \notin {"idle", "admitted", "finishing"}}
Finishing == {w \in Workers : pc[w] = "finishing"}
Planning == {w \in Workers : pc[w] = "planning"}

\* Calls whose record was begun and is no longer open.
EndedCalls == sequence - Cardinality(Logged)

NoReport == [phase |-> "none", events |-> 0, injections |-> 0, aborted |-> FALSE,
             calls |-> {}, finished |-> 0, dropped |-> 0]

Init ==
    /\ SafetyInit
    /\ CallLogInit
    /\ pc = [w \in Workers |-> "idle"]
    /\ seq = [w \in Workers |-> 0]
    /\ failed = [w \in Workers |-> FALSE]
    /\ injected = [w \in Workers |-> FALSE]
    /\ fault = [w \in Workers |-> FALSE]
    /\ events = <<>>
    /\ planned = <<>>
    /\ dryRun \in BOOLEAN
    /\ report = NoReport

Goto(w, label) == pc' = [pc EXCEPT ![w] = label]

\* An exception leaves _session_call.
Fail(w) ==
    /\ Goto(w, "logging")
    /\ failed' = [failed EXCEPT ![w] = TRUE]

-----------------------------------------------------------------------------
(* chaos_call, up to the log record *)

Begin(w) ==
    /\ pc[w] = "idle"
    /\ sequence + Cardinality({v \in Workers : pc[v] = "admitted"}) < MaxCalls
    /\ BeginOk
    /\ Goto(w, "admitted")
    /\ failed' = [failed EXCEPT ![w] = FALSE]
    /\ injected' = [injected EXCEPT ![w] = FALSE]
    /\ fault' = [fault EXCEPT ![w] = FALSE]
    /\ UNCHANGED <<logVars, seq, sessionVars, report>>

\* begin raises: the call is neither counted nor logged.
BeginRejected(w) ==
    /\ pc[w] = "idle"
    /\ BeginRaises
    /\ UNCHANGED <<logVars, workerVars, sessionVars, report>>

StartRecord(w) ==
    /\ pc[w] = "admitted"
    /\ LogBegin
    /\ seq' = [seq EXCEPT ![w] = sequence']
    /\ Goto(w, "selecting")
    /\ UNCHANGED <<safetyVars, failed, injected, fault, sessionVars, report>>

-----------------------------------------------------------------------------
(* _session_call *)

\* select_faults raises, or more than one fault is a candidate.
SelectionError(w) ==
    /\ pc[w] = "selecting"
    /\ Fail(w)
    /\ UNCHANGED <<safetyVars, logVars, seq, injected, fault, sessionVars, report>>

\* No candidate, out of scope, not sampled or not eligible.
PassThrough(w) ==
    /\ pc[w] = "selecting"
    /\ Goto(w, "calling")
    /\ UNCHANGED <<safetyVars, logVars, seq, failed, injected, fault, sessionVars, report>>

\* plan: the check holds the lock, the append does not.
Plan(w) ==
    /\ pc[w] = "selecting"
    /\ dryRun
    /\ CheckOk
    /\ Goto(w, "planning")
    /\ UNCHANGED <<safetyVars, logVars, seq, failed, injected, fault, sessionVars, report>>

PlanRejected(w) ==
    /\ pc[w] = "selecting"
    /\ dryRun
    /\ CheckRaises
    /\ Fail(w)
    /\ UNCHANGED <<logVars, seq, injected, fault, sessionVars, report>>

AppendPlan(w) ==
    /\ pc[w] = "planning"
    /\ planned' = Append(planned, seq[w])
    /\ Goto(w, "calling")
    /\ UNCHANGED <<safetyVars, logVars, seq, failed, injected, fault, events, dryRun, report>>

\* fn returns or raises, no fault involved.
TargetEnds(w) ==
    /\ pc[w] = "calling"
    /\ \E raised \in BOOLEAN : failed' = [failed EXCEPT ![w] = raised]
    /\ Goto(w, "logging")
    /\ UNCHANGED <<safetyVars, logVars, seq, injected, fault, sessionVars, report>>

\* Mutation of Reserve: the fault fires on the admission check alone.
ReserveUnchecked(w) ==
    /\ pc[w] = "selecting"
    /\ ~dryRun
    /\ reserved' = reserved + 1
    /\ UNCHANGED <<closed, expired, cost, failures, injections, inFlight, abort>>
    /\ Goto(w, "reserved")
    /\ UNCHANGED <<logVars, seq, failed, injected, fault, sessionVars, report>>

Reserve(w) ==
    /\ pc[w] = "selecting"
    /\ ~dryRun
    /\ ReserveOk
    /\ Goto(w, "reserved")
    /\ UNCHANGED <<logVars, seq, failed, injected, fault, sessionVars, report>>

ReserveRejected(w) ==
    /\ pc[w] = "selecting"
    /\ ~dryRun
    /\ ReserveRaises
    /\ Fail(w)
    /\ UNCHANGED <<logVars, seq, injected, fault, sessionVars, report>>

\* trigger acts without calling the target: it hangs and raises, or drops a handoff.
FaultActs(w) ==
    /\ pc[w] = "reserved"
    /\ \E raised \in BOOLEAN : failed' = [failed EXCEPT ![w] = raised]
    /\ injected' = [injected EXCEPT ![w] = TRUE]
    /\ Goto(w, "settling")
    /\ UNCHANGED <<safetyVars, logVars, seq, fault, sessionVars, report>>

\* invoke: the check passes and the target starts under the fault.
Invoke(w) ==
    /\ pc[w] = "reserved"
    /\ CheckOk
    /\ Goto(w, "invoking")
    /\ UNCHANGED <<safetyVars, logVars, seq, failed, injected, fault, sessionVars, report>>

InvokeRejected(w) ==
    /\ pc[w] = "reserved"
    /\ CheckRaises
    /\ failed' = [failed EXCEPT ![w] = TRUE]
    /\ Goto(w, "settling")
    /\ UNCHANGED <<logVars, seq, injected, fault, sessionVars, report>>

\* The target has returned or raised; trigger returns an event, an exception,
\* both or neither (a storm that is over by now lets the result through).
TriggerEnds(w) ==
    /\ pc[w] = "invoking"
    /\ \E raised, event \in BOOLEAN :
          /\ failed' = [failed EXCEPT ![w] = raised]
          /\ injected' = [injected EXCEPT ![w] = event]
    /\ Goto(w, "settling")
    /\ UNCHANGED <<safetyVars, logVars, seq, fault, sessionVars, report>>

\* Mutation of Settle: without the finally, an escaping exception keeps its reservation.
SettleOnReturnOnly(w) ==
    /\ pc[w] = "settling"
    /\ IF failed[w] /\ ~injected[w] THEN UNCHANGED safetyVars ELSE Complete(injected[w])
    /\ Goto(w, IF injected[w] THEN "recording" ELSE "logging")
    /\ UNCHANGED <<logVars, seq, failed, injected, fault, sessionVars, report>>

\* The finally of the try around trigger.
Settle(w) ==
    /\ pc[w] = "settling"
    /\ Complete(injected[w])
    /\ Goto(w, IF injected[w] THEN "recording" ELSE "logging")
    /\ UNCHANGED <<logVars, seq, failed, injected, fault, sessionVars, report>>

\* score_outcome raises: the injection is committed, its event is never appended.
ScoreFails(w) ==
    /\ pc[w] = "recording"
    /\ JudgeMayFail
    /\ Fail(w)
    /\ UNCHANGED <<safetyVars, logVars, seq, injected, fault, sessionVars, report>>

\* Mutation of RecordEvent: the event is appended, the call record is not marked.
RecordEventUnmarked(w) ==
    /\ pc[w] = "recording"
    /\ events' = Append(events, seq[w])
    /\ Goto(w, "logging")
    /\ UNCHANGED <<safetyVars, logVars, seq, failed, injected, fault, planned, dryRun, report>>

RecordEvent(w) ==
    /\ pc[w] = "recording"
    /\ events' = Append(events, seq[w])
    /\ fault' = [fault EXCEPT ![w] = TRUE]
    /\ Goto(w, "logging")
    /\ UNCHANGED <<safetyVars, logVars, seq, failed, injected, planned, dryRun, report>>

-----------------------------------------------------------------------------
(* The finally of chaos_call *)

FinishRecord(w) ==
    /\ pc[w] = "logging"
    /\ LogFinish([seq |-> seq[w], error |-> failed[w], fault |-> fault[w]])
    /\ Goto(w, "finishing")
    /\ UNCHANGED <<safetyVars, seq, failed, injected, fault, sessionVars, report>>

\* safety.finish, which may itself raise the abort in the caller.
FinishCall(w) ==
    /\ pc[w] = "finishing"
    /\ Finish(failed[w])
    /\ Goto(w, "idle")
    /\ UNCHANGED <<logVars, seq, failed, injected, fault, sessionVars, report>>

-----------------------------------------------------------------------------
(* The application, the clock and the main thread *)

\* record_cost and record_usage, from any thread of the application.
RecordCost(amount) ==
    /\ RecordCostOk(amount)
    /\ UNCHANGED <<logVars, workerVars, sessionVars, report>>

\* A check that raises outside the steps above: record_cost on a stopped session,
\* a cascade after its delay, the async wrapper before and in its dispatch.
CheckElsewhere ==
    /\ CheckRaises
    /\ UNCHANGED <<logVars, workerVars, sessionVars, report>>

TimePasses ==
    /\ Expire
    /\ UNCHANGED <<logVars, workerVars, sessionVars, report>>

\* __exit__; workers whose context inherited the session may still be in a call.
ExitSession ==
    /\ ~closed
    /\ CloseSafety
    /\ UNCHANGED <<logVars, workerVars, sessionVars, report>>

\* to_report reads events_as_json, then snapshot, then calls.as_json, then dropped,
\* taking a lock for each and none across them.
ReportEvents ==
    /\ MaxReports = 1
    /\ report.phase = "none"
    /\ report' = [report EXCEPT !.phase = "events", !.events = Len(events)]
    /\ UNCHANGED <<safetyVars, logVars, workerVars, sessionVars>>

ReportSnapshot ==
    /\ report.phase = "events"
    /\ report' = [report EXCEPT !.phase = "snapshot", !.injections = injections,
                                !.aborted = Aborted]
    /\ UNCHANGED <<safetyVars, logVars, workerVars, sessionVars>>

\* The finished count is a history variable: what had ended when the log was read.
ReportCalls ==
    /\ report.phase = "snapshot"
    /\ report' = [report EXCEPT !.phase = "calls", !.calls = LoggedSeqs,
                                !.finished = EndedCalls]
    /\ UNCHANGED <<safetyVars, logVars, workerVars, sessionVars>>

\* Mutation of ReportDropped: the events are serialized last instead of first.
ReportEventsLast ==
    /\ report.phase = "calls"
    /\ report' = [report EXCEPT !.phase = "done", !.dropped = dropped, !.events = Len(events)]
    /\ UNCHANGED <<safetyVars, logVars, workerVars, sessionVars>>

ReportDropped ==
    /\ report.phase = "calls"
    /\ report' = [report EXCEPT !.phase = "done", !.dropped = dropped]
    /\ UNCHANGED <<safetyVars, logVars, workerVars, sessionVars>>

Report == ReportEvents \/ ReportSnapshot \/ ReportCalls \/ ReportDropped

-----------------------------------------------------------------------------

\* What a worker does once it is in a call; it never waits for another worker.
WorkerStep(w) ==
    \/ StartRecord(w)
    \/ SelectionError(w) \/ PassThrough(w)
    \/ Plan(w) \/ PlanRejected(w) \/ AppendPlan(w)
    \/ TargetEnds(w)
    \/ Reserve(w) \/ ReserveRejected(w)
    \/ FaultActs(w) \/ Invoke(w) \/ InvokeRejected(w) \/ TriggerEnds(w)
    \/ Settle(w) \/ ScoreFails(w) \/ RecordEvent(w)
    \/ FinishRecord(w) \/ FinishCall(w)

Next ==
    \/ \E w \in Workers : Begin(w) \/ BeginRejected(w) \/ WorkerStep(w)
    \/ \E amount \in Costs : RecordCost(amount)
    \/ CheckElsewhere
    \/ TimePasses
    \/ ExitSession
    \/ Report

Spec == Init /\ [][Next]_vars

\* The targets, the faults and the judge return: a worker in a call goes on.
FairSpec == Spec /\ \A w \in Workers : WF_vars(WorkerStep(w))

-----------------------------------------------------------------------------
(* Properties *)

TypeOK ==
    /\ SafetyTypeOK
    /\ CallLogTypeOK
    /\ pc \in [Workers -> PC]
    /\ seq \in [Workers -> Nat]
    /\ failed \in [Workers -> BOOLEAN]
    /\ injected \in [Workers -> BOOLEAN]
    /\ fault \in [Workers -> BOOLEAN]
    /\ events \in Seq(Nat)
    /\ planned \in Seq(Nat)
    /\ dryRun \in BOOLEAN

\* in_flight is exactly the number of calls between begin and finish, whichever
\* way a call ends and whatever happened to the session meanwhile.
InFlightExact == inFlight = Cardinality(InCall)

\* Every reservation belongs to a call that is inside its fault: none is lost
\* when a fault raises, and none is given back twice.
ReservedExact == reserved = Cardinality(Holding)

\* The two counters of the safety state are exact: begin and finish, reserve and
\* complete are paired on every path, exceptions and a stop included.
CountsExact == InFlightExact /\ ReservedExact

\* max_injections bounds what is committed and what concurrent calls may still commit.
InjectionCap == MaxInjections # NoLimit => injections + reserved <= MaxInjections

\* Every committed injection has its event, or its worker is about to append it
\* (docs/safety.md: the count is committed only when a fault event is produced).
\* Only a judge that raises can lose the event.
EventPerInjection ==
    LET appending == Cardinality({w \in Workers : pc[w] = "recording"})
    IN  /\ Len(events) + appending <= injections
        /\ ~JudgeMayFail => Len(events) + appending = injections

\* A stored record is attributed to a fault exactly when the session holds an
\* event of that call: calls and events tell one story to the contracts.
EvidenceAgrees ==
    \A i \in DOMAIN records :
        records[i].fault <=> \E j \in DOMAIN events : events[j] = records[i].seq

\* Every number handed out is that of one open call, one stored record or one
\* dropped record; no two calls share a number.
OneRecordPerCall ==
    /\ sequence = Len(records) + dropped + Cardinality(Logged)
    /\ Cardinality(LoggedSeqs) = Len(records)
    /\ \A w \in Logged :
        /\ seq[w] \in 1 .. sequence
        /\ seq[w] \notin LoggedSeqs
        /\ \A v \in Logged : v # w => seq[v] # seq[w]

\* The evidence a run leaves is sound: the events, the call records and the
\* numbers that tie them together, also when records are dropped, calls are
\* refused or the session ends under the workers.
EvidenceSound == EventPerInjection /\ EvidenceAgrees /\ OneRecordPerCall

\* The failure window holds one outcome per completed call until it is full.
WindowComplete ==
    LET completed == FinishedCount - Cardinality(Finishing)
    IN  Len(failures) = IF completed < WindowSize THEN completed ELSE WindowSize

\* Failures above max_failure_rate: strictly, the limit itself is allowed.
AboveRate(errors, of) == errors * RateDen > RateNum * of

\* An abort names a threshold that was really reached, at the number it reports:
\* all of max_injections was committed or reserved and not one more; the failures
\* among the last completed calls, MinCalls of them at least and a full window once
\* there is one, were above the rate; the cost was at its limit, then and ever since.
AbortJustified ==
    LET completed == FinishedCount - Cardinality(Finishing)
        seen == abort.observed
    IN  /\ abort.threshold = "max_injections" =>
              MaxInjections # NoLimit /\ seen = Number(MaxInjections)
        /\ abort.threshold = "max_duration_seconds" => expired
        /\ abort.threshold = "max_failure_rate" =>
              /\ HasRate
              /\ seen.of \in MinCalls .. WindowSize
              /\ seen.of <= completed
              /\ seen.amount <= seen.of
              /\ AboveRate(seen.amount, seen.of)
        /\ abort.threshold = "max_cost_usd" =>
              MaxCost # NoLimit /\ cost >= MaxCost /\ seen = Number(cost)

\* No abort is missed: the window of a session that runs on is not above the rate once
\* it has MinCalls outcomes, and a cost at its limit is the reason the session stopped.
NothingMissed ==
    /\ ~Aborted /\ ~closed /\ HasRate /\ Len(failures) >= MinCalls =>
          ~AboveRate(Cardinality({i \in DOMAIN failures : failures[i]}), Len(failures))
    /\ MaxCost # NoLimit /\ cost >= MaxCost => abort.threshold = "max_cost_usd"

\* in_flight_at_abort is the most that can still be outstanding: after an abort
\* calls only finish (docs/safety.md: already-running calls can finish).
InFlightAtAbortBounds == Aborted => inFlight <= abort.in_flight_at_abort

\* A session aborts exactly when a limit is reached: an abort reports a number at or
\* past its limit, taken from a complete window, no abort is missed, and the number of
\* calls the abort says are outstanding bounds those that still are.
AbortSound == WindowComplete /\ AbortJustified /\ NothingMissed /\ InFlightAtAbortBounds

\* A report captured while calls are running is consistent: it never shows more
\* events than injections, and a log that reports nothing dropped is complete up
\* to the moment it was read (calls.py: the contracts rely on it).
ReportConsistent ==
    /\ report.phase \notin {"none", "events"} => report.events <= report.injections
    /\ report.phase = "done" /\ report.dropped = 0 =>
          Cardinality(report.calls) = report.finished

\* Once the session has aborted or ended it admits no call, no injection, no plan
\* and no cost, and the reason it gives for the abort does not change.  A plan whose
\* check passed before the stop is still appended: plan does not hold the lock.
StopIsFinal ==
    [][closed \/ Aborted =>
         /\ abort' = abort
         /\ inFlight' <= inFlight
         /\ injections' + reserved' <= injections + reserved
         /\ Len(planned') + Cardinality(Planning') <= Len(planned) + Cardinality(Planning)
         /\ cost' = cost]_vars

\* The injection accounting implements the budget max_injections promises.
Budget == INSTANCE InjectionBudget WITH
    Budget <- MaxInjections,
    admitted <- injections + reserved,
    spent <- injections,
    stopped <- closed \/ Aborted

ImplementsBudget == Budget!Spec

\* After an abort or the session's end the calls under way all finish, and their
\* bookkeeping brings in_flight back to zero for good.
Drains == (closed \/ Aborted) ~> [](inFlight = 0)

=============================================================================
