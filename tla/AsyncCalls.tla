----------------------------- MODULE AsyncCalls -----------------------------
(***************************************************************************)
(* chaos_acall (agentic_chaos/chaos/async_call.py): instrumented calls of  *)
(* asyncio tasks.  A call runs chaos_call in a thread of the loop's        *)
(* default executor, against an isolated session that shares the real      *)
(* session's safety state, call log and preview faults; the target's       *)
(* coroutine runs back on the event loop.  Cancellation of the task races  *)
(* with the thread submitting the coroutine.                               *)
(*                                                                         *)
(* A worker of ChaosCalls is here the thread serving one task's call; the  *)
(* model adds the two sides of the hand-over.  events and planned hold the *)
(* union of the isolated buffers, told apart by call number; merged is     *)
(* what has reached the real session.  Steps of a worker thread are single *)
(* operations; those of the loop thread are atomic up to the next await,   *)
(* but for dispatch, which gives the session's lock back between its check *)
(* and the target it enters: the loop is then taken, and everything that   *)
(* is not on the loop goes on.                                             *)
(***************************************************************************)
EXTENDS ChaosCalls

CONSTANT PoolSize       \* threads of the loop's default executor

ASSUME PoolAssumption == PoolSize \in Nat \ {0}

VARIABLES
    task,       \* the task awaiting the call, on the loop
    thread,     \* the executor's work item that runs the call
    ipc,        \* where the thread is in invoke
    cancelled,  \* the cancelled event of chaos_acall
    pending,    \* the future has been appended to pending
    fut,        \* the future run_coroutine_threadsafe returned
    coro,       \* the dispatch coroutine, on the loop
    merged,     \* events extended into the real session
    mergedPlan, \* planned_events extended into the real session
    late        \* history: the calls whose target was entered after the stop

loopVars == <<task, cancelled, merged, mergedPlan, late>>
invokeVars == <<ipc, pending, fut, coro>>
asyncVars == <<vars, loopVars, thread, invokeVars>>

AsyncInit ==
    /\ Init
    /\ task = [w \in Workers |-> "new"]
    /\ thread = [w \in Workers |-> "none"]
    /\ ipc = [w \in Workers |-> "none"]
    /\ cancelled = [w \in Workers |-> FALSE]
    /\ pending = [w \in Workers |-> FALSE]
    /\ fut = [w \in Workers |-> "none"]
    /\ coro = [w \in Workers |-> "none"]
    /\ merged = <<>>
    /\ mergedPlan = <<>>
    /\ late = {}

\* No dispatch of the loop thread is between its check and its target.
LoopFree == \A w \in Workers : coro[w] # "checked"

-----------------------------------------------------------------------------
(* The task and the executor *)

\* await asyncio.to_thread(run)
CallAsync(w) ==
    /\ task[w] = "new"
    /\ LoopFree
    /\ task' = [task EXCEPT ![w] = "awaiting"]
    /\ thread' = [thread EXCEPT ![w] = "queued"]
    /\ UNCHANGED <<vars, cancelled, merged, mergedPlan, late, invokeVars>>

StartThread(w) ==
    /\ thread[w] = "queued"
    /\ Cardinality({v \in Workers : thread[v] \in {"entering", "running"}}) < PoolSize
    /\ thread' = [thread EXCEPT ![w] = "entering"]
    /\ UNCHANGED <<vars, loopVars, invokeVars>>

Enter(w) ==
    /\ thread[w] = "entering"
    /\ \/ Begin(w) /\ thread' = [thread EXCEPT ![w] = "running"]
       \/ BeginRejected(w) /\ thread' = [thread EXCEPT ![w] = "over"]
    /\ UNCHANGED <<loopVars, invokeVars>>

\* Mutation of Leave: the call of a cancelled task is abandoned without its finish.
LeaveUnfinished(w) ==
    /\ IF pc[w] = "finishing" /\ cancelled[w]
       THEN /\ Goto(w, "idle")
            /\ UNCHANGED <<safetyVars, logVars, seq, failed, injected, fault, sessionVars, report>>
       ELSE FinishCall(w)
    /\ thread' = [thread EXCEPT ![w] = "over"]
    /\ UNCHANGED <<loopVars, invokeVars>>

Leave(w) ==
    /\ FinishCall(w)
    /\ thread' = [thread EXCEPT ![w] = "over"]
    /\ UNCHANGED <<loopVars, invokeVars>>

\* The steps of chaos_call that do not involve its fn, which is invoke here.
CallStep(w) ==
    /\ \/ StartRecord(w)
       \/ SelectionError(w) \/ PassThrough(w)
       \/ Plan(w) \/ PlanRejected(w) \/ AppendPlan(w)
       \/ Reserve(w) \/ ReserveRejected(w)
       \/ FaultActs(w) \/ Invoke(w) \/ InvokeRejected(w)
       \/ Settle(w) \/ ScoreFails(w) \/ RecordEvent(w)
       \/ FinishRecord(w)
    /\ UNCHANGED <<loopVars, thread, invokeVars>>

-----------------------------------------------------------------------------
(* invoke, in the worker thread *)

InInvoke(w) == pc[w] \in {"calling", "invoking"}

\* invoke leaves with an exception: the fault, if any, produces no event.
InvokeRaises(w) ==
    /\ TargetEnds(w) \/ TriggerEnds(w)
    /\ failed'[w]
    /\ ~injected'[w]

InvokeChecked(w) ==
    /\ InInvoke(w)
    /\ ipc[w] = "none"
    /\ CheckOk
    /\ ~cancelled[w]
    /\ ipc' = [ipc EXCEPT ![w] = "checked"]
    /\ UNCHANGED <<vars, loopVars, thread, pending, fut, coro>>

\* check raises; the exception leaves invoke in the next step.
InvokeCheckRaises(w) ==
    /\ InInvoke(w)
    /\ ipc[w] = "none"
    /\ CheckElsewhere
    /\ ipc' = [ipc EXCEPT ![w] = "raising"]
    /\ UNCHANGED <<loopVars, thread, pending, fut, coro>>

InvokeAbandoned(w) ==
    /\ \/ ipc[w] = "raising"
       \/ ipc[w] = "none" /\ CheckOk /\ cancelled[w]
    /\ InvokeRaises(w)
    /\ ipc' = [ipc EXCEPT ![w] = "none"]
    /\ UNCHANGED <<loopVars, thread, pending, fut, coro>>

\* run_coroutine_threadsafe
Submit(w) ==
    /\ ipc[w] = "checked"
    /\ fut' = [fut EXCEPT ![w] = "pending"]
    /\ coro' = [coro EXCEPT ![w] = "scheduled"]
    /\ ipc' = [ipc EXCEPT ![w] = "submitted"]
    /\ UNCHANGED <<vars, loopVars, thread, pending>>

AppendPending(w) ==
    /\ ipc[w] = "submitted"
    /\ pending' = [pending EXCEPT ![w] = TRUE]
    /\ ipc' = [ipc EXCEPT ![w] = "appended"]
    /\ UNCHANGED <<vars, loopVars, thread, fut, coro>>

CancelFuture(w) == IF fut[w] = "pending" THEN [fut EXCEPT ![w] = "cancelled"] ELSE fut

\* Mutation of Recheck: a cancellation that missed the pending list is not noticed.
RecheckSkipped(w) ==
    /\ ipc[w] = "appended"
    /\ ipc' = [ipc EXCEPT ![w] = "waiting"]
    /\ UNCHANGED <<vars, loopVars, thread, pending, fut, coro>>

Recheck(w) ==
    /\ ipc[w] = "appended"
    /\ fut' = IF cancelled[w] THEN CancelFuture(w) ELSE fut
    /\ ipc' = [ipc EXCEPT ![w] = "waiting"]
    /\ UNCHANGED <<vars, loopVars, thread, pending, coro>>

\* future.result() returns or raises.
Result(w) ==
    /\ ipc[w] = "waiting"
    /\ \/ /\ fut[w] = "ok"
          /\ (TargetEnds(w) /\ ~failed'[w]) \/ TriggerEnds(w)
       \/ /\ fut[w] \in {"error", "cancelled"}
          /\ InvokeRaises(w)
    /\ ipc' = [ipc EXCEPT ![w] = "none"]
    /\ UNCHANGED <<loopVars, thread, pending, fut, coro>>

-----------------------------------------------------------------------------
(* dispatch and the target, on the event loop *)

\* Mutation of DispatchCheck: dispatch trusts the check of the thread that submitted it.
DispatchUnchecked(w) ==
    /\ coro[w] = "scheduled"
    /\ LoopFree
    /\ coro' = [coro EXCEPT ![w] = IF fut[w] = "cancelled" THEN "ended" ELSE "checked"]
    /\ UNCHANGED <<vars, loopVars, thread, ipc, pending, fut>>

\* The first step of the coroutine, unless its future was cancelled before it: the
\* session's check.
DispatchCheck(w) ==
    /\ coro[w] = "scheduled"
    /\ LoopFree
    /\ \/ /\ fut[w] = "cancelled"
          /\ coro' = [coro EXCEPT ![w] = "ended"]
          /\ UNCHANGED <<vars, fut>>
       \/ /\ fut[w] # "cancelled"
          /\ CheckElsewhere
          /\ coro' = [coro EXCEPT ![w] = "ended"]
          /\ fut' = [fut EXCEPT ![w] = "error"]
       \/ /\ fut[w] # "cancelled"
          /\ CheckOk
          /\ coro' = [coro EXCEPT ![w] = "checked"]
          /\ UNCHANGED <<vars, fut>>
    /\ UNCHANGED <<loopVars, thread, ipc, pending>>

\* Then the cancelled event, and fn: whatever happened to the session meanwhile.
EnterTarget(w) ==
    /\ coro[w] = "checked"
    /\ coro' = [coro EXCEPT ![w] = IF cancelled[w] THEN "ended" ELSE "running"]
    /\ fut' = IF cancelled[w] THEN CancelFuture(w) ELSE fut
    /\ late' = IF cancelled[w] \/ CheckOk THEN late ELSE late \cup {w}
    /\ UNCHANGED <<vars, task, cancelled, merged, mergedPlan, thread, ipc, pending>>

\* The target's coroutine returns or raises by itself.
TargetCoroEnds(w) ==
    /\ coro[w] = "running"
    /\ LoopFree
    /\ fut[w] = "pending"
    /\ coro' = [coro EXCEPT ![w] = "ended"]
    /\ \E result \in {"ok", "error"} : fut' = [fut EXCEPT ![w] = result]
    /\ UNCHANGED <<vars, loopVars, thread, ipc, pending>>

\* The loop delivers the cancellation of the future to the running coroutine.
CoroCancelled(w) ==
    /\ coro[w] = "running"
    /\ LoopFree
    /\ fut[w] = "cancelled"
    /\ coro' = [coro EXCEPT ![w] = "ended"]
    /\ UNCHANGED <<vars, loopVars, thread, ipc, pending, fut>>

-----------------------------------------------------------------------------
(* The end of chaos_acall, on the event loop *)

\* The task is cancelled while it awaits the thread: a queued work item never
\* runs, and every future already in pending is cancelled.
CancelTask(w) ==
    /\ task[w] = "awaiting"
    /\ LoopFree
    /\ task' = [task EXCEPT ![w] = "cancelled"]
    /\ cancelled' = [cancelled EXCEPT ![w] = TRUE]
    /\ thread' = IF thread[w] = "queued" THEN [thread EXCEPT ![w] = "over"] ELSE thread
    /\ fut' = IF pending[w] THEN CancelFuture(w) ELSE fut
    /\ UNCHANGED <<vars, merged, mergedPlan, late, ipc, pending, coro>>

\* What the call of w left in one of its buffers: its number, once per entry.
Isolated(log, w) == [i \in 1..Cardinality({j \in DOMAIN log : log[j] = seq[w]}) |-> seq[w]]

\* Mutation of Deliver: the buffers are merged only when the call succeeded.
DeliverOnSuccess(w) ==
    /\ task[w] = "awaiting"
    /\ thread[w] = "over"
    /\ LoopFree
    /\ task' = [task EXCEPT ![w] = "done"]
    /\ merged' = IF failed[w] THEN merged ELSE merged \o Isolated(events, w)
    /\ mergedPlan' = IF failed[w] THEN mergedPlan ELSE mergedPlan \o Isolated(planned, w)
    /\ UNCHANGED <<vars, cancelled, late, thread, invokeVars>>

\* The thread's result or exception reaches the task; both merge the buffers.
Deliver(w) ==
    /\ task[w] = "awaiting"
    /\ thread[w] = "over"
    /\ LoopFree
    /\ task' = [task EXCEPT ![w] = "done"]
    /\ merged' = merged \o Isolated(events, w)
    /\ mergedPlan' = mergedPlan \o Isolated(planned, w)
    /\ UNCHANGED <<vars, cancelled, late, thread, invokeVars>>

-----------------------------------------------------------------------------

ThreadStep(w) ==
    \/ StartThread(w) \/ Enter(w) \/ CallStep(w) \/ Leave(w)
    \/ InvokeChecked(w) \/ InvokeCheckRaises(w) \/ InvokeAbandoned(w)
    \/ Submit(w) \/ AppendPending(w) \/ Recheck(w) \/ Result(w)

LoopStep(w) == DispatchCheck(w) \/ EnterTarget(w) \/ CoroCancelled(w) \/ Deliver(w)

Environment ==
    /\ \/ \E amount \in Costs : RecordCost(amount)
       \/ TimePasses
       \/ ExitSession
    /\ UNCHANGED <<loopVars, thread, invokeVars>>

\* The session has ended and every call with it: nothing is left to do.
AllOver ==
    /\ closed
    /\ \A w \in Workers : task[w] \in {"done", "cancelled"} /\ thread[w] = "over"
    /\ UNCHANGED asyncVars

AsyncNext ==
    \/ \E w \in Workers :
          CallAsync(w) \/ ThreadStep(w) \/ LoopStep(w) \/ TargetCoroEnds(w) \/ CancelTask(w)
    \/ Environment
    \/ AllOver

AsyncSpec == AsyncInit /\ [][AsyncNext]_asyncVars

\* Threads and the loop go on; nothing makes a target's coroutine end by itself.
AsyncFairSpec ==
    AsyncSpec /\ \A w \in Workers : WF_asyncVars(ThreadStep(w)) /\ WF_asyncVars(LoopStep(w))

-----------------------------------------------------------------------------
(* Properties *)

AsyncTypeOK ==
    /\ TypeOK
    /\ task \in [Workers -> {"new", "awaiting", "done", "cancelled"}]
    /\ thread \in [Workers -> {"none", "queued", "entering", "running", "over"}]
    /\ ipc \in [Workers -> {"none", "checked", "raising", "submitted", "appended", "waiting"}]
    /\ cancelled \in [Workers -> BOOLEAN]
    /\ pending \in [Workers -> BOOLEAN]
    /\ fut \in [Workers -> {"none", "pending", "ok", "error", "cancelled"}]
    /\ coro \in [Workers -> {"none", "scheduled", "checked", "running", "ended"}]
    /\ merged \in Seq(Nat)
    /\ mergedPlan \in Seq(Nat)
    /\ late \subseteq Workers

\* The real session receives the events of a call exactly once when the call ends,
\* with or without an exception, and never those of a cancelled call
\* (async_call.py: cancellation discards the worker's isolated event buffer).
MergedOnce ==
    /\ AsyncTypeOK
    /\ \A i \in DOMAIN merged : \E w \in Workers : task[w] = "done" /\ seq[w] = merged[i]
    /\ \A i, j \in DOMAIN merged : merged[i] = merged[j] => i = j
    /\ \A w \in Workers : task[w] = "done" =>
          /\ Isolated(merged, w) = Isolated(events, w)
          /\ Isolated(mergedPlan, w) = Isolated(planned, w)

\* However many coroutines are queued on the loop when the session aborts, ends or
\* outlives its duration, at most one target is entered after that, the one whose
\* check had just passed; and a target that runs although its task is cancelled has its
\* cancellation on the way, or its thread is about to send it (async_call.py: dispatch
\* checks again, invoke looks at the cancelled event after it has published the future).
NoLateDispatch ==
    /\ \A v, w \in late : v = w
    /\ \A w \in Workers :
          cancelled[w] /\ coro[w] = "running" =>
              fut[w] = "cancelled" \/ ipc[w] \in {"submitted", "appended"}

\* The calls of asynchronous tasks are calls of the session like any other: every
\* property of ChaosCalls holds of them.
ImplementsCalls == Spec

\* Cancelling a task ends its provider work and its worker thread, even if the
\* target would never return (async_call.py: cancels pending provider work).
CancelUnwinds ==
    \A w \in Workers :
        task[w] = "cancelled" ~> (coro[w] \in {"none", "ended"} /\ thread[w] = "over")

=============================================================================
