------------------------------ MODULE Streams ------------------------------
(***************************************************************************)
(* chaos_stream and chaos_astream (agentic_chaos/chaos/streaming.py):      *)
(* wrapped streams of one session, each consumed by its own task or        *)
(* thread, while the session's safety state, call log and events are       *)
(* shared.  The generator deliver is unrolled at its observable points:    *)
(* calls into the shared state, pulls from the source, sleeps, and the     *)
(* yield, where the consumer decides whether to go on, to close the        *)
(* stream, or never to come back.                                          *)
(*                                                                         *)
(* Wrapped streams are those the provider patches return: a _Stream or     *)
(* _AsyncStream (integrations/providers.py) around the generator.          *)
(***************************************************************************)
EXTENDS SafetyState, CallLog

CONSTANTS
    Streams,        \* the wrapped streams
    Async,          \* chaos_astream: a consumer can be cancelled while it waits
    Wrapped,        \* the generator is inside a _Stream or _AsyncStream
    AfterChunks,    \* after_chunks of the configured cut or hang fault
    MaxChunks,      \* bound of the model: chunks a source has at most
    Costs           \* bound of the model: amounts the application records

ASSUME StreamsAssumption ==
    /\ IsFiniteSet(Streams)
    /\ Async \in BOOLEAN
    /\ Wrapped \in BOOLEAN
    /\ AfterChunks \in Nat
    /\ MaxChunks \in Nat
    /\ Costs \subseteq Nat

VARIABLES
    pc,         \* where the stream's generator is
    kind,       \* the fault selected for the stream, "none" when it is not sampled
    seq,        \* the number of its call record
    admitted,   \* safety.begin has returned
    count,      \* chunks delivered
    pulled,     \* chunks read from the source
    emitted,    \* a slow fault or a dry run has left its one event or plan
    failed,     \* an exception other than GeneratorExit is on its way out
    fault,      \* the record has been attributed to a fault event
    open,       \* the source has not been closed
    events,     \* session.events, each event named by its stream
    planned,    \* session.planned_events, likewise
    dryRun      \* session.dry_run

streamVars == <<pc, kind, seq, admitted, count, pulled, emitted, failed, fault, open>>
sessionVars == <<events, planned, dryRun>>
vars == <<safetyVars, logVars, streamVars, sessionVars>>

Boundary == {"stream_cut", "stream_hang"}
Slow == {"slow_ttft", "slow_chunks"}
Kinds == Boundary \cup Slow \cup {"none"}

PC == { "uncreated",  \* next: Create
        "unstarted",  \* the generator exists; next: Start, CloseUnstarted
        "starting",   \* begin returned; next: StartRecord
        "top",        \* top of the loop; next: CheckTop
        "boundary",   \* next: boundary fault, or on to the pull
        "cutting",    \* the boundary event is committed; next: AppendCut
        "hanging",    \* asleep in a hang; next: HangEnds
        "pulling",    \* next: Pull
        "slowing",    \* a chunk is held; next: SlowEvent, SlowPlan or NoSlowdown
        "marking",    \* the slow event is committed; next: AppendSlow
        "delaying",   \* asleep before delivery; next: DelayEnds
        "delivering", \* next: CheckDelivery
        "checked",    \* the check before delivery passed; next: Yield
        "yielded",    \* the consumer has the chunk; next: Resume, Close
        "closing",    \* in the finally; next: CloseSource
        "logging",    \* next: FinishRecord
        "finishing",  \* next: FinishStream
        "over" }

Init ==
    /\ SafetyInit
    /\ CallLogInit
    /\ pc = [s \in Streams |-> "uncreated"]
    /\ kind = [s \in Streams |-> "none"]
    /\ seq = [s \in Streams |-> 0]
    /\ admitted = [s \in Streams |-> FALSE]
    /\ count = [s \in Streams |-> 0]
    /\ pulled = [s \in Streams |-> 0]
    /\ emitted = [s \in Streams |-> FALSE]
    /\ failed = [s \in Streams |-> FALSE]
    /\ fault = [s \in Streams |-> FALSE]
    /\ open = [s \in Streams |-> TRUE]
    /\ events = <<>>
    /\ planned = <<>>
    /\ dryRun \in BOOLEAN

Goto(s, label) == pc' = [pc EXCEPT ![s] = label]

\* An exception enters the finally of deliver.
Fail(s) ==
    /\ Goto(s, "closing")
    /\ failed' = [failed EXCEPT ![s] = TRUE]

\* A call into the safety state raises in the stream's generator.
Rejected(s) ==
    /\ Fail(s)
    /\ UNCHANGED <<logVars, kind, seq, admitted, count, pulled, emitted, fault, open, sessionVars>>

\* A step that only moves the generator on.
Moves(s, label) ==
    /\ Goto(s, label)
    /\ UNCHANGED <<safetyVars, logVars, kind, seq, admitted, count, pulled, emitted, failed,
                   fault, open, sessionVars>>

-----------------------------------------------------------------------------
(* Creation and start *)

\* _select: one check, and the fault sampled once for the whole stream.
Create(s) ==
    /\ pc[s] = "uncreated"
    /\ CheckOk
    /\ \E k \in Kinds : kind' = [kind EXCEPT ![s] = k]
    /\ Goto(s, "unstarted")
    /\ UNCHANGED <<safetyVars, logVars, seq, admitted, count, pulled, emitted, failed, fault,
                   open, sessionVars>>

CreateRejected(s) ==
    /\ pc[s] = "uncreated"
    /\ CheckRaises
    /\ UNCHANGED <<logVars, streamVars, sessionVars>>

\* The first next() of the consumer.
Start(s) ==
    /\ pc[s] = "unstarted"
    /\ BeginOk
    /\ admitted' = [admitted EXCEPT ![s] = TRUE]
    /\ Goto(s, "starting")
    /\ UNCHANGED <<logVars, kind, seq, count, pulled, emitted, failed, fault, open, sessionVars>>

StartRejected(s) ==
    /\ pc[s] = "unstarted"
    /\ BeginRaises
    /\ Rejected(s)

\* Mutation of CloseUnstarted: the wrapper leaves closing to the generator.
CloseUnstartedGenerator(s) ==
    /\ pc[s] = "unstarted"
    /\ Moves(s, "over")

\* close() of a generator that never ran does not run its finally; _Stream.close
\* closes the source itself in that case.
CloseUnstarted(s) ==
    /\ pc[s] = "unstarted"
    /\ open' = [open EXCEPT ![s] = ~Wrapped]
    /\ Goto(s, "over")
    /\ UNCHANGED <<safetyVars, logVars, kind, seq, admitted, count, pulled, emitted, failed,
                   fault, sessionVars>>

StartRecord(s) ==
    /\ pc[s] = "starting"
    /\ LogBegin
    /\ seq' = [seq EXCEPT ![s] = sequence']
    /\ Goto(s, "top")
    /\ UNCHANGED <<safetyVars, kind, admitted, count, pulled, emitted, failed, fault, open,
                   sessionVars>>

-----------------------------------------------------------------------------
(* Cut and hang, at the boundary *)

CheckTop(s) ==
    /\ pc[s] = "top"
    /\ \/ CheckOk /\ Moves(s, "boundary")
       \/ CheckRaises /\ Rejected(s)

\* Mutation of AtBoundary: one chunk too late.
PastBoundary(s) == kind[s] \in Boundary /\ count[s] > AfterChunks

AtBoundary(s) == kind[s] \in Boundary /\ count[s] >= AfterChunks

NoBoundary(s) ==
    /\ pc[s] = "boundary"
    /\ ~AtBoundary(s) \/ (dryRun /\ emitted[s])
    /\ Moves(s, "pulling")

\* Mutation of PlanTo: the plan is made but not remembered.
PlanToForgotten(s, label) ==
    /\ CheckOk
    /\ planned' = Append(planned, s)
    /\ Goto(s, label)
    /\ UNCHANGED <<safetyVars, logVars, kind, seq, admitted, count, pulled, emitted, failed,
                   fault, open, events, dryRun>>

\* plan: its check and its append are one step here (ChaosCalls takes them apart),
\* since no other stream reads planned and no property of this module orders a plan
\* and a stop.
PlanTo(s, label) ==
    /\ CheckOk
    /\ planned' = Append(planned, s)
    /\ emitted' = [emitted EXCEPT ![s] = TRUE]
    /\ Goto(s, label)
    /\ UNCHANGED <<safetyVars, logVars, kind, seq, admitted, count, pulled, failed, fault, open,
                   events, dryRun>>

BoundaryPlan(s) ==
    /\ pc[s] = "boundary"
    /\ AtBoundary(s) /\ dryRun /\ ~emitted[s]
    /\ \/ PlanTo(s, "pulling")
       \/ CheckRaises /\ Rejected(s)

\* _event: the injection is committed under the lock, the event appended after it.
BoundaryEvent(s) ==
    /\ pc[s] = "boundary"
    /\ AtBoundary(s) /\ ~dryRun
    /\ \/ /\ InjectOk
          /\ Goto(s, "cutting")
          /\ UNCHANGED <<logVars, kind, seq, admitted, count, pulled, emitted, failed, fault,
                         open, sessionVars>>
       \/ InjectRaises /\ Rejected(s)

AppendEvent(s, label) ==
    /\ events' = Append(events, s)
    /\ fault' = [fault EXCEPT ![s] = TRUE]
    /\ emitted' = [emitted EXCEPT ![s] = kind[s] \in Slow]
    /\ Goto(s, label)
    /\ UNCHANGED <<safetyVars, logVars, kind, seq, admitted, count, pulled, failed, open, planned,
                   dryRun>>

\* A cut returns at once, a hang sleeps first.
AppendCut(s) ==
    /\ pc[s] = "cutting"
    /\ AppendEvent(s, IF kind[s] = "stream_hang" THEN "hanging" ELSE "closing")

\* The check after the sleep raises, or StreamHangError does.
HangEnds(s) ==
    /\ pc[s] = "hanging"
    /\ CheckRaises \/ (CheckOk /\ UNCHANGED safetyVars)
    /\ Rejected(s)

-----------------------------------------------------------------------------
(* Pull, slow down, deliver *)

Pull(s) ==
    /\ pc[s] = "pulling"
    /\ \/ /\ pulled[s] < MaxChunks
          /\ pulled' = [pulled EXCEPT ![s] = @ + 1]
          /\ Goto(s, "slowing")
          /\ UNCHANGED <<safetyVars, logVars, kind, seq, admitted, count, emitted, failed, fault,
                         open, sessionVars>>
       \/ Moves(s, "closing")
       \/ UNCHANGED safetyVars /\ Rejected(s)

SlowsNow(s) ==
    \/ kind[s] = "slow_ttft" /\ count[s] = 0
    \/ kind[s] = "slow_chunks" /\ count[s] > 0

NoSlowdown(s) ==
    /\ pc[s] = "slowing"
    /\ ~SlowsNow(s)
    /\ Moves(s, "delivering")

SlowAgain(s) ==
    /\ pc[s] = "slowing"
    /\ SlowsNow(s) /\ emitted[s]
    /\ Moves(s, "delaying")

SlowPlan(s) ==
    /\ pc[s] = "slowing"
    /\ SlowsNow(s) /\ ~emitted[s] /\ dryRun
    /\ \/ PlanTo(s, "delaying")
       \/ CheckRaises /\ Rejected(s)

SlowEvent(s) ==
    /\ pc[s] = "slowing"
    /\ SlowsNow(s) /\ ~emitted[s] /\ ~dryRun
    /\ \/ /\ InjectOk
          /\ Goto(s, "marking")
          /\ UNCHANGED <<logVars, kind, seq, admitted, count, pulled, emitted, failed, fault,
                         open, sessionVars>>
       \/ InjectRaises /\ Rejected(s)

AppendSlow(s) ==
    /\ pc[s] = "marking"
    /\ AppendEvent(s, "delaying")

DelayEnds(s) ==
    /\ pc[s] = "delaying"
    /\ \/ CheckOk /\ Moves(s, "delivering")
       \/ CheckRaises /\ Rejected(s)

\* Mutation of CheckDelivery: a chunk that was read is delivered without another check.
DeliveryUnchecked(s) ==
    /\ pc[s] = "delivering"
    /\ Moves(s, "checked")

CheckDelivery(s) ==
    /\ pc[s] = "delivering"
    /\ \/ CheckOk /\ Moves(s, "checked")
       \/ CheckRaises /\ Rejected(s)

Yield(s) ==
    /\ pc[s] = "checked"
    /\ count' = [count EXCEPT ![s] = @ + 1]
    /\ Goto(s, "yielded")
    /\ UNCHANGED <<safetyVars, logVars, kind, seq, admitted, pulled, emitted, failed, fault,
                   open, sessionVars>>

\* The consumer asks for the next chunk, or closes the stream (GeneratorExit).
Resume(s) == pc[s] = "yielded" /\ Moves(s, "top")
Close(s) == pc[s] = "yielded" /\ Moves(s, "closing")

\* The consuming task is cancelled at an await of the async generator.
Cancel(s) ==
    /\ Async
    /\ pc[s] \in {"hanging", "pulling", "closing"} \/ (pc[s] = "delaying" /\ ~dryRun)
    /\ UNCHANGED safetyVars
    /\ IF pc[s] = "closing"
       THEN /\ Goto(s, IF admitted[s] THEN "logging" ELSE "over")
            /\ failed' = [failed EXCEPT ![s] = TRUE]
            /\ open' = [open EXCEPT ![s] = FALSE]
            /\ UNCHANGED <<logVars, kind, seq, admitted, count, pulled, emitted, fault, sessionVars>>
       ELSE Rejected(s)

-----------------------------------------------------------------------------
(* The finally of deliver *)

\* The source is closed, and its close may raise.
CloseSource(s) ==
    /\ pc[s] = "closing"
    /\ open' = [open EXCEPT ![s] = FALSE]
    /\ \E raised \in BOOLEAN : failed' = [failed EXCEPT ![s] = @ \/ raised]
    /\ Goto(s, IF admitted[s] THEN "logging" ELSE "over")
    /\ UNCHANGED <<safetyVars, logVars, kind, seq, admitted, count, pulled, emitted, fault,
                   sessionVars>>

FinishRecord(s) ==
    /\ pc[s] = "logging"
    /\ LogFinish([seq |-> seq[s], error |-> failed[s], fault |-> fault[s]])
    /\ Goto(s, "finishing")
    /\ UNCHANGED <<safetyVars, kind, seq, admitted, count, pulled, emitted, failed, fault, open,
                   sessionVars>>

FinishStream(s) ==
    /\ pc[s] = "finishing"
    /\ Finish(failed[s])
    /\ Goto(s, "over")
    /\ UNCHANGED <<logVars, kind, seq, admitted, count, pulled, emitted, failed, fault, open,
                   sessionVars>>

-----------------------------------------------------------------------------

\* What happens within one next() or close() of the consumer.
GeneratorStep(s) ==
    \/ StartRecord(s)
    \/ CheckTop(s) \/ NoBoundary(s) \/ BoundaryPlan(s) \/ BoundaryEvent(s)
    \/ AppendCut(s) \/ HangEnds(s)
    \/ Pull(s)
    \/ NoSlowdown(s) \/ SlowAgain(s) \/ SlowPlan(s) \/ SlowEvent(s) \/ AppendSlow(s)
    \/ DelayEnds(s) \/ CheckDelivery(s) \/ Yield(s)
    \/ CloseSource(s) \/ FinishRecord(s) \/ FinishStream(s)

ConsumerStep(s) ==
    \/ Create(s) \/ CreateRejected(s)
    \/ Start(s) \/ StartRejected(s) \/ CloseUnstarted(s)
    \/ Resume(s) \/ Close(s) \/ Cancel(s)

Environment ==
    /\ (\E amount \in Costs : RecordCostOk(amount)) \/ Expire \/ (~closed /\ CloseSafety)
    /\ UNCHANGED <<logVars, streamVars, sessionVars>>

\* The session has ended and no stream of it is left.
AllOver ==
    /\ closed
    /\ \A s \in Streams : pc[s] = "over"
    /\ UNCHANGED vars

Next ==
    \/ \E s \in Streams : ConsumerStep(s) \/ GeneratorStep(s)
    \/ Environment
    \/ AllOver

Spec == Init /\ [][Next]_vars

-----------------------------------------------------------------------------
(* Properties *)

StreamsTypeOK ==
    /\ SafetyTypeOK
    /\ CallLogTypeOK
    /\ pc \in [Streams -> PC]
    /\ kind \in [Streams -> Kinds]
    /\ seq \in [Streams -> Nat]
    /\ \A f \in {admitted, emitted, failed, fault, open} : f \in [Streams -> BOOLEAN]
    /\ count \in [Streams -> Nat]
    /\ pulled \in [Streams -> Nat]
    /\ events \in Seq(Streams)
    /\ planned \in Seq(Streams)
    /\ dryRun \in BOOLEAN

\* in_flight counts the streams that are being consumed or were abandoned half-way.
InFlightExact ==
    inFlight = Cardinality({s \in Streams : admitted[s] /\ pc[s] # "over"})

\* A stream leaves at most one event or plan however many chunks it delays
\* (docs/safety.md), and an event for every injection it commits.
OneEventPerStream ==
    /\ \A i, j \in DOMAIN events : events[i] = events[j] => i = j
    /\ \A i, j \in DOMAIN planned : planned[i] = planned[j] => i = j
    /\ injections = Len(events) + Cardinality({s \in Streams : pc[s] \in {"cutting", "marking"}})

\* Whatever the consumers do and however the session ends, the accounting of the
\* streams is exact: the calls in flight, the events, the plans and the injections.
StreamAccounting == StreamsTypeOK /\ InFlightExact /\ OneEventPerStream

\* A cut or hung stream is never read beyond after_chunks, and its event comes after
\* exactly that many delivered chunks (StreamCutFault: without reading ahead).  The
\* consumer gets what was read, but for the one chunk in hand: nothing is delivered
\* twice, and a chunk read is lost only when the stream fails on it.
ChunksExact ==
    \A s \in Streams :
        /\ kind[s] \in Boundary /\ ~dryRun =>
              /\ pulled[s] <= AfterChunks
              /\ fault[s] => count[s] = AfterChunks
        /\ count[s] \in {pulled[s], pulled[s] - 1}
        /\ pc[s] = "over" /\ count[s] # pulled[s] => failed[s]

\* The chunks a stream has read and delivered, with the one that a check it has
\* passed lets it read or deliver next.
Progress(s) ==
    count[s] + pulled[s] + IF pc[s] \in {"boundary", "pulling", "checked"} THEN 1 ELSE 0

\* Once the session has aborted, ended or outlived its duration, no stream gets a new
\* permit: it reads or delivers at most the chunk it had been let through for, never
\* both, whatever it was reading, planning or delaying when the session stopped.
NoDeliveryAfterStop ==
    [][~CheckOk => \A s \in Streams : Progress(s)' <= Progress(s)]_vars

\* A stream that is over has closed its source (chaos_stream: the returned generator
\* owns source and closes it on exhaustion, fault, or close()).
SourceClosed == \A s \in Streams : pc[s] = "over" => ~open[s]

\* Stream injections obey the same budget as call injections.
Budget == INSTANCE InjectionBudget WITH
    Budget <- MaxInjections,
    admitted <- injections + reserved,
    spent <- injections,
    stopped <- closed \/ Aborted

ImplementsBudget == Budget!Spec

=============================================================================
