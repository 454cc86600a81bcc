--------------------------- MODULE StreamsProofs ---------------------------
(***************************************************************************)
(* Proofs about Streams, for any number of streams, any breaker and any    *)
(* after_chunks.                                                           *)
(*                                                                         *)
(* Every property here follows from what is true of each stream by itself  *)
(* (Local): where it may be once it is admitted, how many chunks it holds, *)
(* how far it has read, and what its one event or plan left behind.  The   *)
(* counts all streams share are exact because a step moves one of them.    *)
(***************************************************************************)
EXTENDS Streams, SafetyStateProofs

\* Where the generator is before begin, while it holds a chunk, and on its way out.
Outside == {"uncreated", "unstarted"}
Held == {"slowing", "marking", "delaying", "delivering", "checked"}
Leaving == {"closing", "logging", "finishing", "over"}

\* The part of the type invariant that speaks of the streams' own variables.
StreamTypes ==
    /\ pc \in [Streams -> PC]
    /\ kind \in [Streams -> Kinds]
    /\ seq \in [Streams -> Nat]
    /\ admitted \in [Streams -> BOOLEAN]
    /\ emitted \in [Streams -> BOOLEAN]
    /\ failed \in [Streams -> BOOLEAN]
    /\ fault \in [Streams -> BOOLEAN]
    /\ open \in [Streams -> BOOLEAN]
    /\ count \in [Streams -> Nat]
    /\ pulled \in [Streams -> Nat]
    /\ dryRun \in BOOLEAN

\* A stream is admitted from begin on, and ends through the finally if it was.
Admission(s) ==
    /\ pc[s] \in Outside => ~admitted[s]
    /\ pc[s] \notin Outside \cup {"closing", "over"} => admitted[s]

\* The consumer has every chunk that was read but the one the generator holds, which
\* is lost only on the way out of a failure.
Chunks(s) ==
    /\ pc[s] \in Held => count[s] = pulled[s] - 1
    /\ pc[s] \in Leaving => count[s] = pulled[s] \/ (count[s] = pulled[s] - 1 /\ failed[s])
    /\ pc[s] \notin Held \cup Leaving => count[s] = pulled[s]

\* Where the boundary fault stands: it has fired at after_chunks, or it is still ahead.
Limits(s) ==
    kind[s] \in Boundary /\ ~dryRun =>
        /\ pulled[s] <= AfterChunks
        /\ pc[s] = "pulling" => count[s] < AfterChunks
        /\ fault[s] => count[s] = AfterChunks /\ pc[s] \in {"hanging"} \cup Leaving

\* What a stream's one event or plan leaves behind, before and after.
Marks(s) ==
    /\ pc[s] = "uncreated" => ~fault[s] /\ pulled[s] = 0
    /\ pc[s] = "cutting" => kind[s] \in Boundary /\ ~dryRun /\ count[s] >= AfterChunks
    /\ pc[s] = "marking" => kind[s] \in Slow /\ ~dryRun /\ ~emitted[s]
    /\ fault[s] => kind[s] \in Boundary \cup Slow
    /\ fault[s] /\ kind[s] \in Slow => emitted[s]
    /\ fault[s] => ~dryRun

\* The source of a wrapped stream is closed by the finally, or by the wrapper.
Sources(s) == Wrapped /\ pc[s] \in Leaving \ {"closing"} => ~open[s]

Local(s) == Admission(s) /\ Chunks(s) /\ Limits(s) /\ Marks(s) /\ Sources(s)

\* A step of one stream, its consumer's or its generator's.
StreamStep(s) == ConsumerStep(s) \/ GeneratorStep(s)

-----------------------------------------------------------------------------
(* Each stream by itself *)

\* What one stream's step does to its own variables keeps their types.
LEMMA StreamTypesStep ==
    ASSUME StreamTypes, sequence \in Nat, NEW s \in Streams, StreamStep(s)
    PROVE  StreamTypes'
<1> USE DEF StreamTypes, PC, Kinds, Boundary, Slow, streamVars, sessionVars, Goto
<1>1. CASE Pull(s)
  <2>1. pulled' \in [Streams -> Nat]
    <3>1. pulled[s] + 1 \in Nat
      OBVIOUS
    <3>2. pulled' = pulled \/ pulled' = [pulled EXCEPT ![s] = pulled[s] + 1]
      BY <1>1 DEF Pull, Moves, Rejected
    <3> QED
      BY <3>1, <3>2
  <2>2. UNCHANGED <<kind, seq, admitted, emitted, fault, open, count, dryRun>>
    BY <1>1 DEF Pull, Moves, Rejected
  <2>3. pc' \in [Streams -> PC] /\ failed' \in [Streams -> BOOLEAN]
    BY <1>1 DEF Pull, Moves, Rejected, Fail
  <2> QED
    BY <2>1, <2>2, <2>3
<1>2. CASE Yield(s)
  <2>1. count[s] + 1 \in Nat
    OBVIOUS
  <2> QED
    BY <1>2, <2>1 DEF Yield
<1>3. CASE StartRecord(s)
  <2>1. sequence' \in Nat
    BY <1>3 DEF StartRecord, LogBegin
  <2> QED
    BY <1>3, <2>1 DEF StartRecord
<1>4. CASE Create(s)
  BY <1>4 DEF Create
<1>5. CASE CreateRejected(s) \/ Start(s) \/ CloseUnstarted(s)
  BY <1>5 DEF CreateRejected, Start, CloseUnstarted
<1>6. CASE \/ StartRejected(s) \/ CheckTop(s) \/ NoBoundary(s) \/ HangEnds(s)
           \/ NoSlowdown(s) \/ SlowAgain(s) \/ DelayEnds(s) \/ CheckDelivery(s)
           \/ Resume(s) \/ Close(s)
  BY <1>6 DEF StartRejected, CheckTop, NoBoundary, HangEnds, NoSlowdown, SlowAgain, DelayEnds,
      CheckDelivery,
              Resume, Close, Moves, Rejected, Fail
<1>7. CASE BoundaryPlan(s) \/ SlowPlan(s)
  BY <1>7 DEF BoundaryPlan, SlowPlan, PlanTo, Rejected, Fail
<1>8. CASE BoundaryEvent(s) \/ SlowEvent(s)
  BY <1>8 DEF BoundaryEvent, SlowEvent, Rejected, Fail
<1>9. CASE AppendCut(s)
  BY <1>9 DEF AppendCut, AppendEvent
<1>10. CASE AppendSlow(s)
  BY <1>10 DEF AppendSlow, AppendEvent
<1>11. CASE Cancel(s)
  BY <1>11 DEF Cancel, Rejected, Fail
<1>12. CASE CloseSource(s)
  BY <1>12 DEF CloseSource
<1>13. CASE FinishRecord(s) \/ FinishStream(s)
  BY <1>13 DEF FinishRecord, FinishStream
<1> QED
  BY <1>1, <1>2, <1>3, <1>4, <1>5, <1>6, <1>7, <1>8, <1>9, <1>10, <1>11, <1>12, <1>13
  DEF StreamStep, ConsumerStep, GeneratorStep

\* One stream's step keeps what is true of that stream.
LEMMA LocalStep ==
    ASSUME StreamTypes, NEW s \in Streams, StreamStep(s), Local(s)
    PROVE  Local(s)'
<1> USE StreamsAssumption
    DEF StreamTypes, PC, Kinds, Boundary, Slow, streamVars, sessionVars, Goto,
        Local, Admission, Chunks, Limits, Marks, Sources, Outside, Held, Leaving
<1>1. CASE Create(s) \/ CreateRejected(s) \/ Start(s) \/ CloseUnstarted(s) \/ StartRecord(s)
  BY <1>1 DEF Create, CreateRejected, Start, CloseUnstarted, StartRecord
<1>2. CASE StartRejected(s) \/ CheckTop(s) \/ HangEnds(s) \/ Resume(s) \/ Close(s)
  BY <1>2 DEF StartRejected, CheckTop, HangEnds, Resume, Close, Moves, Rejected, Fail
<1>3. CASE NoBoundary(s)
  BY <1>3 DEF NoBoundary, AtBoundary, Moves
<1>4. CASE NoSlowdown(s) \/ SlowAgain(s) \/ DelayEnds(s) \/ CheckDelivery(s)
  BY <1>4 DEF NoSlowdown, SlowAgain, DelayEnds, CheckDelivery, Moves, Rejected, Fail
<1>5. CASE BoundaryPlan(s)
  BY <1>5 DEF BoundaryPlan, AtBoundary, PlanTo, Rejected, Fail
<1>6. CASE SlowPlan(s)
  BY <1>6 DEF SlowPlan, PlanTo, Rejected, Fail
<1>7. CASE BoundaryEvent(s)
  BY <1>7 DEF BoundaryEvent, AtBoundary, Rejected, Fail
<1>8. CASE SlowEvent(s)
  BY <1>8 DEF SlowEvent, SlowsNow, Rejected, Fail
<1>9. CASE AppendCut(s)
  BY <1>9 DEF AppendCut, AppendEvent
<1>10. CASE AppendSlow(s)
  BY <1>10 DEF AppendSlow, AppendEvent
<1>11. CASE Pull(s)
  BY <1>11 DEF Pull, Moves, Rejected, Fail
<1>12. CASE Yield(s)
  BY <1>12 DEF Yield
<1>13. CASE Cancel(s)
  BY <1>13 DEF Cancel, Rejected, Fail
<1>14. CASE CloseSource(s)
  BY <1>14 DEF CloseSource
<1>15. CASE FinishRecord(s) \/ FinishStream(s)
  BY <1>15 DEF FinishRecord, FinishStream
<1> QED
  BY <1>1, <1>2, <1>3, <1>4, <1>5, <1>6, <1>7, <1>8, <1>9, <1>10, <1>11, <1>12, <1>13,
     <1>14, <1>15 DEF StreamStep, ConsumerStep, GeneratorStep

\* It does not touch another stream.
LEMMA OthersUntouched ==
    ASSUME StreamTypes, NEW s \in Streams, NEW t \in Streams, s # t, StreamStep(s)
    PROVE  /\ UNCHANGED <<pc[t], kind[t], admitted[t], count[t], pulled[t]>>
           /\ UNCHANGED <<emitted[t], failed[t], fault[t], open[t], dryRun>>
<1> USE DEF StreamTypes, streamVars, sessionVars, Goto
<1>1. CASE Create(s) \/ CreateRejected(s) \/ Start(s) \/ CloseUnstarted(s) \/ StartRecord(s)
  BY <1>1 DEF Create, CreateRejected, Start, CloseUnstarted, StartRecord
<1>2. CASE \/ StartRejected(s) \/ CheckTop(s) \/ NoBoundary(s) \/ HangEnds(s)
           \/ NoSlowdown(s) \/ SlowAgain(s) \/ DelayEnds(s) \/ CheckDelivery(s)
           \/ Resume(s) \/ Close(s)
  BY <1>2 DEF StartRejected, CheckTop, NoBoundary, HangEnds, NoSlowdown, SlowAgain, DelayEnds,
      CheckDelivery,
              Resume, Close, Moves, Rejected, Fail
<1>3. CASE BoundaryPlan(s) \/ SlowPlan(s)
  BY <1>3 DEF BoundaryPlan, SlowPlan, PlanTo, Rejected, Fail
<1>4. CASE BoundaryEvent(s) \/ SlowEvent(s)
  BY <1>4 DEF BoundaryEvent, SlowEvent, Rejected, Fail
<1>5. CASE AppendCut(s) \/ AppendSlow(s)
  BY <1>5 DEF AppendCut, AppendSlow, AppendEvent
<1>6. CASE Pull(s) \/ Yield(s)
  BY <1>6 DEF Pull, Yield, Moves, Rejected, Fail
<1>7. CASE Cancel(s)
  BY <1>7 DEF Cancel, Rejected, Fail
<1>8. CASE CloseSource(s) \/ FinishRecord(s) \/ FinishStream(s)
  BY <1>8 DEF CloseSource, FinishRecord, FinishStream
<1> QED
  BY <1>1, <1>2, <1>3, <1>4, <1>5, <1>6, <1>7, <1>8 DEF StreamStep, ConsumerStep, GeneratorStep

\* So what is true of every stream stays true.
LEMMA AllLocalStep ==
    ASSUME StreamTypes, \A t \in Streams : Local(t), NEW s \in Streams, StreamStep(s)
    PROVE  \A t \in Streams : Local(t)'
<1> SUFFICES ASSUME NEW t \in Streams
             PROVE  Local(t)'
  OBVIOUS
<1>1. CASE s = t
  BY <1>1, LocalStep
<1>2. CASE s # t
  BY <1>2, OthersUntouched DEF Local, Admission, Chunks, Limits, Marks, Sources
<1> QED
  BY <1>1, <1>2

-----------------------------------------------------------------------------
(* The shared counts *)

InUse == {s \in Streams : admitted[s] /\ pc[s] # "over"}
Committing == {s \in Streams : pc[s] \in {"cutting", "marking"}}

\* An event or a plan in the session's lists is the one its stream has made.
Logs ==
    /\ events \in Seq(Streams)
    /\ planned \in Seq(Streams)
    /\ \A i \in DOMAIN events : fault[events[i]]
    /\ \A i, j \in DOMAIN events : events[i] = events[j] => i = j
    /\ \A i \in DOMAIN planned : emitted[planned[i]]
    /\ \A i, j \in DOMAIN planned : planned[i] = planned[j] => i = j
    /\ ~dryRun => planned = <<>>

Inv ==
    /\ SafetyTypeOK
    /\ CallLogTypeOK
    /\ StreamTypes
    /\ \A s \in Streams : Local(s)
    /\ inFlight = Cardinality(InUse)
    /\ injections = Len(events) + Cardinality(Committing)
    /\ Logs

\* What a stream's step does to the safety state: one of its operations.
LEMMA StreamSafetyStep ==
    ASSUME NEW s \in Streams, StreamStep(s)
    PROVE  \/ UNCHANGED safetyVars
           \/ CheckRaises
           \/ ReserveRaises
           \/ BeginOk /\ Start(s)
           \/ InjectOk /\ (BoundaryEvent(s) \/ SlowEvent(s))
           \/ Finish(failed[s]) /\ FinishStream(s)
BY DEF StreamStep, ConsumerStep, GeneratorStep, Create, CreateRejected, Start, StartRejected,
       CloseUnstarted, StartRecord, CheckTop, NoBoundary, BoundaryPlan, BoundaryEvent, AppendCut,
       HangEnds, Pull, NoSlowdown, SlowAgain, SlowPlan, SlowEvent, AppendSlow, DelayEnds,
       CheckDelivery, Yield, Resume, Close, Cancel, CloseSource, FinishRecord, FinishStream,
       Moves, Rejected, PlanTo, AppendEvent, BeginRaises, InjectRaises

\* What it does to the call log.
LEMMA StreamLogStep ==
    ASSUME NEW s \in Streams, StreamStep(s)
    PROVE  \/ UNCHANGED logVars
           \/ LogBegin
           \/ LogFinish([seq |-> seq[s], error |-> failed[s], fault |-> fault[s]])
BY DEF StreamStep, ConsumerStep, GeneratorStep, Create, CreateRejected, Start, StartRejected,
       CloseUnstarted, StartRecord, CheckTop, NoBoundary, BoundaryPlan, BoundaryEvent, AppendCut,
       HangEnds, Pull, NoSlowdown, SlowAgain, SlowPlan, SlowEvent, AppendSlow, DelayEnds,
       CheckDelivery, Yield, Resume, Close, Cancel, CloseSource, FinishRecord, FinishStream,
       Moves, Rejected, PlanTo, AppendEvent

\* A stream enters the set counted by in_flight with begin and leaves it with finish.
LEMMA InUseStep ==
    ASSUME Inv, NEW s \in Streams, StreamStep(s)
    PROVE  /\ Start(s) => s \notin InUse /\ InUse' = InUse \cup {s}
           /\ FinishStream(s) => s \in InUse /\ InUse' = InUse \ {s}
           /\ ~Start(s) /\ ~FinishStream(s) => InUse' = InUse
<1>1. StreamTypes /\ Local(s)
  BY DEF Inv
<1>2. ASSUME NEW t \in Streams, s # t
      PROVE  t \in InUse' <=> t \in InUse
  BY <1>1, <1>2, OthersUntouched DEF InUse
<1>3. Start(s) => s \notin InUse /\ s \in InUse'
  BY <1>1 DEF Start, Goto, InUse, StreamTypes, Local, Admission, Outside
<1>4. FinishStream(s) => s \in InUse /\ s \notin InUse'
  BY <1>1 DEF FinishStream, Goto, InUse, StreamTypes, Local, Admission, Outside
<1>5. ~Start(s) /\ ~FinishStream(s) => (s \in InUse' <=> s \in InUse)
  BY <1>1 DEF InUse, StreamTypes, Local, Admission, Outside, StreamStep, ConsumerStep,
       GeneratorStep, Create, CreateRejected, StartRejected, CloseUnstarted, StartRecord,
       CheckTop, NoBoundary, BoundaryPlan, BoundaryEvent, AppendCut, HangEnds, Pull, NoSlowdown,
       SlowAgain, SlowPlan, SlowEvent, AppendSlow, DelayEnds, CheckDelivery, Yield, Resume,
       Close, Cancel,
       CloseSource, FinishRecord, Moves, Rejected, Fail, Goto, PlanTo, AppendEvent, streamVars
<1> QED
  BY <1>2, <1>3, <1>4, <1>5 DEF InUse

\* in_flight stays exact.
LEMMA InFlightStep ==
    ASSUME Inv, NEW s \in Streams, StreamStep(s)
    PROVE  inFlight' = Cardinality(InUse') /\ inFlight' \in Nat
<1>1. IsFiniteSet(InUse) /\ IsFiniteSet(InUse')
  BY FS_Subset, StreamsAssumption DEF InUse
<1>2. inFlight = Cardinality(InUse) /\ inFlight \in Nat /\ Cardinality(InUse') \in Nat
  BY <1>1, FS_CardinalityType DEF Inv, SafetyTypeOK
<1>3. CASE Start(s)
  <2>1. inFlight' = inFlight + 1
    BY <1>3 DEF Start, BeginOk
  <2> QED
    BY <1>1, <1>2, <1>3, <2>1, InUseStep, FS_AddElement
<1>4. CASE FinishStream(s)
  <2>1. inFlight' = inFlight - 1
    BY <1>4 DEF FinishStream, Finish
  <2> QED
    BY <1>1, <1>2, <1>4, <2>1, InUseStep, FS_RemoveElement
<1>5. CASE ~Start(s) /\ ~FinishStream(s)
  <2>1. inFlight' = inFlight
    BY <1>5, StreamSafetyStep DEF safetyVars, accounting, CheckRaises, ReserveRaises, InjectOk
  <2> QED
    BY <1>2, <1>5, <2>1, InUseStep
<1> QED
  BY <1>3, <1>4, <1>5

\* A stream that commits an injection appends its event before anything else.
LEMMA CommittingStep ==
    ASSUME Inv, NEW s \in Streams, StreamStep(s)
    PROVE  \/ /\ s \notin Committing /\ Committing' = Committing \cup {s}
              /\ injections' = injections + 1 /\ UNCHANGED events
           \/ /\ s \in Committing /\ Committing' = Committing \ {s}
              /\ injections' = injections /\ events' = Append(events, s) /\ ~fault[s]
              /\ ~dryRun /\ fault'[s] /\ UNCHANGED planned
           \/ Committing' = Committing /\ injections' = injections /\ UNCHANGED events
<1>1. StreamTypes /\ Local(s)
  BY DEF Inv
<1>2. ASSUME NEW t \in Streams, s # t
      PROVE  t \in Committing' <=> t \in Committing
  BY <1>1, <1>2, OthersUntouched DEF Committing
<1>3. CASE AppendCut(s) \/ AppendSlow(s)
  <2>1. /\ s \in Committing /\ s \notin Committing'
        /\ injections' = injections /\ events' = Append(events, s)
        /\ fault'[s] /\ UNCHANGED planned
    BY <1>1, <1>3 DEF AppendCut, AppendSlow, AppendEvent, Goto, Committing, StreamTypes,
        safetyVars
  <2>2. ~fault[s] /\ ~dryRun
    BY <1>1, <1>3 DEF AppendCut, AppendSlow, Local, Limits, Marks, Leaving, Boundary, Slow
  <2> QED
    BY <1>2, <2>1, <2>2 DEF Committing
<1>4. CASE BoundaryEvent(s) \/ SlowEvent(s)
  <2>1. s \notin Committing /\ UNCHANGED events
    BY <1>4 DEF BoundaryEvent, SlowEvent, Committing, Rejected, sessionVars
  <2>2. \/ s \in Committing' /\ injections' = injections + 1
        \/ s \notin Committing' /\ injections' = injections
    BY <1>1, <1>4 DEF BoundaryEvent, SlowEvent, Committing, Rejected, Fail, Goto, StreamTypes,
                      InjectOk, InjectRaises, ReserveRaises, CheckRaises, accounting
  <2> QED
    BY <1>2, <2>1, <2>2 DEF Committing
<1>5. CASE ~(AppendCut(s) \/ AppendSlow(s) \/ BoundaryEvent(s) \/ SlowEvent(s))
  <2>1. s \notin Committing /\ s \notin Committing'
    BY <1>1, <1>5 DEF Committing, StreamTypes, StreamStep, ConsumerStep, GeneratorStep,
       Create, CreateRejected, Start, StartRejected, CloseUnstarted, StartRecord, CheckTop,
       NoBoundary, BoundaryPlan, HangEnds, Pull, NoSlowdown, SlowAgain, SlowPlan, DelayEnds,
       CheckDelivery,
       Yield, Resume, Close, Cancel, CloseSource, FinishRecord, FinishStream, Moves, Rejected,
       Fail, Goto, PlanTo, streamVars
  <2>2. injections' = injections
    BY <1>5, StreamSafetyStep
    DEF safetyVars, accounting, CheckRaises, ReserveRaises, BeginOk, Finish
  <2>3. UNCHANGED events
    BY <1>5 DEF StreamStep, ConsumerStep, GeneratorStep, Create, CreateRejected, Start,
       StartRejected, CloseUnstarted, StartRecord, CheckTop, NoBoundary, BoundaryPlan, HangEnds,
       Pull, NoSlowdown, SlowAgain, SlowPlan, DelayEnds, CheckDelivery, Yield, Resume, Close,
       Cancel,
       CloseSource, FinishRecord, FinishStream, Moves, Rejected, PlanTo, sessionVars
  <2> QED
    BY <1>2, <2>1, <2>2, <2>3 DEF Committing
<1> QED
  BY <1>3, <1>4, <1>5

\* Injections stay the events appended and those about to be.
LEMMA InjectionStep ==
    ASSUME Inv, NEW s \in Streams, StreamStep(s)
    PROVE  injections' = Len(events') + Cardinality(Committing')
<1>1. IsFiniteSet(Committing) /\ Cardinality(Committing) \in Nat
  BY FS_Subset, FS_CardinalityType, StreamsAssumption DEF Committing
<1>2. events \in Seq(Streams) /\ Len(events) \in Nat
      /\ injections = Len(events) + Cardinality(Committing)
  BY LenProperties DEF Inv, Logs
<1>3. CASE /\ s \notin Committing /\ Committing' = Committing \cup {s}
           /\ injections' = injections + 1 /\ UNCHANGED events
  <2>1. Cardinality(Committing') = Cardinality(Committing) + 1
    BY <1>1, <1>3, FS_AddElement
  <2> QED
    BY <1>1, <1>2, <1>3, <2>1
<1>4. CASE /\ s \in Committing /\ Committing' = Committing \ {s}
           /\ injections' = injections /\ events' = Append(events, s)
  <2>1. Len(events') = Len(events) + 1
    BY <1>2, <1>4, AppendProperties
  <2>2. Cardinality(Committing') = Cardinality(Committing) - 1
    BY <1>1, <1>4, FS_RemoveElement
  <2> QED
    BY <1>1, <1>2, <1>4, <2>1, <2>2
<1> QED
  BY <1>2, <1>3, <1>4, CommittingStep

\* Appending what a sequence without repetitions does not hold leaves it without.
LEMMA AppendNew ==
    ASSUME NEW q \in Seq(Streams), NEW s \in Streams, \A i \in DOMAIN q : q[i] # s,
           \A i, j \in DOMAIN q : q[i] = q[j] => i = j
    PROVE  /\ Append(q, s) \in Seq(Streams)
           /\ \A i, j \in DOMAIN Append(q, s) : Append(q, s)[i] = Append(q, s)[j] => i = j
           /\ \A i \in DOMAIN Append(q, s) :
                 Append(q, s)[i] = s \/ \E j \in DOMAIN q : Append(q, s)[i] = q[j]
BY AppendProperties

\* The plans of a stream's step: one more, by a stream that has none, or the same.
LEMMA PlannedStep ==
    ASSUME Inv, NEW s \in Streams, StreamStep(s)
    PROVE  \/ /\ dryRun /\ ~emitted[s] /\ planned' = Append(planned, s)
              /\ emitted' = [emitted EXCEPT ![s] = TRUE] /\ UNCHANGED <<events, fault>>
           \/ UNCHANGED <<planned, emitted>>
           \/ UNCHANGED planned /\ ~dryRun
<1>1. StreamTypes /\ Local(s)
  BY DEF Inv
<1>2. CASE AppendCut(s) \/ AppendSlow(s)
  BY <1>1, <1>2 DEF AppendCut, AppendSlow, AppendEvent, Local, Marks
<1>3. CASE BoundaryPlan(s)
  BY <1>1, <1>3 DEF BoundaryPlan, PlanTo, Rejected, sessionVars, StreamTypes
<1>4. CASE SlowPlan(s)
  BY <1>1, <1>4 DEF SlowPlan, PlanTo, Rejected, sessionVars, StreamTypes
<1>5. CASE ~(AppendCut(s) \/ AppendSlow(s) \/ BoundaryPlan(s) \/ SlowPlan(s))
  BY <1>5 DEF StreamStep, ConsumerStep, GeneratorStep, Create, CreateRejected, Start,
       StartRejected, CloseUnstarted, StartRecord, CheckTop, NoBoundary, BoundaryEvent, HangEnds,
       Pull, NoSlowdown, SlowAgain, SlowEvent, DelayEnds, CheckDelivery, Yield, Resume, Close,
       Cancel,
       CloseSource, FinishRecord, FinishStream, Moves, Rejected, sessionVars, streamVars
<1> QED
  BY <1>2, <1>3, <1>4, <1>5

\* A stream that has its event keeps it.
LEMMA FaultStep ==
    ASSUME StreamTypes, NEW s \in Streams, StreamStep(s), NEW t \in Streams, fault[t]
    PROVE  fault'[t]
<1>1. CASE AppendCut(s) \/ AppendSlow(s)
  BY <1>1 DEF AppendCut, AppendSlow, AppendEvent, StreamTypes
<1>2. CASE ~(AppendCut(s) \/ AppendSlow(s))
  BY <1>2 DEF StreamStep, ConsumerStep, GeneratorStep, Create, CreateRejected, Start,
       StartRejected, CloseUnstarted, StartRecord, CheckTop, NoBoundary, BoundaryPlan,
       BoundaryEvent, HangEnds, Pull, NoSlowdown, SlowAgain, SlowPlan, SlowEvent, DelayEnds,
       CheckDelivery,
       Yield, Resume, Close, Cancel, CloseSource, FinishRecord, FinishStream, Moves, Rejected,
       PlanTo, streamVars
<1> QED
  BY <1>1, <1>2

\* Both lists stay lists of different streams that have made their entry.
LEMMA LogsStep ==
    ASSUME Inv, NEW s \in Streams, StreamStep(s)
    PROVE  Logs'
<1>1. StreamTypes /\ Logs /\ dryRun' = dryRun /\ emitted \in [Streams -> BOOLEAN]
  <2>1. dryRun' = dryRun
    BY DEF StreamStep, ConsumerStep, GeneratorStep, Create, CreateRejected, Start,
       StartRejected, CloseUnstarted, StartRecord, CheckTop, NoBoundary, BoundaryPlan,
       BoundaryEvent, AppendCut, HangEnds, Pull, NoSlowdown, SlowAgain, SlowPlan, SlowEvent,
       AppendSlow, DelayEnds, CheckDelivery, Yield, Resume, Close, Cancel, CloseSource,
       FinishRecord,
       FinishStream, Moves, Rejected, PlanTo, AppendEvent, sessionVars
  <2> QED
    BY <2>1 DEF Inv, StreamTypes
<1>2. /\ events' \in Seq(Streams)
      /\ \A i \in DOMAIN events' : fault'[events'[i]]
      /\ \A i, j \in DOMAIN events' : events'[i] = events'[j] => i = j
  <2>1. CASE UNCHANGED events
    <3>1. \A i \in DOMAIN events : events[i] \in Streams
      BY <1>1 DEF Logs
    <3> QED
      BY <1>1, <2>1, <3>1, FaultStep DEF Logs
  <2>2. CASE events' = Append(events, s) /\ ~fault[s] /\ fault'[s]
    <3>1. \A i \in DOMAIN events : events[i] \in Streams /\ events[i] # s
      BY <1>1, <2>2 DEF Logs
    <3>2. \A i \in DOMAIN events : fault'[events[i]]
      BY <1>1, <3>1, FaultStep DEF Logs
    <3> QED
      BY <1>1, <2>2, <3>1, <3>2, AppendNew DEF Logs
  <2> QED
    BY <2>1, <2>2, CommittingStep
<1>3. /\ planned' \in Seq(Streams)
      /\ \A i \in DOMAIN planned' : emitted'[planned'[i]]
      /\ \A i, j \in DOMAIN planned' : planned'[i] = planned'[j] => i = j
      /\ ~dryRun' => planned' = <<>>
  <2>1. CASE UNCHANGED <<planned, emitted>>
    BY <1>1, <2>1 DEF Logs
  <2>2. CASE UNCHANGED planned /\ ~dryRun
    BY <1>1, <2>2 DEF Logs
  <2>3. CASE /\ dryRun /\ ~emitted[s] /\ planned' = Append(planned, s)
             /\ emitted' = [emitted EXCEPT ![s] = TRUE]
    <3>1. \A i \in DOMAIN planned : planned[i] \in Streams /\ planned[i] # s
      BY <1>1, <2>3 DEF Logs
    <3>2. \A i \in DOMAIN planned : emitted'[planned[i]]
      BY <1>1, <2>3, <3>1 DEF Logs
    <3>3. emitted'[s]
      BY <1>1, <2>3
    <3> QED
      BY <1>1, <2>3, <3>1, <3>2, <3>3, AppendNew DEF Logs
  <2> QED
    BY <2>1, <2>2, <2>3, PlannedStep
<1> QED
  BY <1>2, <1>3 DEF Logs

-----------------------------------------------------------------------------
(* The inductive invariant *)

\* A session starts with no stream admitted and nothing logged.
LEMMA InvInit == Init => Inv
<1> SUFFICES ASSUME Init
             PROVE  Inv
  OBVIOUS
<1> USE DEF Init
<1>1. SafetyTypeOK /\ inFlight = 0 /\ injections = 0
  <2>1. failures \in Seq(BOOLEAN) /\ Len(failures) <= WindowSize
    BY BreakerAssumption DEF SafetyInit
  <2>2. abort \in Aborts
    BY DEF SafetyInit, NoAbort, Aborts, Fractions, Elapsed
  <2> QED
    BY <2>1, <2>2 DEF SafetyInit, SafetyTypeOK
<1>2. CallLogTypeOK
  BY CallLogAssumption DEF CallLogInit, CallLogTypeOK
<1>3. StreamTypes
  BY DEF StreamTypes, PC, Kinds
<1>4. \A s \in Streams : Local(s)
  BY StreamsAssumption DEF Local, Admission, Chunks, Limits, Marks, Sources, Outside, Held,
      Leaving,
     Boundary, Slow
<1>5. InUse = {} /\ Committing = {}
  BY DEF InUse, Committing
<1>6. inFlight = Cardinality(InUse) /\ injections = Len(events) + Cardinality(Committing)
  BY <1>1, <1>5, FS_EmptySet
<1>7. Logs
  BY DEF Logs
<1> QED
  BY <1>1, <1>2, <1>3, <1>4, <1>6, <1>7 DEF Inv

\* A step of a stream.
LEMMA InvStreamStep ==
    ASSUME Inv, NEW s \in Streams, StreamStep(s)
    PROVE  Inv'
<1>1. SafetyTypeOK'
  <2>1. SafetyTypeOK /\ failed[s] \in BOOLEAN /\ inFlight' \in Nat
    BY InFlightStep DEF Inv, StreamTypes
  <2>2. CASE UNCHANGED safetyVars
    BY <2>1, <2>2 DEF SafetyTypeOK, safetyVars
  <2>3. CASE CheckRaises \/ ReserveRaises
    BY <2>1, <2>3, CheckRaisesType, ReserveRaisesType
  <2>4. CASE BeginOk \/ InjectOk
    BY <2>1, <2>4 DEF BeginOk, InjectOk, SafetyTypeOK
  <2>5. CASE Finish(failed[s])
    BY <2>1, <2>5, FinishType
  <2> QED
    BY <2>2, <2>3, <2>4, <2>5, StreamSafetyStep
<1>2. CallLogTypeOK'
  <2>1. CallLogTypeOK /\ [seq |-> seq[s], error |-> failed[s], fault |-> fault[s]] \in Record
    BY DEF Inv, StreamTypes, Record
  <2>2. CASE UNCHANGED logVars \/ LogBegin
    BY <2>1, <2>2 DEF CallLogTypeOK, logVars, LogBegin
  <2>3. CASE LogFinish([seq |-> seq[s], error |-> failed[s], fault |-> fault[s]])
    BY <2>1, <2>3, LogFinishType
  <2> QED
    BY <2>2, <2>3, StreamLogStep
<1>3. StreamTypes'
  BY StreamTypesStep DEF Inv, CallLogTypeOK
<1>4. \A t \in Streams : Local(t)'
  BY AllLocalStep DEF Inv
<1> QED
  BY <1>1, <1>2, <1>3, <1>4, InFlightStep, InjectionStep, LogsStep DEF Inv

\* A step in which no stream moves.
LEMMA InvOtherStep ==
    ASSUME Inv, UNCHANGED <<logVars, streamVars, sessionVars>>,
           \/ UNCHANGED safetyVars
           \/ \E amount \in Costs : RecordCostOk(amount)
           \/ Expire
           \/ CloseSafety
    PROVE  Inv'
<1>1. SafetyTypeOK' /\ UNCHANGED <<inFlight, injections>>
  <2>1. CASE UNCHANGED safetyVars \/ Expire \/ CloseSafety
    BY <2>1 DEF Inv, SafetyTypeOK, safetyVars, Expire, CloseSafety, accounting
  <2>2. ASSUME NEW amount \in Costs, RecordCostOk(amount)
        PROVE  SafetyTypeOK' /\ UNCHANGED <<inFlight, injections>>
    <3>1. amount \in Nat
      BY StreamsAssumption
    <3> QED
      BY <2>2, <3>1, RecordCostType DEF Inv, RecordCostOk
  <2> QED
    BY <2>1, <2>2
<1>2. CallLogTypeOK' /\ StreamTypes' /\ Logs'
  BY DEF Inv, CallLogTypeOK, logVars, StreamTypes, Logs, streamVars, sessionVars
<1>3. \A t \in Streams : Local(t)'
  BY DEF Inv, Local, Admission, Chunks, Limits, Marks, Sources, streamVars, sessionVars
<1>4. InUse' = InUse /\ Committing' = Committing /\ events' = events
  BY DEF InUse, Committing, streamVars, sessionVars
<1> QED
  BY <1>1, <1>2, <1>3, <1>4 DEF Inv

\* Every step keeps the invariant.
LEMMA InvNext == Inv /\ [Next]_vars => Inv'
<1> SUFFICES ASSUME Inv, [Next]_vars
             PROVE  Inv'
  OBVIOUS
<1>1. CASE \E s \in Streams : StreamStep(s)
  BY <1>1, InvStreamStep
<1>2. CASE Environment
  BY <1>2, InvOtherStep DEF Environment
<1>3. CASE UNCHANGED vars
  BY <1>3, InvOtherStep DEF vars
<1> QED
  BY <1>1, <1>2, <1>3 DEF Next, StreamStep, AllOver

\* The invariant of the streams.
THEOREM InvHolds == Spec => []Inv
BY InvInit, InvNext, PTL DEF Spec

-----------------------------------------------------------------------------
(* What it shows *)

\* in_flight counts the streams that are being consumed, no stream leaves two events or
\* two plans, and every committed injection has its event or is about to.
THEOREM AccountingIsExact == Spec => []StreamAccounting
<1>1. Inv => StreamAccounting
  BY DEF Inv, StreamTypes, Logs, StreamAccounting, StreamsTypeOK, InFlightExact,
       OneEventPerStream,
         InUse, Committing
<1> QED
  BY <1>1, InvHolds, PTL

\* A cut or hung stream is not read past after_chunks and its event comes there; what
\* was read is delivered once, but for a chunk lost to a failure.
THEOREM ChunksAreExact == Spec => []ChunksExact
<1>1. Inv => ChunksExact
  BY StreamsAssumption
  DEF Inv, StreamTypes, Local, Chunks, Limits, ChunksExact, Held, Leaving
<1> QED
  BY <1>1, InvHolds, PTL

\* Wrapped as the provider patches wrap it, a stream that is over has closed its source.
THEOREM SourcesAreClosed == ASSUME Wrapped PROVE Spec => []SourceClosed
<1>1. Inv => SourceClosed
  BY DEF Inv, Local, Sources, SourceClosed, Leaving
<1> QED
  BY <1>1, InvHolds, PTL

\* On a stopped session a step of a stream uses a permit it has or gives it up: every
\* other step that reads, delivers or goes on asks the session first.
LEMMA ProgressStep ==
    ASSUME StreamTypes, ~CheckOk, NEW s \in Streams, StreamStep(s)
    PROVE  Progress(s)' <= Progress(s)
<1> USE DEF StreamTypes, Goto, Progress
<1>1. CASE Create(s) \/ CreateRejected(s) \/ Start(s) \/ CloseUnstarted(s) \/ StartRecord(s)
  BY <1>1 DEF Create, CreateRejected, Start, CloseUnstarted, StartRecord, streamVars
<1>2. CASE \/ StartRejected(s) \/ CheckTop(s) \/ NoBoundary(s) \/ HangEnds(s)
           \/ NoSlowdown(s) \/ SlowAgain(s) \/ DelayEnds(s) \/ CheckDelivery(s)
           \/ Resume(s) \/ Close(s)
  BY <1>2 DEF StartRejected, CheckTop, NoBoundary, HangEnds, NoSlowdown, SlowAgain, DelayEnds,
              CheckDelivery, Resume, Close, Moves, Rejected, Fail
<1>3. CASE BoundaryPlan(s) \/ SlowPlan(s)
  BY <1>3 DEF BoundaryPlan, SlowPlan, PlanTo, Rejected, Fail
<1>4. CASE BoundaryEvent(s) \/ SlowEvent(s)
  BY <1>4 DEF BoundaryEvent, SlowEvent, Rejected, Fail
<1>5. CASE AppendCut(s) \/ AppendSlow(s)
  BY <1>5 DEF AppendCut, AppendSlow, AppendEvent
<1>6. CASE Pull(s) \/ Yield(s)
  BY <1>6 DEF Pull, Yield, Moves, Rejected, Fail
<1>7. CASE Cancel(s)
  BY <1>7 DEF Cancel, Rejected, Fail
<1>8. CASE CloseSource(s) \/ FinishRecord(s) \/ FinishStream(s)
  BY <1>8 DEF CloseSource, FinishRecord, FinishStream
<1> QED
  BY <1>1, <1>2, <1>3, <1>4, <1>5, <1>6, <1>7, <1>8 DEF StreamStep, ConsumerStep, GeneratorStep

\* After a stop each stream reads or delivers at most the one chunk a check had let it
\* through for, whatever it was reading or delaying when the session stopped.
THEOREM DeliveryStops == Spec => NoDeliveryAfterStop
<1> DEFINE NoNewPermit == ~CheckOk => \A s \in Streams : Progress(s)' <= Progress(s)
<1>1. Inv /\ [Next]_vars => [NoNewPermit]_vars
  <2> SUFFICES ASSUME Inv, [Next]_vars, ~CheckOk, NEW t \in Streams
               PROVE  Progress(t)' <= Progress(t)
    OBVIOUS
  <2>1. StreamTypes
    BY DEF Inv
  <2>2. CASE pc'[t] = pc[t] /\ count'[t] = count[t] /\ pulled'[t] = pulled[t]
    BY <2>1, <2>2 DEF StreamTypes, Progress
  <2>3. ASSUME NEW s \in Streams, StreamStep(s)
        PROVE  Progress(t)' <= Progress(t)
    <3>1. CASE s = t
      BY <2>1, <2>3, <3>1, ProgressStep
    <3>2. CASE s # t
      BY <2>1, <2>2, <2>3, <3>2, OthersUntouched
    <3> QED
      BY <3>1, <3>2
  <2>4. CASE Environment \/ AllOver \/ UNCHANGED vars
    BY <2>2, <2>4 DEF Environment, AllOver, vars, streamVars
  <2> QED
    BY <2>3, <2>4 DEF Next, StreamStep
<1>2. [][NoNewPermit]_vars <=> NoDeliveryAfterStop
  BY DEF NoDeliveryAfterStop
<1> HIDE DEF NoNewPermit
<1> QED
  BY <1>1, <1>2, InvHolds, PTL DEF Spec

\* A step that commits nothing at most stops the session.
LEMMA UncommittedStep ==
    ASSUME Inv,
           \/ UNCHANGED safetyVars \/ CheckRaises \/ ReserveRaises \/ BeginOk
           \/ \E outcome \in BOOLEAN : Finish(outcome)
           \/ \E amount \in Costs : RecordCostOk(amount)
           \/ Expire \/ CloseSafety
    PROVE  [Budget!Next]_(Budget!budgetVars)
<1> DEFINE Stopped == closed \/ Aborted
<1>1. injections' = injections /\ reserved' = reserved
  BY DEF safetyVars, CheckRaises, ReserveRaises, BeginOk, Finish, RecordCostOk, Expire,
         CloseSafety, accounting
<1>2. Stopped => Stopped'
  BY DEF safetyVars, CheckRaises, ReserveRaises, BeginOk, Finish, RecordCostOk, Expire,
         CloseSafety, AbortWith, Aborted, CheckOk
<1>3. Stopped \in BOOLEAN /\ Stopped' \in BOOLEAN
  BY DEF Aborted, Inv, SafetyTypeOK, CheckRaises, ReserveRaises, BeginOk, Finish, RecordCostOk,
         Expire, CloseSafety, safetyVars
<1>4. CASE Stopped' = Stopped
  BY <1>1, <1>4 DEF Budget!budgetVars
<1>5. CASE Stopped' = TRUE
  BY <1>1, <1>5 DEF Budget!Next, Budget!Stop
<1> QED
  BY <1>2, <1>3, <1>4, <1>5

\* A committed stream fault is one admitted and spent at once.
LEMMA CommittedStep ==
    ASSUME Inv, InjectOk
    PROVE  Budget!Commit
<1>1. injections \in Nat /\ reserved \in Nat /\ MaxInjections \in Nat \cup {NoLimit}
  BY BreakerAssumption DEF Inv, SafetyTypeOK
<1>2. /\ ~(closed \/ Aborted) /\ (closed \/ Aborted)' = (closed \/ Aborted)
      /\ injections' = injections + 1 /\ reserved' = reserved
      /\ MaxInjections = NoLimit \/ injections + reserved < MaxInjections
  BY <1>1 DEF InjectOk, CheckOk, BudgetSpent, Aborted
<1> QED
  BY <1>1, <1>2 DEF Budget!Commit

\* The streams' injections implement the abstract budget.
THEOREM StreamBudgetRefined == Spec => ImplementsBudget
<1>1. Init => Budget!Init
  BY DEF Init, SafetyInit, Budget!Init, Aborted
<1>2. Inv /\ [Next]_vars => [Budget!Next]_(Budget!budgetVars)
  <2> SUFFICES ASSUME Inv, [Next]_vars
               PROVE  [Budget!Next]_(Budget!budgetVars)
    OBVIOUS
  <2>1. ASSUME NEW s \in Streams, StreamStep(s)
        PROVE  [Budget!Next]_(Budget!budgetVars)
    <3>1. failed[s] \in BOOLEAN
      BY DEF Inv, StreamTypes
    <3>2. CASE InjectOk
      BY <3>2, CommittedStep DEF Budget!Next
    <3>3. CASE ~InjectOk
      BY <2>1, <3>1, <3>3, StreamSafetyStep, UncommittedStep
    <3> QED
      BY <3>2, <3>3
  <2>2. CASE Environment \/ UNCHANGED vars
    BY <2>2, UncommittedStep DEF Environment, vars
  <2> QED
    BY <2>1, <2>2 DEF Next, StreamStep, AllOver
<1> QED
  BY <1>1, <1>2, InvHolds, PTL DEF Spec, ImplementsBudget, Budget!Spec

=============================================================================
