----------------------------- MODULE CallsProofs -----------------------------
(***************************************************************************)
(* Proofs about calls, synchronous (ChaosCalls) and asynchronous           *)
(* (AsyncCalls), for any number of workers, any breaker and any size of    *)
(* the executor.                                                           *)
(*                                                                         *)
(* The type invariant is not inductive by itself: in_flight and            *)
(* _reserved_injections are decremented, and stay natural numbers only     *)
(* because they count the workers that are inside a call and inside a      *)
(* fault.  Accounting, the inductive invariant, says so; that an abort is  *)
(* sound and that the evidence is rest on it.                              *)
(*                                                                         *)
(* Asynchronous calls implement the synchronous ones: a step of a thread,  *)
(* a task or the loop is one step of a call, or leaves every call alone,   *)
(* so what is proved of ChaosCalls holds of chaos_acall, cancelled tasks   *)
(* and a late event loop included.                                         *)
(***************************************************************************)
EXTENDS AsyncCalls, SafetyStateProofs

Accounting == TypeOK /\ InFlightExact /\ ReservedExact

CallLabels == PC \ {"idle"}
HoldLabels == {"reserved", "invoking", "settling"}

\* The workers whose label is one of L.
At(p, L) == {w \in Workers : p[w] \in L}

\* How many workers enter (1) or leave (-1) the labels L in a move from a to b.
Delta(L, a, b) == IF a \notin L /\ b \in L THEN 1 ELSE IF a \in L /\ b \notin L THEN -1 ELSE 0

-----------------------------------------------------------------------------
(* Counting *)

\* One worker's move changes the number of workers at L by its Delta.
LEMMA MoveCount ==
    ASSUME pc \in [Workers -> PC], NEW w \in Workers, NEW l \in PC,
           pc' = [pc EXCEPT ![w] = l], NEW L
    PROVE  /\ Cardinality(At(pc, L)) \in Nat
           /\ Cardinality(At(pc', L)) \in Nat
           /\ Cardinality(At(pc', L)) = Cardinality(At(pc, L)) + Delta(L, pc[w], l)
<1>1. IsFiniteSet(At(pc, L)) /\ IsFiniteSet(At(pc', L))
  BY FS_Subset, ChaosCallsAssumption DEF At
<1>2. Cardinality(At(pc, L)) \in Nat /\ Cardinality(At(pc', L)) \in Nat
  BY <1>1, FS_CardinalityType
<1>3. w \in At(pc, L) <=> pc[w] \in L
  BY DEF At
<1>4. CASE l \in L
  <2>1. At(pc', L) = At(pc, L) \cup {w}
    BY <1>4 DEF At
  <2>2. Cardinality(At(pc', L)) = IF pc[w] \in L THEN Cardinality(At(pc, L))
                                 ELSE Cardinality(At(pc, L)) + 1
    BY <1>1, <1>3, <2>1, FS_AddElement
  <2> QED
    BY <1>2, <1>4, <2>2 DEF Delta
<1>5. CASE l \notin L
  <2>1. At(pc', L) = At(pc, L) \ {w}
    BY <1>5 DEF At
  <2>2. Cardinality(At(pc', L)) = IF pc[w] \in L THEN Cardinality(At(pc, L)) - 1
                                 ELSE Cardinality(At(pc, L))
    BY <1>1, <1>3, <2>1, FS_RemoveElement
  <2> QED
    BY <1>2, <1>5, <2>2 DEF Delta
<1> QED
  BY <1>4, <1>5

\* A step that moves one worker and changes the two counters by the Delta of the
\* move keeps both counters exact.
LEMMA WorkerMove ==
    ASSUME Accounting, NEW w \in Workers, NEW l \in PC,
           pc' = [pc EXCEPT ![w] = l],
           inFlight' = inFlight + Delta(CallLabels, pc[w], l),
           reserved' = reserved + Delta(HoldLabels, pc[w], l)
    PROVE  /\ pc' \in [Workers -> PC]
           /\ inFlight' \in Nat
           /\ reserved' \in Nat
           /\ InFlightExact'
           /\ ReservedExact'
<1>1. pc \in [Workers -> PC] /\ pc' \in [Workers -> PC]
  BY DEF Accounting, TypeOK
<1>2. /\ InCall = At(pc, CallLabels)
      /\ InCall' = At(pc', CallLabels)
      /\ Holding = At(pc, HoldLabels)
      /\ Holding' = At(pc', HoldLabels)
  BY <1>1 DEF InCall, Holding, At, CallLabels, HoldLabels
<1>3. /\ Cardinality(At(pc', CallLabels)) \in Nat
      /\ Cardinality(At(pc', CallLabels))
           = Cardinality(At(pc, CallLabels)) + Delta(CallLabels, pc[w], l)
  BY <1>1, MoveCount
<1>4. /\ Cardinality(At(pc', HoldLabels)) \in Nat
      /\ Cardinality(At(pc', HoldLabels))
           = Cardinality(At(pc, HoldLabels)) + Delta(HoldLabels, pc[w], l)
  BY <1>1, MoveCount
<1> QED
  BY <1>1, <1>2, <1>3, <1>4 DEF Accounting, InFlightExact, ReservedExact

-----------------------------------------------------------------------------
(* The inductive step *)

\* A step that moves no worker and leaves both counters alone keeps them exact.
LEMMA NoMove ==
    ASSUME Accounting, UNCHANGED <<pc, inFlight, reserved>>
    PROVE  InFlightExact' /\ ReservedExact'
BY DEF Accounting, InFlightExact, ReservedExact, InCall, Holding

\* The steps of a worker that leave the safety state alone.
LEMMA QuietStep ==
    ASSUME Accounting, NEW w \in Workers, UNCHANGED safetyVars,
           \/ StartRecord(w) \/ SelectionError(w) \/ PassThrough(w) \/ Plan(w)
           \/ AppendPlan(w) \/ TargetEnds(w) \/ FaultActs(w) \/ Invoke(w)
           \/ TriggerEnds(w) \/ ScoreFails(w) \/ RecordEvent(w) \/ FinishRecord(w)
    PROVE  Accounting'
<1> DEFINE WorkerTypeOK == /\ seq \in [Workers -> Nat]
                          /\ failed \in [Workers -> BOOLEAN]
                          /\ injected \in [Workers -> BOOLEAN]
                          /\ fault \in [Workers -> BOOLEAN]
                          /\ events \in Seq(Nat)
                          /\ planned \in Seq(Nat)
                          /\ dryRun \in BOOLEAN
<1>1. /\ TypeOK /\ SafetyTypeOK /\ SafetyTypeOK' /\ CallLogTypeOK
      /\ inFlight \in Nat /\ inFlight' = inFlight
      /\ reserved \in Nat /\ reserved' = reserved
  BY DEF Accounting, TypeOK, SafetyTypeOK, safetyVars
<1>2. ASSUME NEW l \in PC, pc' = [pc EXCEPT ![w] = l],
             pc[w] \in CallLabels, l \in CallLabels, pc[w] \in HoldLabels <=> l \in HoldLabels,
             CallLogTypeOK', WorkerTypeOK'
      PROVE  Accounting'
  <2>1. Delta(CallLabels, pc[w], l) = 0 /\ Delta(HoldLabels, pc[w], l) = 0
    BY <1>2 DEF Delta
  <2>2. inFlight' = inFlight + Delta(CallLabels, pc[w], l)
        /\ reserved' = reserved + Delta(HoldLabels, pc[w], l)
    BY <1>1, <2>1
  <2>3. pc' \in [Workers -> PC] /\ InFlightExact' /\ ReservedExact'
    BY <1>2, <2>2, WorkerMove
  <2> QED
    BY <1>1, <1>2, <2>3 DEF Accounting, TypeOK
<1>3. CASE StartRecord(w)
  <2>1. WorkerTypeOK' /\ CallLogTypeOK'
    BY <1>1, <1>3 DEF TypeOK, StartRecord, Goto, LogBegin, CallLogTypeOK, sessionVars
  <2>2. pc' = [pc EXCEPT ![w] = "selecting"]
    BY <1>3 DEF StartRecord, Goto
  <2> QED
    BY <1>3, <1>2, <2>1, <2>2 DEF StartRecord, PC, CallLabels, HoldLabels
<1>4. CASE SelectionError(w)
  <2>1. WorkerTypeOK' /\ CallLogTypeOK'
    BY <1>1, <1>4 DEF TypeOK, SelectionError, Fail, Goto, logVars, CallLogTypeOK, workerVars, sessionVars
  <2>2. pc' = [pc EXCEPT ![w] = "logging"]
    BY <1>4 DEF SelectionError, Fail, Goto
  <2> QED
    BY <1>4, <1>2, <2>1, <2>2 DEF SelectionError, PC, CallLabels, HoldLabels
<1>5. CASE PassThrough(w)
  <2>1. WorkerTypeOK' /\ CallLogTypeOK'
    BY <1>1, <1>5 DEF TypeOK, PassThrough, Goto, logVars, CallLogTypeOK, workerVars, sessionVars
  <2>2. pc' = [pc EXCEPT ![w] = "calling"]
    BY <1>5 DEF PassThrough, Goto
  <2> QED
    BY <1>5, <1>2, <2>1, <2>2 DEF PassThrough, PC, CallLabels, HoldLabels
<1>6. CASE Plan(w)
  <2>1. WorkerTypeOK' /\ CallLogTypeOK'
    BY <1>1, <1>6 DEF TypeOK, Plan, Goto, logVars, CallLogTypeOK, workerVars, sessionVars
  <2>2. pc' = [pc EXCEPT ![w] = "planning"]
    BY <1>6 DEF Plan, Goto
  <2> QED
    BY <1>6, <1>2, <2>1, <2>2 DEF Plan, PC, CallLabels, HoldLabels
<1>7. CASE AppendPlan(w)
  <2>1. WorkerTypeOK' /\ CallLogTypeOK'
    BY <1>1, <1>7 DEF TypeOK, AppendPlan, Goto, logVars, CallLogTypeOK, workerVars, sessionVars
  <2>2. pc' = [pc EXCEPT ![w] = "calling"]
    BY <1>7 DEF AppendPlan, Goto
  <2> QED
    BY <1>7, <1>2, <2>1, <2>2 DEF AppendPlan, PC, CallLabels, HoldLabels
<1>8. CASE TargetEnds(w)
  <2>1. WorkerTypeOK' /\ CallLogTypeOK'
    BY <1>1, <1>8 DEF TypeOK, TargetEnds, Goto, logVars, CallLogTypeOK, workerVars, sessionVars
  <2>2. pc' = [pc EXCEPT ![w] = "logging"]
    BY <1>8 DEF TargetEnds, Goto
  <2> QED
    BY <1>8, <1>2, <2>1, <2>2 DEF TargetEnds, PC, CallLabels, HoldLabels
<1>9. CASE FaultActs(w)
  <2>1. WorkerTypeOK' /\ CallLogTypeOK'
    BY <1>1, <1>9 DEF TypeOK, FaultActs, Goto, logVars, CallLogTypeOK, workerVars, sessionVars
  <2>2. pc' = [pc EXCEPT ![w] = "settling"]
    BY <1>9 DEF FaultActs, Goto
  <2> QED
    BY <1>9, <1>2, <2>1, <2>2 DEF FaultActs, PC, CallLabels, HoldLabels
<1>10. CASE Invoke(w)
  <2>1. WorkerTypeOK' /\ CallLogTypeOK'
    BY <1>1, <1>10 DEF TypeOK, Invoke, Goto, logVars, CallLogTypeOK, workerVars, sessionVars
  <2>2. pc' = [pc EXCEPT ![w] = "invoking"]
    BY <1>10 DEF Invoke, Goto
  <2> QED
    BY <1>10, <1>2, <2>1, <2>2 DEF Invoke, PC, CallLabels, HoldLabels
<1>11. CASE TriggerEnds(w)
  <2>1. WorkerTypeOK' /\ CallLogTypeOK'
    BY <1>1, <1>11 DEF TypeOK, TriggerEnds, Goto, logVars, CallLogTypeOK, workerVars, sessionVars
  <2>2. pc' = [pc EXCEPT ![w] = "settling"]
    BY <1>11 DEF TriggerEnds, Goto
  <2> QED
    BY <1>11, <1>2, <2>1, <2>2 DEF TriggerEnds, PC, CallLabels, HoldLabels
<1>12. CASE ScoreFails(w)
  <2>1. WorkerTypeOK' /\ CallLogTypeOK'
    BY <1>1, <1>12 DEF TypeOK, ScoreFails, Fail, Goto, logVars, CallLogTypeOK, workerVars, sessionVars
  <2>2. pc' = [pc EXCEPT ![w] = "logging"]
    BY <1>12 DEF ScoreFails, Fail, Goto
  <2> QED
    BY <1>12, <1>2, <2>1, <2>2 DEF ScoreFails, PC, CallLabels, HoldLabels
<1>13. CASE RecordEvent(w)
  <2>1. WorkerTypeOK' /\ CallLogTypeOK'
    BY <1>1, <1>13 DEF TypeOK, RecordEvent, Goto, logVars, CallLogTypeOK, workerVars, sessionVars
  <2>2. pc' = [pc EXCEPT ![w] = "logging"]
    BY <1>13 DEF RecordEvent, Goto
  <2> QED
    BY <1>13, <1>2, <2>1, <2>2 DEF RecordEvent, PC, CallLabels, HoldLabels
<1>14. CASE FinishRecord(w)
  <2>1. [seq |-> seq[w], error |-> failed[w], fault |-> fault[w]] \in Record
    BY <1>1 DEF TypeOK, Record
  <2>2. CallLogTypeOK'
    BY <1>1, <1>14, <2>1, LogFinishType DEF FinishRecord
  <2>3. WorkerTypeOK'
    BY <1>1, <1>14 DEF TypeOK, FinishRecord, sessionVars
  <2>4. pc' = [pc EXCEPT ![w] = "finishing"]
    BY <1>14 DEF FinishRecord, Goto
  <2> QED
    BY <1>14, <1>2, <2>2, <2>3, <2>4 DEF FinishRecord, PC, CallLabels, HoldLabels
<1> QED
  BY <1>3, <1>4, <1>5, <1>6, <1>7, <1>8, <1>9, <1>10, <1>11, <1>12, <1>13, <1>14

\* A worker whose check or reservation raises leaves the call by its exception.
LEMMA RejectedStep ==
    ASSUME Accounting, NEW w \in Workers,
           PlanRejected(w) \/ ReserveRejected(w) \/ InvokeRejected(w)
    PROVE  Accounting'
<1>1. TypeOK /\ SafetyTypeOK
  BY DEF Accounting, TypeOK
<1>2. SafetyTypeOK' /\ UNCHANGED <<closed, expired, accounting>>
  BY <1>1, CheckRaisesType, ReserveRaisesType DEF PlanRejected, ReserveRejected, InvokeRejected
<1>3. PICK l \in {"logging", "settling"} :
        /\ pc' = [pc EXCEPT ![w] = l]
        /\ pc[w] \in CallLabels
        /\ pc[w] \in HoldLabels <=> l \in HoldLabels
  <2>1. CASE PlanRejected(w) \/ ReserveRejected(w)
    BY <2>1 DEF PlanRejected, ReserveRejected, Fail, Goto, CallLabels, HoldLabels, PC
  <2>2. CASE InvokeRejected(w)
    BY <2>2 DEF InvokeRejected, Goto, CallLabels, HoldLabels, PC
  <2> QED
    BY <2>1, <2>2
<1>4. l \in PC /\ l \in CallLabels
  BY <1>3 DEF CallLabels, PC
<1>5. Delta(CallLabels, pc[w], l) = 0 /\ Delta(HoldLabels, pc[w], l) = 0
  BY <1>3, <1>4 DEF Delta
<1>6. inFlight' = inFlight + Delta(CallLabels, pc[w], l)
      /\ reserved' = reserved + Delta(HoldLabels, pc[w], l)
  BY <1>1, <1>2, <1>5 DEF SafetyTypeOK, accounting
<1>7. pc' \in [Workers -> PC] /\ InFlightExact' /\ ReservedExact'
  BY <1>3, <1>4, <1>6, WorkerMove
<1>8. /\ failed' = [failed EXCEPT ![w] = TRUE]
      /\ UNCHANGED <<logVars, seq, injected, fault, sessionVars>>
  BY DEF PlanRejected, ReserveRejected, InvokeRejected, Fail
<1> QED
  BY <1>1, <1>2, <1>7, <1>8
  DEF Accounting, TypeOK, CallLogTypeOK, logVars, sessionVars

\* The steps that move a counter: begin, reserve, settle and finish.
LEMMA CountedStep ==
    ASSUME Accounting, NEW w \in Workers,
           Begin(w) \/ Reserve(w) \/ Settle(w) \/ FinishCall(w)
    PROVE  Accounting'
<1>1. TypeOK /\ SafetyTypeOK /\ CallLogTypeOK /\ inFlight \in Nat /\ reserved \in Nat
  BY DEF Accounting, TypeOK, SafetyTypeOK
<1>2. CASE Begin(w)
  <2>1. pc' = [pc EXCEPT ![w] = "admitted"] /\ pc[w] = "idle"
        /\ inFlight' = inFlight + 1 /\ reserved' = reserved
    BY <1>2 DEF Begin, BeginOk, Goto
  <2>2. Delta(CallLabels, pc[w], "admitted") = 1 /\ Delta(HoldLabels, pc[w], "admitted") = 0
    BY <2>1 DEF Delta, CallLabels, HoldLabels, PC
  <2>3. inFlight' = inFlight + Delta(CallLabels, pc[w], "admitted")
        /\ reserved' = reserved + Delta(HoldLabels, pc[w], "admitted")
    BY <1>1, <2>1, <2>2
  <2>4. pc' \in [Workers -> PC] /\ inFlight' \in Nat /\ InFlightExact' /\ ReservedExact'
    BY <2>1, <2>3, WorkerMove DEF PC
  <2>5. SafetyTypeOK'
    BY <1>1, <1>2, <2>4 DEF Begin, BeginOk, SafetyTypeOK
  <2> QED
    BY <1>1, <1>2, <2>4, <2>5
    DEF Accounting, TypeOK, CallLogTypeOK, Begin, logVars, sessionVars
<1>3. CASE Reserve(w)
  <2>1. pc' = [pc EXCEPT ![w] = "reserved"] /\ pc[w] = "selecting"
        /\ inFlight' = inFlight /\ reserved' = reserved + 1
    BY <1>3 DEF Reserve, ReserveOk, Goto
  <2>2. Delta(CallLabels, pc[w], "reserved") = 0 /\ Delta(HoldLabels, pc[w], "reserved") = 1
    BY <2>1 DEF Delta, CallLabels, HoldLabels, PC
  <2>3. inFlight' = inFlight + Delta(CallLabels, pc[w], "reserved")
        /\ reserved' = reserved + Delta(HoldLabels, pc[w], "reserved")
    BY <1>1, <2>1, <2>2
  <2>4. pc' \in [Workers -> PC] /\ reserved' \in Nat /\ InFlightExact' /\ ReservedExact'
    BY <2>1, <2>3, WorkerMove DEF PC
  <2>5. SafetyTypeOK'
    BY <1>1, <1>3, <2>4 DEF Reserve, ReserveOk, SafetyTypeOK
  <2> QED
    BY <1>1, <1>3, <2>4, <2>5
    DEF Accounting, TypeOK, CallLogTypeOK, Reserve, logVars, sessionVars
<1>4. CASE Settle(w)
  <2> DEFINE l == IF injected[w] THEN "recording" ELSE "logging"
  <2>1. pc' = [pc EXCEPT ![w] = l] /\ pc[w] = "settling"
        /\ inFlight' = inFlight /\ reserved' = reserved - 1
    BY <1>4 DEF Settle, Complete, Goto
  <2>2. l \in PC /\ Delta(CallLabels, pc[w], l) = 0 /\ Delta(HoldLabels, pc[w], l) = -1
    BY <2>1 DEF Delta, CallLabels, HoldLabels, PC
  <2>3. inFlight' = inFlight + Delta(CallLabels, pc[w], l)
        /\ reserved' = reserved + Delta(HoldLabels, pc[w], l)
    BY <1>1, <2>1, <2>2
  <2> HIDE DEF l
  <2>4. pc' \in [Workers -> PC] /\ reserved' \in Nat /\ InFlightExact' /\ ReservedExact'
    BY <2>1, <2>2, <2>3, WorkerMove
  <2>5. SafetyTypeOK'
    BY <1>1, <1>4, <2>4 DEF Settle, Complete, SafetyTypeOK
  <2> QED
    BY <1>1, <1>4, <2>4, <2>5
    DEF Accounting, TypeOK, CallLogTypeOK, Settle, logVars, sessionVars
<1>5. CASE FinishCall(w)
  <2>1. pc' = [pc EXCEPT ![w] = "idle"] /\ pc[w] = "finishing"
        /\ inFlight' = inFlight - 1 /\ reserved' = reserved
    BY <1>5 DEF FinishCall, Finish, Goto
  <2>2. Delta(CallLabels, pc[w], "idle") = -1 /\ Delta(HoldLabels, pc[w], "idle") = 0
    BY <2>1 DEF Delta, CallLabels, HoldLabels, PC
  <2>3. inFlight' = inFlight + Delta(CallLabels, pc[w], "idle")
        /\ reserved' = reserved + Delta(HoldLabels, pc[w], "idle")
    BY <1>1, <2>1, <2>2
  <2>4. pc' \in [Workers -> PC] /\ inFlight' \in Nat /\ InFlightExact' /\ ReservedExact'
    BY <2>1, <2>3, WorkerMove DEF PC
  <2>5. failed[w] \in BOOLEAN
    BY <1>1 DEF TypeOK
  <2>6. SafetyTypeOK'
    BY <1>1, <1>5, <2>4, <2>5, FinishType DEF FinishCall
  <2> QED
    BY <1>1, <1>5, <2>4, <2>6
    DEF Accounting, TypeOK, CallLogTypeOK, FinishCall, logVars, sessionVars
<1> QED
  BY <1>2, <1>3, <1>4, <1>5

\* The steps that are no worker's: costs, the clock, the session's end, the report.
LEMMA OtherStep ==
    ASSUME Accounting, UNCHANGED workerVars,
           \/ \E w \in Workers : BeginRejected(w)
           \/ \E amount \in Costs : RecordCost(amount)
           \/ CheckElsewhere \/ TimePasses \/ ExitSession \/ Report
    PROVE  Accounting'
<1>1. TypeOK /\ SafetyTypeOK
  BY DEF Accounting, TypeOK
<1>2. SafetyTypeOK' /\ UNCHANGED <<inFlight, reserved>>
  <2>1. CASE CheckRaises
    BY <1>1, <2>1, CheckRaisesType DEF accounting
  <2>2. ASSUME NEW amount \in Costs, RecordCostOk(amount)
        PROVE  SafetyTypeOK' /\ UNCHANGED <<inFlight, reserved>>
    <3>1. amount \in Nat
      BY ChaosCallsAssumption
    <3> QED
      BY <1>1, <2>2, <3>1, RecordCostType DEF RecordCostOk
  <2>3. CASE Expire
    BY <1>1, <2>3 DEF Expire, SafetyTypeOK, accounting
  <2>4. CASE CloseSafety
    BY <1>1, <2>4 DEF CloseSafety, SafetyTypeOK, accounting
  <2>5. CASE UNCHANGED safetyVars
    BY <1>1, <2>5 DEF SafetyTypeOK, safetyVars
  <2> QED
    BY <2>1, <2>2, <2>3, <2>4, <2>5
    DEF BeginRejected, BeginRaises, RecordCost, CheckElsewhere, TimePasses, ExitSession,
        Report, ReportEvents, ReportSnapshot, ReportCalls, ReportDropped
<1>3. UNCHANGED <<logVars, sessionVars>>
  BY DEF BeginRejected, RecordCost, CheckElsewhere, TimePasses, ExitSession,
         Report, ReportEvents, ReportSnapshot, ReportCalls, ReportDropped
<1>4. InFlightExact' /\ ReservedExact'
  BY <1>2, NoMove DEF workerVars
<1> QED
  BY <1>1, <1>2, <1>3, <1>4
  DEF Accounting, TypeOK, CallLogTypeOK, logVars, workerVars, sessionVars

-----------------------------------------------------------------------------
(* Type correctness and the exact counters *)

\* A new session counts nothing and no worker is in a call.
LEMMA AccountingInit == Init => Accounting
<1> SUFFICES ASSUME Init PROVE Accounting
  OBVIOUS
<1>1. InCall = {} /\ Holding = {}
  BY DEF Init, InCall, Holding
<1>2. InFlightExact /\ ReservedExact
  BY <1>1, FS_EmptySet DEF Init, SafetyInit, InFlightExact, ReservedExact
<1>3. SafetyTypeOK
  <2>1. failures \in Seq(BOOLEAN) /\ Len(failures) <= WindowSize
    BY BreakerAssumption DEF Init, SafetyInit
  <2>2. abort \in Aborts
    BY DEF Init, SafetyInit, NoAbort, Aborts, Fractions, Elapsed
  <2> QED
    BY <2>1, <2>2 DEF Init, SafetyInit, SafetyTypeOK
<1>4. CallLogTypeOK
  BY CallLogAssumption DEF Init, CallLogInit, CallLogTypeOK
<1> QED
  BY <1>2, <1>3, <1>4 DEF Init, Accounting, TypeOK, PC

\* Every step of the program keeps the counters exact.
LEMMA AccountingNext == Accounting /\ [Next]_vars => Accounting'
<1> SUFFICES ASSUME Accounting, [Next]_vars PROVE Accounting'
  OBVIOUS
<1>1. CASE UNCHANGED vars
  <2>1. TypeOK'
    BY <1>1 DEF Accounting, TypeOK, SafetyTypeOK, CallLogTypeOK, vars, safetyVars, logVars,
                workerVars, sessionVars
  <2>2. UNCHANGED <<pc, inFlight, reserved>>
    BY <1>1 DEF vars, safetyVars, workerVars
  <2> QED
    BY <2>1, <2>2, NoMove DEF Accounting
<1>2. ASSUME NEW w \in Workers, Begin(w) \/ BeginRejected(w) \/ WorkerStep(w)
      PROVE  Accounting'
  <2>1. CASE BeginRejected(w)
    BY <2>1, OtherStep DEF BeginRejected
  <2>2. CASE Begin(w) \/ Reserve(w) \/ Settle(w) \/ FinishCall(w)
    BY <2>2, CountedStep
  <2>3. CASE PlanRejected(w) \/ ReserveRejected(w) \/ InvokeRejected(w)
    BY <2>3, RejectedStep
  <2>4. CASE \/ StartRecord(w) \/ SelectionError(w) \/ PassThrough(w) \/ Plan(w)
             \/ AppendPlan(w) \/ TargetEnds(w) \/ FaultActs(w) \/ Invoke(w)
             \/ TriggerEnds(w) \/ ScoreFails(w) \/ RecordEvent(w) \/ FinishRecord(w)
    <3>1. UNCHANGED safetyVars
      BY <2>4 DEF StartRecord, SelectionError, PassThrough, Plan, AppendPlan, TargetEnds,
                  FaultActs, Invoke, TriggerEnds, ScoreFails, RecordEvent, FinishRecord
    <3> QED
      BY <2>4, <3>1, QuietStep
  <2> QED
    BY <1>2, <2>1, <2>2, <2>3, <2>4 DEF WorkerStep
<1>3. CASE \/ \E amount \in Costs : RecordCost(amount)
           \/ CheckElsewhere \/ TimePasses \/ ExitSession \/ Report
  <2>1. UNCHANGED workerVars
    BY <1>3 DEF RecordCost, CheckElsewhere, TimePasses, ExitSession, Report, ReportEvents,
                ReportSnapshot, ReportCalls, ReportDropped
  <2> QED
    BY <1>3, <2>1, OtherStep
<1> QED
  BY <1>1, <1>2, <1>3 DEF Next

\* Accounting is an invariant of the program.
THEOREM AccountingHolds == Spec => []Accounting
BY AccountingInit, AccountingNext, PTL DEF Spec

\* Type correctness; in particular no counter of the safety state goes below zero,
\* although finish and complete_injection decrement without a test.
THEOREM TypeCorrect == Spec => []TypeOK
<1>1. Accounting => TypeOK
  BY DEF Accounting
<1> QED
  BY <1>1, AccountingHolds, PTL

\* in_flight counts exactly the calls between begin and finish, and
\* _reserved_injections exactly the calls inside a fault.
THEOREM CountsAreExact == Spec => []CountsExact
<1>1. Accounting => CountsExact
  BY DEF Accounting, CountsExact
<1> QED
  BY <1>1, AccountingHolds, PTL

-----------------------------------------------------------------------------
(* The injection budget *)

\* What a step of the program does to the safety state: one of its operations.
SafetyStep ==
    \/ UNCHANGED safetyVars
    \/ CheckRaises \/ ReserveRaises
    \/ BeginOk \/ ReserveOk
    \/ reserved > 0 /\ \E event \in BOOLEAN : Complete(event)
    \/ \E outcome \in BOOLEAN : Finish(outcome)
    \/ \E amount \in Costs : RecordCostOk(amount)
    \/ Expire \/ CloseSafety

\* Every step is such an operation, and gives back only what is reserved.
LEMMA NextIsSafetyStep ==
    ASSUME Accounting, Accounting', [Next]_vars
    PROVE  SafetyStep
<1>1. CASE UNCHANGED vars
  BY <1>1 DEF SafetyStep, vars
<1>2. ASSUME NEW w \in Workers, Settle(w)
      PROVE  SafetyStep
  <2>1. Complete(injected[w]) /\ injected[w] \in BOOLEAN
    BY <1>2 DEF Settle, Accounting, TypeOK
  <2>2. reserved > 0
    BY <2>1 DEF Complete, Accounting, TypeOK, SafetyTypeOK
  <2> QED
    BY <2>1, <2>2 DEF SafetyStep
<1>3. ASSUME NEW w \in Workers, FinishCall(w)
      PROVE  SafetyStep
  BY <1>3 DEF FinishCall, Accounting, TypeOK, SafetyStep
<1>4. ASSUME NEW w \in Workers,
             \/ Begin(w) \/ BeginRejected(w) \/ Reserve(w)
             \/ PlanRejected(w) \/ ReserveRejected(w) \/ InvokeRejected(w)
      PROVE  SafetyStep
  BY <1>4 DEF Begin, BeginRejected, BeginRaises, Reserve, PlanRejected, ReserveRejected,
              InvokeRejected, SafetyStep
<1>5. ASSUME NEW w \in Workers,
             \/ StartRecord(w) \/ SelectionError(w) \/ PassThrough(w) \/ Plan(w)
             \/ AppendPlan(w) \/ TargetEnds(w) \/ FaultActs(w) \/ Invoke(w)
             \/ TriggerEnds(w) \/ ScoreFails(w) \/ RecordEvent(w) \/ FinishRecord(w)
      PROVE  SafetyStep
  BY <1>5 DEF StartRecord, SelectionError, PassThrough, Plan, AppendPlan, TargetEnds,
              FaultActs, Invoke, TriggerEnds, ScoreFails, RecordEvent, FinishRecord, SafetyStep
<1>6. CASE \/ \E amount \in Costs : RecordCost(amount)
           \/ CheckElsewhere \/ TimePasses \/ ExitSession \/ Report
  BY <1>6 DEF RecordCost, CheckElsewhere, TimePasses, ExitSession, Report, ReportEvents,
              ReportSnapshot, ReportCalls, ReportDropped, SafetyStep
<1> QED
  BY <1>1, <1>2, <1>3, <1>4, <1>5, <1>6 DEF Next, WorkerStep

\* A step on the safety state keeps the cap and is a step of the abstract budget.
LEMMA BudgetStep ==
    ASSUME Accounting, Accounting', InjectionCap, SafetyStep
    PROVE  InjectionCap' /\ [Budget!Next]_(Budget!budgetVars)
<1>1. /\ injections \in Nat /\ injections' \in Nat
      /\ reserved \in Nat /\ reserved' \in Nat
      /\ closed \in BOOLEAN /\ closed' \in BOOLEAN
      /\ MaxInjections \in Nat \cup {NoLimit}
  BY BreakerAssumption DEF Accounting, TypeOK, SafetyTypeOK
<1> DEFINE Stopped == closed \/ Aborted
<1>2. CASE UNCHANGED safetyVars
  BY <1>2 DEF safetyVars, InjectionCap, Budget!budgetVars, Aborted
<1>3. CASE \/ CheckRaises \/ ReserveRaises \/ Expire \/ CloseSafety
           \/ \E outcome \in BOOLEAN : Finish(outcome)
           \/ \E amount \in Costs : RecordCostOk(amount)
  <2>1. injections' = injections /\ reserved' = reserved
    BY <1>3 DEF CheckRaises, ReserveRaises, Expire, CloseSafety, Finish, RecordCostOk, accounting
  <2>2. Stopped => Stopped'
    BY <1>3 DEF CheckRaises, ReserveRaises, Expire, CloseSafety, Finish, RecordCostOk,
                AbortWith, Aborted, CheckOk
  <2>3. InjectionCap'
    BY <2>1 DEF InjectionCap
  <2>4. CASE Stopped' = Stopped
    BY <2>1, <2>3, <2>4 DEF Budget!budgetVars
  <2>5. CASE Stopped' = TRUE
    BY <2>1, <2>3, <2>5 DEF Budget!Next, Budget!Stop
  <2> QED
    BY <2>2, <2>3, <2>4, <2>5
<1>4. CASE BeginOk
  BY <1>4 DEF BeginOk, InjectionCap, Budget!budgetVars, Aborted
<1>5. CASE ReserveOk
  <2>1. /\ ~Stopped /\ Stopped' = Stopped
        /\ injections' = injections /\ reserved' = reserved + 1
        /\ MaxInjections = NoLimit \/ injections + reserved < MaxInjections
    BY <1>1, <1>5 DEF ReserveOk, CheckOk, BudgetSpent, Aborted
  <2>2. InjectionCap'
    BY <1>1, <2>1 DEF InjectionCap
  <2>3. Budget!Admit
    BY <1>1, <2>1 DEF Budget!Admit
  <2> QED
    BY <2>2, <2>3 DEF Budget!Next
<1>6. ASSUME NEW event \in BOOLEAN, reserved > 0, Complete(event)
      PROVE  InjectionCap' /\ [Budget!Next]_(Budget!budgetVars)
  <2>1. /\ Stopped' = Stopped /\ reserved' = reserved - 1
        /\ injections' = IF event THEN injections + 1 ELSE injections
    BY <1>6 DEF Complete, Aborted
  <2>2. InjectionCap'
    BY <1>1, <2>1 DEF InjectionCap
  <2>3. CASE event
    BY <1>1, <1>6, <2>1, <2>2, <2>3 DEF Budget!Next, Budget!Spend
  <2>4. CASE ~event
    BY <1>1, <1>6, <2>1, <2>2, <2>4 DEF Budget!Next, Budget!GiveBack
  <2> QED
    BY <2>2, <2>3, <2>4
<1> QED
  BY <1>2, <1>3, <1>4, <1>5, <1>6 DEF SafetyStep

\* max_injections bounds what is committed and what calls under way may still
\* commit, however many workers reserve at once.
THEOREM CapHolds == Spec => []InjectionCap
<1>1. Init => InjectionCap
  BY BreakerAssumption DEF Init, SafetyInit, InjectionCap
<1>2. Accounting /\ Accounting' /\ InjectionCap /\ [Next]_vars => InjectionCap'
  BY NextIsSafetyStep, BudgetStep
<1> QED
  BY <1>1, <1>2, AccountingHolds, PTL DEF Spec

\* The reservations and commits of the calls implement the abstract budget.
THEOREM BudgetRefined == Spec => ImplementsBudget
<1>1. Init => Budget!Init
  BY DEF Init, SafetyInit, Budget!Init, Aborted
<1>2. Accounting /\ Accounting' /\ InjectionCap /\ [Next]_vars
        => [Budget!Next]_(Budget!budgetVars)
  BY NextIsSafetyStep, BudgetStep
<1> QED
  BY <1>1, <1>2, AccountingHolds, CapHolds, PTL DEF Spec, ImplementsBudget, Budget!Spec

-----------------------------------------------------------------------------
(* A stop is final *)

Stopped == closed \/ Aborted
PlansMade == Len(planned) + Cardinality(Planning)

\* On a stopped session every operation keeps the abort and the cost, and admits
\* nothing.
LEMMA StoppedSafetyStep ==
    ASSUME Accounting, Accounting', SafetyStep, Stopped
    PROVE  /\ abort' = abort
           /\ inFlight' <= inFlight
           /\ injections' + reserved' <= injections + reserved
           /\ cost' = cost
<1>1. ~CheckOk
  BY DEF Stopped, CheckOk
<1>2. /\ inFlight \in Nat /\ injections \in Nat /\ reserved \in Nat
  BY DEF Accounting, TypeOK, SafetyTypeOK
<1>3. CASE UNCHANGED safetyVars \/ Expire \/ CloseSafety
  BY <1>2, <1>3 DEF safetyVars, Expire, CloseSafety, accounting
<1>4. CASE CheckRaises \/ ReserveRaises
  BY <1>1, <1>2, <1>4 DEF CheckRaises, ReserveRaises, Stopped, accounting
<1>5. ASSUME NEW event \in BOOLEAN, Complete(event)
      PROVE  /\ abort' = abort
             /\ inFlight' <= inFlight
             /\ injections' + reserved' <= injections + reserved
             /\ cost' = cost
  BY <1>2, <1>5 DEF Complete
<1>6. ASSUME NEW outcome \in BOOLEAN, Finish(outcome)
      PROVE  /\ abort' = abort
             /\ inFlight' <= inFlight
             /\ injections' + reserved' <= injections + reserved
             /\ cost' = cost
  BY <1>2, <1>6 DEF Finish, Stopped
<1> QED
  BY <1>1, <1>3, <1>4, <1>5, <1>6 DEF SafetyStep, BeginOk, ReserveOk, RecordCostOk

\* On a stopped session no preview passes its check, so the plans made and about to
\* be appended only decrease.
LEMMA StoppedPlanStep ==
    ASSUME Accounting, [Next]_vars, Stopped
    PROVE  PlansMade' <= PlansMade
<1>1. ~CheckOk
  BY DEF Stopped, CheckOk
<1>2. pc \in [Workers -> PC] /\ planned \in Seq(Nat) /\ seq \in [Workers -> Nat]
  BY DEF Accounting, TypeOK
<1>3. Planning = At(pc, {"planning"}) /\ Planning' = At(pc', {"planning"})
  BY DEF Planning, At
<1>4. Cardinality(Planning) \in Nat /\ Len(planned) \in Nat
  <2>1. IsFiniteSet(Planning)
    BY FS_Subset, ChaosCallsAssumption DEF Planning
  <2> QED
    BY <1>2, <2>1, FS_CardinalityType, LenProperties
<1>5. CASE UNCHANGED <<pc, planned>>
  BY <1>4, <1>5 DEF PlansMade, Planning
<1>6. ASSUME NEW w \in Workers, NEW l \in PC \ {"planning"}, pc' = [pc EXCEPT ![w] = l],
             planned' = planned
      PROVE  PlansMade' <= PlansMade
  <2>1. Cardinality(Planning') = Cardinality(Planning) + Delta({"planning"}, pc[w], l)
    BY <1>2, <1>3, <1>6, MoveCount
  <2>2. Delta({"planning"}, pc[w], l) \in {0, -1}
    BY <1>6 DEF Delta
  <2> QED
    BY <1>4, <1>6, <2>1, <2>2 DEF PlansMade
<1>7. ASSUME NEW w \in Workers, AppendPlan(w)
      PROVE  PlansMade' <= PlansMade
  <2>1. pc' = [pc EXCEPT ![w] = "calling"] /\ pc[w] = "planning"
        /\ planned' = Append(planned, seq[w])
    BY <1>7 DEF AppendPlan, Goto
  <2>2. Cardinality(Planning') = Cardinality(Planning) + Delta({"planning"}, pc[w], "calling")
    BY <1>2, <1>3, <2>1, MoveCount DEF PC
  <2>3. Delta({"planning"}, pc[w], "calling") = -1
    BY <2>1 DEF Delta
  <2>4. Len(planned') = Len(planned) + 1
    BY <1>2, <2>1, AppendProperties
  <2> QED
    BY <1>4, <2>2, <2>3, <2>4 DEF PlansMade
<1>8. ASSUME NEW w \in Workers, WorkerStep(w), ~AppendPlan(w)
      PROVE  \E l \in PC \ {"planning"} : pc' = [pc EXCEPT ![w] = l] /\ planned' = planned
  <2>1. ~Plan(w)
    BY <1>1 DEF Plan
  <2> QED
    BY <1>8, <2>1 DEF WorkerStep, StartRecord, SelectionError, PassThrough, PlanRejected,
      TargetEnds, Reserve, ReserveRejected, FaultActs, Invoke, InvokeRejected, TriggerEnds,
      Settle, ScoreFails, RecordEvent, FinishRecord, FinishCall, Fail, Goto, PC, sessionVars
<1>9. ASSUME NEW w \in Workers, Begin(w)
      PROVE  PlansMade' <= PlansMade
  BY <1>1, <1>9 DEF Begin, BeginOk
<1>10. CASE \/ UNCHANGED vars \/ \E w \in Workers : BeginRejected(w)
            \/ \E amount \in Costs : RecordCost(amount)
            \/ CheckElsewhere \/ TimePasses \/ ExitSession \/ Report
  <2>1. UNCHANGED <<pc, planned>>
    BY <1>10 DEF BeginRejected, RecordCost, CheckElsewhere, TimePasses, ExitSession, Report,
                 ReportEvents, ReportSnapshot, ReportCalls, ReportDropped, vars, workerVars,
                 sessionVars
  <2> QED
    BY <1>5, <2>1
<1> QED
  BY <1>6, <1>7, <1>8, <1>9, <1>10 DEF Next

\* Once the session has aborted or ended, nothing is admitted, injected, planned or
\* charged any more, and the abort keeps the threshold that fired first.
THEOREM StopHolds == Spec => StopIsFinal
<1> DEFINE Final == Stopped =>
              /\ abort' = abort
              /\ inFlight' <= inFlight
              /\ injections' + reserved' <= injections + reserved
              /\ Len(planned') + Cardinality(Planning') <= Len(planned) + Cardinality(Planning)
              /\ cost' = cost
<1>1. Accounting /\ Accounting' /\ [Next]_vars => [Final]_vars
  BY NextIsSafetyStep, StoppedSafetyStep, StoppedPlanStep DEF PlansMade
<1>2. [][Final]_vars <=> StopIsFinal
  BY DEF StopIsFinal, Stopped
<1> HIDE DEF Final
<1> QED
  BY <1>1, <1>2, AccountingHolds, PTL DEF Spec

-----------------------------------------------------------------------------
(* An abort is sound: what the failure rate was computed from, why the     *)
(* session aborted, and how many calls it still owes.  The parts of        *)
(* AbortSound lean on one another (the rate rests on the window, the       *)
(* window on the completed calls), and with Accounting and the cap they    *)
(* are inductive.                                                          *)

\* Calls of which finish has run.
Completed == FinishedCount - Cardinality(Finishing)

\* What a step that does not complete a call does to the safety state.
RunningStep ==
    \/ UNCHANGED safetyVars
    \/ CheckRaises \/ ReserveRaises
    \/ BeginOk \/ ReserveOk
    \/ \E event \in BOOLEAN : Complete(event)
    \/ \E amount \in Costs : RecordCostOk(amount)
    \/ Expire \/ CloseSafety

\* Completed is a whole number, and a worker's move changes the number of those
\* about to finish by its Delta.
LEMMA FinishingMove ==
    ASSUME Accounting, NEW w \in Workers, NEW l \in PC, pc' = [pc EXCEPT ![w] = l]
    PROVE  /\ Cardinality(Finishing) \in Nat
           /\ Cardinality(Finishing') = Cardinality(Finishing) + Delta({"finishing"}, pc[w], l)
<1>1. pc \in [Workers -> PC]
  BY DEF Accounting, TypeOK
<1>2. Finishing = At(pc, {"finishing"}) /\ Finishing' = At(pc', {"finishing"})
  BY DEF Finishing, At
<1> QED
  BY <1>1, <1>2, MoveCount

\* Both counts of a state are natural numbers.
LEMMA CompletedType ==
    ASSUME Accounting
    PROVE  FinishedCount \in Nat /\ Cardinality(Finishing) \in Nat /\ Completed \in Int
<1>1. IsFiniteSet(Finishing)
  BY FS_Subset, ChaosCallsAssumption DEF Finishing
<1>2. Cardinality(Finishing) \in Nat
  BY <1>1, FS_CardinalityType
<1>3. FinishedCount \in Nat
  BY LenProperties DEF Accounting, TypeOK, CallLogTypeOK, FinishedCount
<1> QED
  BY <1>2, <1>3 DEF Completed

\* Only finish completes a call; the record is counted one step earlier, while its
\* worker is about to finish, so the log alone does not.
LEMMA CompletedStep ==
    ASSUME Accounting, Accounting', [Next]_vars
    PROVE  \/ Completed' = Completed + 1 /\ \E outcome \in BOOLEAN : Finish(outcome)
           \/ Completed' = Completed /\ RunningStep
<1>1. FinishedCount \in Nat /\ Cardinality(Finishing) \in Nat
  BY CompletedType
<1>2. ASSUME UNCHANGED <<pc, records, dropped>>
      PROVE  Completed' = Completed
  BY <1>2 DEF Completed, FinishedCount, Finishing
<1>3. ASSUME NEW w \in Workers, NEW l \in PC \ {"finishing"}, pc' = [pc EXCEPT ![w] = l],
             pc[w] # "finishing", UNCHANGED <<records, dropped>>
      PROVE  Completed' = Completed
  <2>1. Cardinality(Finishing') = Cardinality(Finishing) + Delta({"finishing"}, pc[w], l)
    BY <1>3, FinishingMove
  <2>2. Delta({"finishing"}, pc[w], l) = 0
    BY <1>3 DEF Delta
  <2> QED
    BY <1>1, <1>3, <2>1, <2>2 DEF Completed, FinishedCount
<1>4. CASE UNCHANGED vars
  BY <1>2, <1>4 DEF vars, workerVars, logVars, RunningStep
<1>5. ASSUME NEW w \in Workers, FinishCall(w)
      PROVE  Completed' = Completed + 1 /\ \E outcome \in BOOLEAN : Finish(outcome)
  <2>1. pc' = [pc EXCEPT ![w] = "idle"] /\ pc[w] = "finishing" /\ UNCHANGED <<records, dropped>>
    BY <1>5 DEF FinishCall, Goto, logVars
  <2>2. Cardinality(Finishing') = Cardinality(Finishing) - 1
    <3>1. Delta({"finishing"}, pc[w], "idle") = -1
      BY <2>1 DEF Delta
    <3> QED
      BY <1>1, <2>1, <3>1, FinishingMove DEF PC
  <2>3. Completed' = Completed + 1
    BY <1>1, <2>1, <2>2 DEF Completed, FinishedCount
  <2> QED
    BY <1>5, <2>3 DEF FinishCall, Accounting, TypeOK
<1>6. ASSUME NEW w \in Workers, FinishRecord(w)
      PROVE  Completed' = Completed /\ RunningStep
  <2>1. pc' = [pc EXCEPT ![w] = "finishing"] /\ pc[w] = "logging" /\ UNCHANGED safetyVars
    BY <1>6 DEF FinishRecord, Goto
  <2>2. Cardinality(Finishing') = Cardinality(Finishing) + 1
    <3>1. Delta({"finishing"}, pc[w], "finishing") = 1
      BY <2>1 DEF Delta
    <3> QED
      BY <1>1, <2>1, <3>1, FinishingMove DEF PC
  <2>3. FinishedCount' = FinishedCount + 1
    <3>1. [seq |-> seq[w], error |-> failed[w], fault |-> fault[w]] \in Record
      BY DEF Accounting, TypeOK, Record
    <3>2. /\ records \in Seq(Record) /\ dropped \in Nat
          /\ LogFinish([seq |-> seq[w], error |-> failed[w], fault |-> fault[w]])
      BY <1>6 DEF FinishRecord, Accounting, TypeOK, CallLogTypeOK
    <3> QED
      BY <3>1, <3>2, AppendProperties, LenProperties DEF LogFinish, FinishedCount
  <2> QED
    BY <1>1, <2>1, <2>2, <2>3 DEF Completed, RunningStep
<1>7. ASSUME NEW w \in Workers, Begin(w) \/ WorkerStep(w), ~FinishCall(w), ~FinishRecord(w)
      PROVE  Completed' = Completed /\ RunningStep
  <2>1. /\ pc[w] # "finishing"
        /\ UNCHANGED <<records, dropped>>
        /\ \E l \in PC \ {"finishing"} : pc' = [pc EXCEPT ![w] = l]
    BY <1>7 DEF Begin, WorkerStep, StartRecord, SelectionError, PassThrough, Plan, PlanRejected,
      AppendPlan, TargetEnds, Reserve, ReserveRejected, FaultActs, Invoke, InvokeRejected,
      TriggerEnds, Settle, ScoreFails, RecordEvent, Fail, Goto, PC, logVars, LogBegin
  <2>2. RunningStep
    <3>1. CASE Settle(w)
      BY <3>1 DEF Settle, Accounting, TypeOK, RunningStep
    <3>2. CASE Begin(w) \/ Reserve(w) \/ PlanRejected(w) \/ ReserveRejected(w) \/ InvokeRejected(w)
      BY <3>2 DEF Begin, Reserve, PlanRejected, ReserveRejected, InvokeRejected, RunningStep
    <3>3. CASE \/ StartRecord(w) \/ SelectionError(w) \/ PassThrough(w) \/ Plan(w)
               \/ AppendPlan(w) \/ TargetEnds(w) \/ FaultActs(w) \/ Invoke(w)
               \/ TriggerEnds(w) \/ ScoreFails(w) \/ RecordEvent(w)
      BY <3>3 DEF StartRecord, SelectionError, PassThrough, Plan, AppendPlan, TargetEnds,
                  FaultActs, Invoke, TriggerEnds, ScoreFails, RecordEvent, RunningStep
    <3> QED
      BY <1>7, <3>1, <3>2, <3>3 DEF WorkerStep
  <2> QED
    BY <1>3, <2>1, <2>2
<1>8. CASE \/ \E w \in Workers : BeginRejected(w)
           \/ \E amount \in Costs : RecordCost(amount)
           \/ CheckElsewhere \/ TimePasses \/ ExitSession \/ Report
  <2>1. UNCHANGED <<pc, records, dropped>>
    BY <1>8 DEF BeginRejected, RecordCost, CheckElsewhere, TimePasses, ExitSession, Report,
      ReportEvents, ReportSnapshot, ReportCalls, ReportDropped, workerVars, logVars
  <2>2. RunningStep
    BY <1>8 DEF BeginRejected, BeginRaises, RecordCost, CheckElsewhere, TimePasses, ExitSession,
      Report, ReportEvents, ReportSnapshot, ReportCalls, ReportDropped, RunningStep
  <2> QED
    BY <1>2, <2>1, <2>2
<1> QED
  BY <1>4, <1>5, <1>6, <1>7, <1>8 DEF Next

-----------------------------------------------------------------------------
(* The parts of AbortSound *)

\* The window grows by one outcome with each completed call until it is full, and
\* no other step touches it.
LEMMA WindowStep ==
    ASSUME Accounting, Accounting', [Next]_vars, WindowComplete
    PROVE  WindowComplete'
<1>1. /\ Completed \in Int /\ WindowSize \in Nat \ {0}
      /\ failures \in Seq(BOOLEAN) /\ Len(failures) \in Nat
  BY CompletedType, BreakerAssumption, LenProperties DEF Accounting, TypeOK, SafetyTypeOK
<1>2. Len(failures) = IF Completed < WindowSize THEN Completed ELSE WindowSize
  BY DEF WindowComplete, Completed
<1>3. CASE Completed' = Completed /\ RunningStep
  <2>1. failures' = failures
    BY <1>3 DEF RunningStep, safetyVars, CheckRaises, ReserveRaises, BeginOk, ReserveOk, Complete,
                RecordCostOk, Expire, CloseSafety, accounting
  <2> QED
    BY <1>2, <1>3, <2>1 DEF WindowComplete, Completed
<1>4. ASSUME Completed' = Completed + 1, NEW outcome \in BOOLEAN, Finish(outcome)
      PROVE  WindowComplete'
  <2>1. failures' = Slide(failures, outcome)
    BY <1>4 DEF Finish
  <2>2. CASE Len(failures) < WindowSize
    <3>1. Len(failures') = Len(failures) + 1
      BY <1>1, <2>1, <2>2, AppendProperties DEF Slide
    <3> QED
      BY <1>1, <1>2, <1>4, <2>2, <3>1 DEF WindowComplete, Completed
  <2>3. CASE ~(Len(failures) < WindowSize)
    <3>1. Len(failures) = WindowSize /\ failures # <<>>
      BY <1>1, <1>2, <2>3
    <3>2. Tail(failures) \in Seq(BOOLEAN) /\ Len(Tail(failures)) = WindowSize - 1
      BY <1>1, <3>1, HeadTailProperties
    <3>3. Len(failures') = WindowSize
      BY <1>1, <2>1, <2>3, <3>2, AppendProperties DEF Slide
    <3> QED
      BY <1>1, <1>2, <1>4, <3>1, <3>3 DEF WindowComplete, Completed
  <2> QED
    BY <2>2, <2>3
<1> QED
  BY <1>3, <1>4, CompletedStep

CostReached == MaxCost # NoLimit /\ cost >= MaxCost

\* What an abort for the failure rate has seen, when so many calls are completed.
SeenRate(seen, completed) ==
    /\ seen.of \in MinCalls .. WindowSize
    /\ seen.of <= completed
    /\ seen.amount <= seen.of
    /\ AboveRate(seen.amount, seen.of)

\* AbortJustified and NothingMissed in these words.
Justified ==
    /\ abort.threshold = "max_injections" =>
          MaxInjections # NoLimit /\ abort.observed = Number(MaxInjections)
    /\ abort.threshold = "max_duration_seconds" => expired
    /\ abort.threshold = "max_failure_rate" => HasRate /\ SeenRate(abort.observed, Completed)
    /\ abort.threshold = "max_cost_usd" <=> CostReached
    /\ abort.threshold = "max_cost_usd" => abort.observed = Number(cost)

Unexceeded == ~Aborted /\ ~closed => ~RateExceeded(failures)

LEMMA InTheseWords ==
    /\ AbortJustified /\ NothingMissed <=> Justified /\ Unexceeded
    /\ (AbortJustified /\ NothingMissed)' <=> (Justified /\ Unexceeded)'
<1>1. AbortJustified /\ NothingMissed <=> Justified /\ Unexceeded
  BY DEF AbortJustified, NothingMissed, Justified, Unexceeded, SeenRate, Completed, CostReached,
         RateExceeded, AboveRate, Failed
<1>2. (AbortJustified /\ NothingMissed)' <=> (Justified /\ Unexceeded)'
  BY DEF AbortJustified, NothingMissed, Justified, Unexceeded, SeenRate, Completed, CostReached,
         RateExceeded, AboveRate, Failed
<1> QED
  BY <1>1, <1>2

\* The rate that finish found exceeded is the one the abort reports, over a window
\* that holds no more outcomes than calls were completed.
LEMMA ExceededIsSeen ==
    ASSUME Accounting', WindowComplete', RateExceeded(failures')
    PROVE  HasRate /\ SeenRate(Rate(failures'), Completed')
<1>1. /\ failures' \in Seq(BOOLEAN) /\ Len(failures') \in Nat
      /\ WindowSize \in Nat \ {0} /\ MinCalls \in 1 .. WindowSize
  BY BreakerAssumption, LenProperties DEF Accounting, TypeOK, SafetyTypeOK
<1>2. Len(failures') = IF Completed' < WindowSize THEN Completed' ELSE WindowSize
  BY DEF WindowComplete, Completed
<1>3. /\ HasRate /\ Len(failures') >= MinCalls
      /\ AboveRate(Rate(failures').amount, Rate(failures').of)
  BY DEF RateExceeded, AboveRate, Rate
<1>4. Rate(failures').of = Len(failures') /\ Rate(failures').amount <= Len(failures')
  BY <1>1, RateType DEF Rate
<1>5. Completed' \in Int
  <2>1. /\ IsFiniteSet(Finishing')
        /\ records' \in Seq(Record) /\ dropped' \in Nat
    BY FS_Subset, ChaosCallsAssumption DEF Finishing, Accounting, TypeOK, CallLogTypeOK
  <2>2. Cardinality(Finishing') \in Nat /\ Len(records') \in Nat
    BY <2>1, FS_CardinalityType, LenProperties
  <2> QED
    BY <2>1, <2>2 DEF Completed, FinishedCount
<1> QED
  BY <1>1, <1>2, <1>3, <1>4, <1>5 DEF SeenRate

\* An abort reports a number at or past its limit when it is set, and none of the
\* quantities it is compared with falls back.
LEMMA JustifiedStep ==
    ASSUME Accounting, Accounting', [Next]_vars, WindowComplete', InjectionCap, Justified
    PROVE  Justified'
<1>1. /\ Completed \in Int /\ WindowSize \in Nat \ {0}
      /\ MinCalls \in 1 .. WindowSize
      /\ injections \in Nat /\ reserved \in Nat /\ MaxInjections \in Nat \cup {NoLimit}
      /\ cost \in Nat /\ MaxCost \in Nat \cup {NoLimit} /\ Costs \subseteq Nat
      /\ abort \in Aborts
  BY CompletedType, BreakerAssumption, ChaosCallsAssumption
  DEF Accounting, TypeOK, SafetyTypeOK
<1>2. Completed' \in {Completed, Completed + 1}
  BY CompletedStep
<1>3. ASSUME abort' = abort, expired => expired', cost' = cost
      PROVE  Justified'
  <2>1. ASSUME NEW seen \in Fractions, SeenRate(seen, Completed)
        PROVE  SeenRate(seen, Completed')
    BY <1>1, <1>2, <2>1 DEF SeenRate, Fractions
  <2> QED
    BY <1>1, <1>3, <2>1 DEF Justified, CostReached, Aborts
<1>4. ASSUME NEW threshold \in Thresholds \ {"max_cost_usd"}, NEW running, NEW seen,
             AbortWith(threshold, seen, running), ~Aborted, expired' = expired, cost' = cost,
             \/ threshold = "max_injections" /\ MaxInjections # NoLimit /\ seen = Number(MaxInjections)
             \/ threshold = "max_duration_seconds" /\ expired
             \/ threshold = "max_failure_rate" /\ HasRate /\ SeenRate(seen, Completed')
      PROVE  Justified'
  <2>1. abort.threshold = "none"
    BY <1>4 DEF Aborted, NoAbort
  <2>2. abort'.threshold = threshold /\ abort'.observed = seen
    BY <1>4 DEF AbortWith
  <2> QED
    BY <1>4, <2>1, <2>2 DEF Justified, CostReached
<1>5. CASE UNCHANGED safetyVars \/ Expire \/ CloseSafety \/ BeginOk \/ ReserveOk
           \/ \E event \in BOOLEAN : Complete(event)
  <2>1. abort' = abort /\ (expired => expired') /\ cost' = cost
    BY <1>5 DEF safetyVars, Expire, CloseSafety, BeginOk, ReserveOk, Complete, accounting
  <2> QED
    BY <1>3, <2>1
<1>6. CASE CheckRaises \/ ReserveRaises
  <2>1. expired' = expired /\ cost' = cost
    BY <1>6 DEF CheckRaises, ReserveRaises, accounting
  <2>2. CASE abort' = abort
    BY <1>3, <2>1, <2>2
  <2>3. CASE ~Aborted /\ expired /\ AbortWith("max_duration_seconds", Elapsed, inFlight)
    BY <1>4, <2>1, <2>3 DEF Thresholds
  <2>4. CASE /\ ~Aborted /\ BudgetSpent
             /\ AbortWith("max_injections", Number(injections + reserved), inFlight)
    <3>1. MaxInjections # NoLimit /\ injections + reserved = MaxInjections
      BY <1>1, <2>4 DEF BudgetSpent, InjectionCap
    <3> QED
      BY <1>4, <2>1, <2>4, <3>1 DEF Thresholds
  <2> QED
    BY <1>6, <2>2, <2>3, <2>4 DEF CheckRaises, ReserveRaises, CheckOk
<1>7. ASSUME NEW outcome \in BOOLEAN, Finish(outcome)
      PROVE  Justified'
  <2>1. expired' = expired /\ cost' = cost
    BY <1>7 DEF Finish
  <2>2. CASE abort' = abort
    BY <1>3, <2>1, <2>2
  <2>3. CASE ~Aborted /\ expired /\ AbortWith("max_duration_seconds", Elapsed, inFlight - 1)
    BY <1>4, <2>1, <2>3 DEF Thresholds
  <2>4. CASE /\ ~Aborted /\ RateExceeded(failures')
             /\ AbortWith("max_failure_rate", Rate(failures'), inFlight - 1)
    <3>1. HasRate /\ SeenRate(Rate(failures'), Completed')
      BY <2>4, ExceededIsSeen
    <3> QED
      BY <1>4, <2>1, <2>4, <3>1 DEF Thresholds
  <2> QED
    BY <1>7, <2>2, <2>3, <2>4 DEF Finish
<1>8. ASSUME NEW amount \in Costs, RecordCostOk(amount)
      PROVE  Justified'
  <2>1. abort.threshold = "none" /\ expired' = expired /\ cost' = cost + amount
    BY <1>8 DEF RecordCostOk, CheckOk, Aborted, NoAbort
  <2>2. ~CostReached
    BY <2>1 DEF Justified
  <2>3. CASE CostReached'
    <3>1. AbortWith("max_cost_usd", Number(cost'), inFlight) /\ ~Aborted
      BY <1>8, <2>3 DEF RecordCostOk, CheckOk, CostReached
    <3>2. abort'.threshold = "max_cost_usd" /\ abort'.observed = Number(cost')
      BY <3>1 DEF AbortWith
    <3> QED
      BY <2>3, <3>2 DEF Justified
  <2>4. CASE ~CostReached'
    <3>1. abort' = abort
      BY <1>8, <2>4 DEF RecordCostOk, CostReached
    <3> QED
      BY <2>1, <2>4, <3>1 DEF Justified
  <2> QED
    BY <2>3, <2>4
<1> QED
  BY <1>5, <1>6, <1>7, <1>8, CompletedStep DEF RunningStep

\* Only finish changes the window, and a live session whose new window is above the
\* rate it aborts.
LEMMA UnexceededStep ==
    ASSUME Accounting, Accounting', [Next]_vars, Unexceeded
    PROVE  Unexceeded'
<1>1. ASSUME Stopped
      PROVE  Stopped'
  <2>1. SafetyStep
    BY NextIsSafetyStep
  <2>2. abort' = abort
    BY <1>1, <2>1, StoppedSafetyStep
  <2>3. closed => closed'
    BY <2>1 DEF SafetyStep, safetyVars, CheckRaises, ReserveRaises, BeginOk, ReserveOk, Complete,
                RecordCostOk, Finish, Expire, CloseSafety
  <2> QED
    BY <1>1, <2>2, <2>3 DEF Stopped, Aborted
<1>2. CASE RunningStep
  <2>1. failures' = failures
    BY <1>2 DEF RunningStep, safetyVars, CheckRaises, ReserveRaises, BeginOk, ReserveOk, Complete,
                RecordCostOk, Expire, CloseSafety, accounting
  <2> QED
    BY <1>1, <2>1 DEF Unexceeded, Stopped
<1>3. ASSUME NEW outcome \in BOOLEAN, Finish(outcome), ~Stopped'
      PROVE  ~RateExceeded(failures')
  <2>1. ~Aborted /\ ~closed
    BY <1>1, <1>3 DEF Stopped
  <2>2. ASSUME NEW threshold \in Thresholds, NEW seen, NEW running,
               AbortWith(threshold, seen, running)
        PROVE  FALSE
    <3>1. abort'.threshold = threshold /\ threshold # "none"
      BY <2>1, <2>2 DEF AbortWith, Thresholds
    <3> QED
      BY <1>3, <3>1 DEF Stopped, Aborted, NoAbort
  <2> QED
    BY <1>3, <2>1, <2>2 DEF Finish, Thresholds
<1> QED
  BY <1>2, <1>3, CompletedStep DEF Unexceeded, Stopped

\* An abort counts the calls under way when it is set, and from then on calls
\* only end.
LEMMA OutstandingStep ==
    ASSUME Accounting, Accounting', [Next]_vars, InFlightAtAbortBounds
    PROVE  InFlightAtAbortBounds'
<1>1. inFlight \in Nat /\ inFlight' \in Nat /\ SafetyStep
  BY NextIsSafetyStep DEF Accounting, TypeOK, SafetyTypeOK
<1>2. CASE Aborted
  <2>1. abort' = abort /\ inFlight' <= inFlight
    BY <1>1, <1>2, StoppedSafetyStep DEF Stopped
  <2>2. abort.in_flight_at_abort \in Nat
    BY DEF Accounting, TypeOK, SafetyTypeOK, Aborts
  <2> QED
    BY <1>1, <1>2, <2>1, <2>2 DEF InFlightAtAbortBounds
<1>3. CASE ~Aborted
  <2>1. \/ abort' = abort
        \/ \E threshold \in Thresholds : \E seen : AbortWith(threshold, seen, inFlight')
    <3>1. CASE CheckRaises \/ ReserveRaises \/ \E amount \in Costs : RecordCostOk(amount)
      BY <3>1 DEF CheckRaises, ReserveRaises, RecordCostOk, accounting, Thresholds
    <3>2. CASE \E outcome \in BOOLEAN : Finish(outcome)
      BY <3>2 DEF Finish, Thresholds
    <3>3. CASE \/ UNCHANGED safetyVars \/ BeginOk \/ ReserveOk \/ Expire \/ CloseSafety
               \/ \E event \in BOOLEAN : Complete(event)
      BY <3>3 DEF safetyVars, BeginOk, ReserveOk, Expire, CloseSafety, Complete
    <3> QED
      BY <1>1, <3>1, <3>2, <3>3 DEF SafetyStep
  <2>2. CASE abort' = abort
    BY <1>3, <2>2 DEF Aborted, InFlightAtAbortBounds
  <2>3. CASE \E threshold \in Thresholds : \E seen : AbortWith(threshold, seen, inFlight')
    <3>1. abort'.in_flight_at_abort = inFlight'
      BY <1>3, <2>3 DEF AbortWith
    <3> QED
      BY <1>1, <3>1 DEF InFlightAtAbortBounds
  <2> QED
    BY <2>1, <2>2, <2>3
<1> QED
  BY <1>2, <1>3

-----------------------------------------------------------------------------
(* The theorem *)

\* A new session has not aborted, and its window and its counts are empty.
LEMMA AbortInit == Init => AbortSound
<1> SUFFICES ASSUME Init PROVE AbortSound
  OBVIOUS
<1>1. Finishing = {}
  BY DEF Init, Finishing
<1>2. Len(failures) = 0 /\ FinishedCount - Cardinality(Finishing) = 0
  BY <1>1, FS_EmptySet DEF Init, SafetyInit, CallLogInit, FinishedCount
<1>3. WindowSize \in Nat \ {0} /\ MaxCost \in (Nat \ {0}) \cup {NoLimit}
  BY BreakerAssumption
<1>4. abort = NoAbort /\ cost = 0
  BY DEF Init, SafetyInit
<1>5. WindowComplete
  BY <1>2, <1>3 DEF WindowComplete
<1>6. Justified /\ Unexceeded
  <2>1. failures = <<>> /\ MinCalls \in 1 .. WindowSize
    BY BreakerAssumption DEF Init, SafetyInit
  <2> QED
    BY <1>3, <1>4, <2>1 DEF NoAbort, Justified, CostReached, Unexceeded, RateExceeded
<1> QED
  BY <1>4, <1>5, <1>6, InTheseWords DEF Aborted, InFlightAtAbortBounds, AbortSound

\* However calls, costs and the clock interleave, a session aborts exactly when a limit
\* is reached: all injections committed or reserved, the failures of a complete window
\* above the rate, the cost at its limit, or the time over; and in_flight_at_abort
\* bounds the calls that may still finish.
THEOREM AbortsAreSound == Spec => []AbortSound
<1>1. Accounting /\ Accounting' /\ InjectionCap /\ AbortSound /\ [Next]_vars => AbortSound'
  BY WindowStep, JustifiedStep, UnexceededStep, OutstandingStep, InTheseWords DEF AbortSound
<1> QED
  BY <1>1, AbortInit, AccountingHolds, CapHolds, PTL DEF Spec

-----------------------------------------------------------------------------
(* The evidence that a run leaves is sound: events match committed         *)
(* injections, call records match the calls, and a record is attributed to *)
(* a fault exactly when its event was recorded.                            *)
(* EvidenceSound speaks of finished records only; it is inductive together *)
(* with Linked, which says of the calls under way what EvidenceAgrees will *)
(* say of their records.                                                   *)

RecordLabels == PC \ {"idle", "admitted", "finishing"}

EventSeqs == {events[j] : j \in DOMAIN events}

\* A number in use was handed out, a call that has no record yet is not marked,
\* and a call under way is marked exactly when it has its event.
Linked ==
    /\ LoggedSeqs \subseteq 1 .. sequence
    /\ EventSeqs \subseteq 1 .. sequence
    /\ \A w \in Workers : pc[w] = "admitted" => ~fault[w]
    /\ \A w \in Logged : fault[w] <=> seq[w] \in EventSeqs

Recording == {w \in Workers : pc[w] = "recording"}

-----------------------------------------------------------------------------
(* One event per injection *)

\* How many calls have an injection without its event, when one worker moves.
LEMMA RecordingMove ==
    ASSUME Accounting, NEW w \in Workers, NEW l \in PC, pc' = [pc EXCEPT ![w] = l]
    PROVE  /\ Cardinality(Recording) \in Nat
           /\ Cardinality(Recording') = Cardinality(Recording) + Delta({"recording"}, pc[w], l)
<1>1. pc \in [Workers -> PC]
  BY DEF Accounting, TypeOK
<1>2. Recording = At(pc, {"recording"}) /\ Recording' = At(pc', {"recording"})
  BY DEF Recording, At
<1> QED
  BY <1>1, <1>2, MoveCount

\* An injection is committed as its worker turns to recording, and the worker
\* leaves recording by appending the event, unless the judge raises.
LEMMA InjectionStep ==
    ASSUME Accounting, Accounting', [Next]_vars, EventPerInjection
    PROVE  EventPerInjection'
<1>1. /\ injections \in Nat /\ events \in Seq(Nat) /\ Len(events) \in Nat
      /\ seq \in [Workers -> Nat] /\ injected \in [Workers -> BOOLEAN]
  BY LenProperties DEF Accounting, TypeOK, SafetyTypeOK
<1> DEFINE appending == Cardinality(Recording)
<1>2. /\ Len(events) + appending <= injections
      /\ ~JudgeMayFail => Len(events) + appending = injections
  BY DEF EventPerInjection, Recording
<1> SUFFICES /\ Len(events') + appending' <= injections'
             /\ ~JudgeMayFail => Len(events') + appending' = injections'
  BY DEF EventPerInjection, Recording
<1>3. ASSUME UNCHANGED <<pc, events, injections>>
      PROVE  /\ Len(events') + appending' <= injections'
             /\ ~JudgeMayFail => Len(events') + appending' = injections'
  BY <1>2, <1>3 DEF Recording
<1>4. ASSUME NEW w \in Workers, NEW l \in PC \ {"recording"}, pc' = [pc EXCEPT ![w] = l],
             pc[w] # "recording", UNCHANGED <<events, injections>>
      PROVE  /\ Len(events') + appending' <= injections'
             /\ ~JudgeMayFail => Len(events') + appending' = injections'
  <2>1. Delta({"recording"}, pc[w], l) = 0
    BY <1>4 DEF Delta
  <2>2. appending \in Nat /\ appending' = appending + Delta({"recording"}, pc[w], l)
    BY <1>4, RecordingMove
  <2> QED
    BY <1>2, <1>4, <2>1, <2>2
<1>5. ASSUME NEW w \in Workers, Settle(w)
      PROVE  /\ Len(events') + appending' <= injections'
             /\ ~JudgeMayFail => Len(events') + appending' = injections'
  <2>1. CASE injected[w]
    <3>1. /\ pc' = [pc EXCEPT ![w] = "recording"] /\ pc[w] = "settling"
          /\ injections' = injections + 1 /\ events' = events
      BY <1>5, <2>1 DEF Settle, Complete, Goto, sessionVars
    <3>2. Delta({"recording"}, pc[w], "recording") = 1
      BY <3>1 DEF Delta
    <3>3. appending \in Nat /\ appending' = appending + 1
      BY <3>1, <3>2, RecordingMove DEF PC
    <3> QED
      BY <1>1, <1>2, <3>1, <3>3
  <2>2. CASE ~injected[w]
    <3>1. /\ pc' = [pc EXCEPT ![w] = "logging"] /\ pc[w] = "settling"
          /\ injections' = injections /\ events' = events
      BY <1>5, <2>2 DEF Settle, Complete, Goto, sessionVars
    <3> QED
      BY <1>4, <3>1 DEF PC
  <2> QED
    BY <2>1, <2>2
<1>6. ASSUME NEW w \in Workers, RecordEvent(w) \/ ScoreFails(w)
      PROVE  /\ Len(events') + appending' <= injections'
             /\ ~JudgeMayFail => Len(events') + appending' = injections'
  <2>1. /\ pc' = [pc EXCEPT ![w] = "logging"] /\ pc[w] = "recording"
        /\ injections' = injections
    BY <1>6 DEF RecordEvent, ScoreFails, Fail, Goto, safetyVars
  <2>2. Delta({"recording"}, pc[w], "logging") = -1
    BY <2>1 DEF Delta
  <2>3. appending \in Nat /\ appending' = appending - 1
    BY <2>1, <2>2, RecordingMove DEF PC
  <2>4. CASE RecordEvent(w)
    <3>1. Len(events') = Len(events) + 1
      BY <1>1, <2>4, AppendProperties DEF RecordEvent
    <3> QED
      BY <1>1, <1>2, <2>1, <2>3, <3>1
  <2>5. CASE ScoreFails(w)
    <3>1. events' = events /\ JudgeMayFail
      BY <2>5 DEF ScoreFails, sessionVars
    <3> QED
      BY <1>1, <1>2, <2>1, <2>3, <3>1
  <2> QED
    BY <1>6, <2>4, <2>5
<1>7. ASSUME NEW w \in Workers, Begin(w) \/ WorkerStep(w),
             ~Settle(w), ~RecordEvent(w), ~ScoreFails(w)
      PROVE  /\ Len(events') + appending' <= injections'
             /\ ~JudgeMayFail => Len(events') + appending' = injections'
  <2>1. pc[w] # "recording" /\ \E l \in PC \ {"recording"} : pc' = [pc EXCEPT ![w] = l]
    BY <1>7 DEF Begin, WorkerStep, StartRecord, SelectionError, PassThrough, Plan, PlanRejected,
      AppendPlan, TargetEnds, Reserve, ReserveRejected, FaultActs, Invoke, InvokeRejected,
      TriggerEnds, FinishRecord, FinishCall, Fail, Goto, PC
  <2>2. events' = events
    BY <1>7 DEF Begin, WorkerStep, StartRecord, SelectionError, PassThrough, Plan, PlanRejected,
      AppendPlan, TargetEnds, Reserve, ReserveRejected, FaultActs, Invoke, InvokeRejected,
      TriggerEnds, FinishRecord, FinishCall, sessionVars
  <2>3. injections' = injections
    BY <1>7 DEF Begin, WorkerStep, StartRecord, SelectionError, PassThrough, Plan, PlanRejected,
      AppendPlan, TargetEnds, Reserve, ReserveRejected, FaultActs, Invoke, InvokeRejected,
      TriggerEnds, FinishRecord, FinishCall, safetyVars, accounting, BeginOk, ReserveOk,
      CheckRaises, ReserveRaises, Finish
  <2> QED
    BY <1>4, <2>1, <2>2, <2>3
<1>8. CASE \/ UNCHANGED vars
           \/ \E w \in Workers : BeginRejected(w)
           \/ \E amount \in Costs : RecordCost(amount)
           \/ CheckElsewhere \/ TimePasses \/ ExitSession \/ Report
  <2>1. UNCHANGED <<pc, events>>
    BY <1>8 DEF BeginRejected, RecordCost, CheckElsewhere, TimePasses, ExitSession, Report,
      ReportEvents, ReportSnapshot, ReportCalls, ReportDropped, workerVars, sessionVars, vars
  <2>2. injections' = injections
    BY <1>8 DEF BeginRejected, BeginRaises, RecordCost, CheckElsewhere, TimePasses, ExitSession,
      Report, ReportEvents, ReportSnapshot, ReportCalls, ReportDropped, vars, safetyVars,
      accounting, CheckRaises, RecordCostOk, Expire, CloseSafety
  <2> QED
    BY <1>3, <2>1, <2>2
<1> QED
  BY <1>5, <1>6, <1>7, <1>8 DEF Next

-----------------------------------------------------------------------------
(* One record per call, marked when the call had its event *)

RecordsAgree == OneRecordPerCall /\ EvidenceAgrees /\ Linked

\* Likewise for the calls whose record is open.
LEMMA LoggedMove ==
    ASSUME Accounting, NEW w \in Workers, NEW l \in PC, pc' = [pc EXCEPT ![w] = l]
    PROVE  /\ Cardinality(Logged) \in Nat
           /\ Cardinality(Logged') = Cardinality(Logged) + Delta(RecordLabels, pc[w], l)
           /\ Logged' = IF l \in RecordLabels THEN Logged \cup {w} ELSE Logged \ {w}
<1>1. pc \in [Workers -> PC]
  BY DEF Accounting, TypeOK
<1>2. Logged = At(pc, RecordLabels) /\ Logged' = At(pc', RecordLabels)
  BY <1>1 DEF Logged, At, RecordLabels
<1>3. Logged' = IF l \in RecordLabels THEN Logged \cup {w} ELSE Logged \ {w}
  BY <1>1, <1>2 DEF At
<1> QED
  BY <1>1, <1>2, <1>3, MoveCount

\* A step that opens, closes and marks no record.
LEMMA NeutralStep ==
    ASSUME RecordsAgree, UNCHANGED <<sequence, records, dropped, events, seq>>,
           Logged' = Logged, \A v \in Logged : fault'[v] = fault[v],
           \A v \in Workers : pc'[v] = "admitted" => ~fault'[v]
    PROVE  RecordsAgree'
<1>1. OneRecordPerCall'
  BY DEF RecordsAgree, OneRecordPerCall, LoggedSeqs
<1>2. EvidenceAgrees'
  BY DEF RecordsAgree, EvidenceAgrees
<1>3. Linked'
  BY DEF RecordsAgree, Linked, LoggedSeqs, EventSeqs
<1> QED
  BY <1>1, <1>2, <1>3 DEF RecordsAgree

\* A worker that stays among the calls with an open record, or outside them.
LEMMA WithoutRecordStep ==
    ASSUME Accounting, RecordsAgree, NEW w \in Workers, NEW l \in PC,
           pc' = [pc EXCEPT ![w] = l], UNCHANGED <<sequence, records, dropped, events, seq>>,
           pc[w] \in RecordLabels <=> l \in RecordLabels,
           \/ l # "admitted" /\ fault' = fault
           \/ w \notin Logged /\ fault' = [fault EXCEPT ![w] = FALSE]
    PROVE  RecordsAgree'
<1>1. pc \in [Workers -> PC] /\ fault \in [Workers -> BOOLEAN]
  BY DEF Accounting, TypeOK
<1>2. w \in Logged <=> pc[w] \in RecordLabels
  BY <1>1 DEF Logged, RecordLabels
<1>3. Logged' = Logged
  <2>1. Logged' = IF l \in RecordLabels THEN Logged \cup {w} ELSE Logged \ {w}
    BY LoggedMove
  <2> QED
    BY <1>2, <2>1
<1>4. \A v \in Logged : fault'[v] = fault[v]
  BY <1>1 DEF Logged
<1>5. \A v \in Workers : pc'[v] = "admitted" => ~fault'[v]
  BY <1>1 DEF RecordsAgree, Linked
<1> QED
  BY <1>3, <1>4, <1>5, NeutralStep

\* begin of the log hands out a number no record, event or open call has.
LEMMA StartRecordStep ==
    ASSUME Accounting, RecordsAgree, NEW w \in Workers, StartRecord(w)
    PROVE  RecordsAgree'
<1>1. /\ sequence \in Nat /\ dropped \in Nat /\ Len(records) \in Nat
      /\ seq \in [Workers -> Nat] /\ pc \in [Workers -> PC]
  BY LenProperties DEF Accounting, TypeOK, CallLogTypeOK
<1>2. /\ pc' = [pc EXCEPT ![w] = "selecting"] /\ pc[w] = "admitted"
      /\ sequence' = sequence + 1 /\ seq' = [seq EXCEPT ![w] = sequence + 1]
      /\ UNCHANGED <<records, dropped, events, fault>>
  BY DEF StartRecord, LogBegin, Goto, sessionVars
<1>3. /\ Cardinality(Logged') = Cardinality(Logged) + 1 /\ Cardinality(Logged) \in Nat
      /\ Logged' = Logged \cup {w} /\ w \notin Logged
  <2>1. Delta(RecordLabels, pc[w], "selecting") = 1
    BY <1>2 DEF Delta, RecordLabels, PC
  <2> QED
    BY <1>2, <2>1, LoggedMove DEF RecordLabels, PC, Logged
<1>4. LoggedSeqs' = LoggedSeqs /\ EventSeqs' = EventSeqs
  BY <1>2 DEF LoggedSeqs, EventSeqs
<1>5. LoggedSeqs \subseteq 1 .. sequence /\ EventSeqs \subseteq 1 .. sequence
  BY DEF RecordsAgree, Linked
<1>6. OneRecordPerCall'
  <2>1. sequence' = Len(records') + dropped' + Cardinality(Logged')
    BY <1>1, <1>2, <1>3 DEF RecordsAgree, OneRecordPerCall
  <2>2. Cardinality(LoggedSeqs') = Len(records')
    BY <1>2, <1>4 DEF RecordsAgree, OneRecordPerCall
  <2>3. ASSUME NEW v \in Logged'
        PROVE  /\ seq'[v] \in 1 .. sequence'
               /\ seq'[v] \notin LoggedSeqs'
               /\ \A u \in Logged' : u # v => seq'[u] # seq'[v]
    <3>1. \A u \in Logged : seq'[u] = seq[u] /\ seq[u] \in 1 .. sequence
      BY <1>1, <1>2, <1>3 DEF RecordsAgree, OneRecordPerCall, Logged
    <3>2. seq'[w] = sequence + 1 /\ sequence + 1 \notin 1 .. sequence
      BY <1>1, <1>2
    <3>3. CASE v = w
      BY <1>1, <1>2, <1>3, <1>4, <1>5, <3>1, <3>2, <3>3
    <3>4. CASE v \in Logged /\ v # w
      <4>1. seq[v] \notin LoggedSeqs /\ \A u \in Logged : u # v => seq[u] # seq[v]
        BY <3>4 DEF RecordsAgree, OneRecordPerCall
      <4>2. seq[v] \in 1 .. sequence'
        BY <1>1, <1>2, <3>1, <3>4
      <4> QED
        BY <1>3, <1>4, <3>1, <3>2, <3>4, <4>1, <4>2
    <3> QED
      BY <1>3, <3>3, <3>4
  <2> QED
    BY <2>1, <2>2, <2>3 DEF OneRecordPerCall
<1>7. EvidenceAgrees'
  BY <1>2 DEF RecordsAgree, EvidenceAgrees
<1>8. Linked'
  <2>1. LoggedSeqs' \subseteq 1 .. sequence' /\ EventSeqs' \subseteq 1 .. sequence'
    BY <1>1, <1>2, <1>4, <1>5
  <2>2. \A v \in Workers : pc'[v] = "admitted" => ~fault'[v]
    BY <1>1, <1>2 DEF RecordsAgree, Linked
  <2>3. ASSUME NEW v \in Logged'
        PROVE  fault'[v] <=> seq'[v] \in EventSeqs'
    <3>1. CASE v = w
      <4>1. ~fault'[w]
        BY <1>2 DEF RecordsAgree, Linked
      <4>2. seq'[w] \notin EventSeqs'
        BY <1>1, <1>2, <1>4, <1>5
      <4> QED
        BY <3>1, <4>1, <4>2
    <3>2. CASE v \in Logged /\ v # w
      <4>1. seq'[v] = seq[v] /\ fault'[v] = fault[v]
        BY <1>1, <1>2, <3>2 DEF Logged
      <4> QED
        BY <1>4, <3>2, <4>1 DEF RecordsAgree, Linked
    <3> QED
      BY <1>3, <3>1, <3>2
  <2> QED
    BY <2>1, <2>2, <2>3 DEF Linked
<1> QED
  BY <1>6, <1>7, <1>8 DEF RecordsAgree

\* The event and the mark carry the number of one open call, so no finished record
\* and no other call is concerned.
LEMMA RecordEventStep ==
    ASSUME Accounting, RecordsAgree, NEW w \in Workers, RecordEvent(w)
    PROVE  RecordsAgree'
<1>1. /\ seq \in [Workers -> Nat] /\ fault \in [Workers -> BOOLEAN]
      /\ pc \in [Workers -> PC] /\ events \in Seq(Nat)
  BY DEF Accounting, TypeOK
<1>2. /\ pc' = [pc EXCEPT ![w] = "logging"] /\ pc[w] = "recording"
      /\ events' = Append(events, seq[w]) /\ fault' = [fault EXCEPT ![w] = TRUE]
      /\ UNCHANGED <<sequence, records, dropped, seq>>
  BY DEF RecordEvent, Goto, logVars
<1>3. Logged' = Logged /\ w \in Logged
  <2>1. w \in Logged
    BY <1>2 DEF Logged
  <2>2. Logged' = Logged \cup {w}
    BY <1>2, LoggedMove DEF RecordLabels, PC
  <2> QED
    BY <2>1, <2>2
<1>4. LoggedSeqs' = LoggedSeqs /\ EventSeqs' = EventSeqs \cup {seq[w]}
  <2>1. LoggedSeqs' = LoggedSeqs
    BY <1>2 DEF LoggedSeqs
  <2>2. /\ Len(events) \in Nat /\ DOMAIN events = 1 .. Len(events)
        /\ DOMAIN events' = 1 .. Len(events) + 1
        /\ \A j \in 1 .. Len(events) : events'[j] = events[j]
        /\ events'[Len(events) + 1] = seq[w]
    BY <1>1, <1>2, AppendProperties, LenProperties
  <2> QED
    BY <2>1, <2>2 DEF EventSeqs
<1>5. /\ seq[w] \in 1 .. sequence /\ seq[w] \notin LoggedSeqs
      /\ \A v \in Logged : v # w => seq[v] # seq[w]
  BY <1>3 DEF RecordsAgree, OneRecordPerCall
<1>6. OneRecordPerCall'
  BY <1>2, <1>3, <1>4 DEF RecordsAgree, OneRecordPerCall
<1>7. EvidenceAgrees'
  <2>1. \A i \in DOMAIN records : records[i].fault <=> records[i].seq \in EventSeqs
    BY DEF RecordsAgree, EvidenceAgrees, EventSeqs
  <2>2. \A i \in DOMAIN records : records[i].seq # seq[w]
    BY <1>5 DEF LoggedSeqs
  <2>3. \A i \in DOMAIN records' : records'[i].fault <=> records'[i].seq \in EventSeqs'
    BY <1>2, <1>4, <2>1, <2>2
  <2> QED
    BY <2>3 DEF EvidenceAgrees, EventSeqs
<1>8. Linked'
  <2>1. LoggedSeqs' \subseteq 1 .. sequence' /\ EventSeqs' \subseteq 1 .. sequence'
    BY <1>2, <1>4, <1>5 DEF RecordsAgree, Linked
  <2>2. \A v \in Workers : pc'[v] = "admitted" => ~fault'[v]
    BY <1>1, <1>2 DEF RecordsAgree, Linked
  <2>3. ASSUME NEW v \in Logged'
        PROVE  fault'[v] <=> seq'[v] \in EventSeqs'
    <3>1. CASE v = w
      BY <1>1, <1>2, <1>4, <3>1
    <3>2. CASE v # w
      <4>1. v \in Logged /\ seq'[v] = seq[v] /\ fault'[v] = fault[v] /\ seq[v] # seq[w]
        BY <1>1, <1>2, <1>3, <1>5, <3>2 DEF Logged
      <4> QED
        BY <1>4, <4>1 DEF RecordsAgree, Linked
    <3> QED
      BY <3>1, <3>2
  <2> QED
    BY <2>1, <2>2, <2>3 DEF Linked
<1> QED
  BY <1>6, <1>7, <1>8 DEF RecordsAgree

\* The call's number and mark pass from the worker to the record, or to nothing
\* when the log is full.
LEMMA FinishRecordStep ==
    ASSUME Accounting, RecordsAgree, NEW w \in Workers, FinishRecord(w)
    PROVE  RecordsAgree'
<1> DEFINE record == [seq |-> seq[w], error |-> failed[w], fault |-> fault[w]]
<1>1. /\ seq \in [Workers -> Nat] /\ fault \in [Workers -> BOOLEAN]
      /\ failed \in [Workers -> BOOLEAN] /\ pc \in [Workers -> PC]
      /\ records \in Seq(Record) /\ Len(records) \in Nat /\ dropped \in Nat
      /\ record \in Record
  BY LenProperties DEF Accounting, TypeOK, CallLogTypeOK, Record
<1>2. /\ pc' = [pc EXCEPT ![w] = "finishing"] /\ pc[w] = "logging"
      /\ LogFinish(record) /\ sequence' = sequence
      /\ UNCHANGED <<events, seq, fault>>
  BY DEF FinishRecord, Goto, LogFinish, sessionVars
<1>3. /\ Cardinality(Logged) \in Nat /\ Cardinality(Logged') = Cardinality(Logged) - 1
      /\ Logged' = Logged \ {w} /\ w \in Logged
  <2>1. Delta(RecordLabels, pc[w], "finishing") = -1
    BY <1>2 DEF Delta, RecordLabels, PC
  <2> QED
    BY <1>2, <2>1, LoggedMove DEF RecordLabels, PC, Logged
<1>4. /\ seq[w] \in 1 .. sequence /\ seq[w] \notin LoggedSeqs
      /\ \A v \in Logged : v # w => seq[v] # seq[w]
      /\ fault[w] <=> seq[w] \in EventSeqs
  BY <1>3 DEF RecordsAgree, OneRecordPerCall, Linked
<1>5. EventSeqs' = EventSeqs
  BY <1>2 DEF EventSeqs
<1>6. \A i \in DOMAIN records : records[i].fault <=> records[i].seq \in EventSeqs
  BY DEF RecordsAgree, EvidenceAgrees, EventSeqs
<1>7. CASE Len(records) < MaxRecords
  <2>1. /\ records' = Append(records, record) /\ dropped' = dropped
        /\ Len(records') = Len(records) + 1
        /\ DOMAIN records = 1 .. Len(records) /\ DOMAIN records' = 1 .. Len(records) + 1
        /\ \A i \in 1 .. Len(records) : records'[i] = records[i]
        /\ records'[Len(records) + 1] = record
    BY <1>1, <1>2, <1>7, AppendProperties, LenProperties DEF LogFinish
  <2>2. LoggedSeqs' = LoggedSeqs \cup {seq[w]}
    <3>1. LoggedSeqs = {records[i].seq : i \in 1 .. Len(records)}
      BY <2>1 DEF LoggedSeqs
    <3>2. LoggedSeqs' = {records'[i].seq : i \in 1 .. Len(records) + 1}
      BY <2>1 DEF LoggedSeqs
    <3>3. 1 .. Len(records) + 1 = (1 .. Len(records)) \cup {Len(records) + 1}
      BY <1>1
    <3>4. record.seq = seq[w]
      OBVIOUS
    <3> QED
      BY <2>1, <3>1, <3>2, <3>3, <3>4
  <2>3. OneRecordPerCall'
    <3>1. IsFiniteSet(LoggedSeqs)
      <4>1. IsFiniteSet(1 .. sequence)
        BY FS_Interval DEF Accounting, TypeOK, CallLogTypeOK
      <4> QED
        BY <4>1, FS_Subset DEF RecordsAgree, Linked
    <3>2. Cardinality(LoggedSeqs') = Cardinality(LoggedSeqs) + 1
      BY <1>4, <2>2, <3>1, FS_AddElement
    <3> QED
      BY <1>1, <1>2, <1>3, <1>4, <2>1, <2>2, <3>2 DEF RecordsAgree, OneRecordPerCall
  <2>4. EvidenceAgrees'
    <3>1. \A i \in DOMAIN records' : records'[i].fault <=> records'[i].seq \in EventSeqs'
      BY <1>1, <1>4, <1>5, <1>6, <2>1
    <3> QED
      BY <3>1 DEF EvidenceAgrees, EventSeqs
  <2>5. Linked'
    BY <1>1, <1>2, <1>3, <1>4, <1>5, <2>2 DEF RecordsAgree, Linked
  <2> QED
    BY <2>3, <2>4, <2>5 DEF RecordsAgree
<1>8. CASE ~(Len(records) < MaxRecords)
  <2>1. records' = records /\ dropped' = dropped + 1
    BY <1>2, <1>8 DEF LogFinish
  <2>2. LoggedSeqs' = LoggedSeqs
    BY <2>1 DEF LoggedSeqs
  <2>3. OneRecordPerCall'
    BY <1>1, <1>2, <1>3, <2>1, <2>2 DEF RecordsAgree, OneRecordPerCall
  <2>4. EvidenceAgrees'
    BY <1>2, <2>1 DEF RecordsAgree, EvidenceAgrees
  <2>5. Linked'
    BY <1>1, <1>2, <1>3, <1>5, <2>2 DEF RecordsAgree, Linked
  <2> QED
    BY <2>3, <2>4, <2>5 DEF RecordsAgree
<1> QED
  BY <1>7, <1>8

\* Every step keeps records, marks and events in agreement.
LEMMA RecordsStep ==
    ASSUME Accounting, RecordsAgree, [Next]_vars
    PROVE  RecordsAgree'
<1>1. ASSUME UNCHANGED <<pc, fault, sequence, records, dropped, events, seq>>
      PROVE  RecordsAgree'
  BY <1>1, NeutralStep DEF RecordsAgree, Linked, Logged
<1>2. ASSUME NEW w \in Workers, Begin(w)
      PROVE  RecordsAgree'
  <2>1. /\ pc' = [pc EXCEPT ![w] = "admitted"] /\ pc[w] = "idle"
        /\ fault' = [fault EXCEPT ![w] = FALSE]
        /\ UNCHANGED <<sequence, records, dropped, events, seq>>
    BY <1>2 DEF Begin, Goto, logVars, sessionVars
  <2> QED
    BY <2>1, WithoutRecordStep DEF RecordLabels, PC, Logged
<1>3. ASSUME NEW w \in Workers, FinishCall(w)
      PROVE  RecordsAgree'
  <2>1. /\ pc' = [pc EXCEPT ![w] = "idle"] /\ pc[w] = "finishing"
        /\ fault' = fault /\ UNCHANGED <<sequence, records, dropped, events, seq>>
    BY <1>3 DEF FinishCall, Goto, logVars, sessionVars
  <2> QED
    BY <2>1, WithoutRecordStep DEF RecordLabels, PC
<1>4. ASSUME NEW w \in Workers, WorkerStep(w),
             ~StartRecord(w), ~RecordEvent(w), ~FinishRecord(w), ~FinishCall(w)
      PROVE  RecordsAgree'
  <2>1. pc[w] \in RecordLabels
    BY <1>4 DEF WorkerStep, SelectionError, PassThrough, Plan, PlanRejected, AppendPlan,
      TargetEnds, Reserve, ReserveRejected, FaultActs, Invoke, InvokeRejected, TriggerEnds,
      Settle, ScoreFails, RecordLabels, PC
  <2>2. \E l \in RecordLabels : pc' = [pc EXCEPT ![w] = l]
    BY <1>4 DEF WorkerStep, SelectionError, PassThrough, Plan, PlanRejected, AppendPlan,
      TargetEnds, Reserve, ReserveRejected, FaultActs, Invoke, InvokeRejected, TriggerEnds,
      Settle, ScoreFails, Fail, Goto, RecordLabels, PC
  <2>3. fault' = fault /\ UNCHANGED <<sequence, records, dropped, events, seq>>
    BY <1>4 DEF WorkerStep, SelectionError, PassThrough, Plan, PlanRejected, AppendPlan,
      TargetEnds, Reserve, ReserveRejected, FaultActs, Invoke, InvokeRejected, TriggerEnds,
      Settle, ScoreFails, sessionVars, logVars
  <2>4. \A l \in RecordLabels : l \in PC /\ l # "admitted"
    BY DEF RecordLabels
  <2> QED
    BY <2>1, <2>2, <2>3, <2>4, WithoutRecordStep
<1>5. CASE \/ UNCHANGED vars
           \/ \E w \in Workers : BeginRejected(w)
           \/ \E amount \in Costs : RecordCost(amount)
           \/ CheckElsewhere \/ TimePasses \/ ExitSession \/ Report
  <2>1. UNCHANGED <<pc, fault, sequence, records, dropped, events, seq>>
    BY <1>5 DEF BeginRejected, RecordCost, CheckElsewhere, TimePasses, ExitSession, Report,
      ReportEvents, ReportSnapshot, ReportCalls, ReportDropped, workerVars, sessionVars,
      logVars, vars
  <2> QED
    BY <1>1, <2>1
<1> QED
  BY <1>2, <1>3, <1>4, <1>5, StartRecordStep, RecordEventStep, FinishRecordStep DEF Next

-----------------------------------------------------------------------------
(* The theorem *)

\* A session starts without events, records and open calls.
LEMMA EvidenceInit == Init => EventPerInjection /\ RecordsAgree
<1> SUFFICES ASSUME Init PROVE EventPerInjection /\ RecordsAgree
  OBVIOUS
<1>1. /\ Recording = {} /\ Logged = {} /\ LoggedSeqs = {} /\ EventSeqs = {}
      /\ events = <<>> /\ records = <<>>
  BY DEF Init, CallLogInit, Recording, Logged, LoggedSeqs, EventSeqs
<1>2. EventPerInjection
  <2>1. Cardinality(Recording) = 0 /\ Len(events) = 0 /\ injections = 0
    BY <1>1, FS_EmptySet DEF Init, SafetyInit
  <2> QED
    BY <2>1 DEF EventPerInjection, Recording
<1>3. OneRecordPerCall /\ EvidenceAgrees
  BY <1>1, FS_EmptySet DEF Init, CallLogInit, OneRecordPerCall, EvidenceAgrees
<1>4. Linked
  BY <1>1 DEF Init, Linked
<1> QED
  BY <1>2, <1>3, <1>4 DEF RecordsAgree

\* Events, call records and injections tell one story: whichever way calls end and
\* however many of their records the bounded log drops.
THEOREM EvidenceIsSound == Spec => []EvidenceSound
<1>1. Accounting /\ Accounting' /\ EventPerInjection /\ RecordsAgree /\ [Next]_vars
        => EventPerInjection' /\ RecordsAgree'
  BY InjectionStep, RecordsStep
<1>2. EventPerInjection /\ RecordsAgree => EvidenceSound
  BY DEF RecordsAgree, EvidenceSound
<1> QED
  BY <1>1, <1>2, EvidenceInit, AccountingHolds, PTL DEF Spec

-----------------------------------------------------------------------------
(* A report captured while calls run *)

ReportTypeOK ==
    report \in [phase : {"none", "events", "snapshot", "calls", "done"}, events : Nat,
                injections : Nat, aborted : BOOLEAN, calls : SUBSET Nat, finished : Int,
                dropped : Nat]

\* What the report has read so far, compared with what it has still to read: both
\* counts only grow meanwhile.
Captured ==
    /\ report.phase \in {"none", "events"} => report.events <= injections
    /\ report.phase \in {"snapshot", "calls", "done"} => report.events <= report.injections
    /\ report.phase = "calls" /\ dropped = 0 => Cardinality(report.calls) = report.finished
    /\ report.phase = "done" /\ report.dropped = 0 => Cardinality(report.calls) = report.finished

\* Neither an injection nor a dropped record is ever taken back.
LEMMA CountsGrow ==
    ASSUME Accounting, Accounting', [Next]_vars
    PROVE  injections <= injections' /\ dropped <= dropped'
<1>1. injections \in Nat /\ dropped \in Nat
  BY DEF Accounting, TypeOK, SafetyTypeOK, CallLogTypeOK
<1>2. injections <= injections'
  <2>1. SafetyStep
    BY NextIsSafetyStep
  <2>2. ASSUME NEW event \in BOOLEAN, Complete(event)
        PROVE  injections <= injections'
    BY <1>1, <2>2 DEF Complete
  <2>3. CASE \/ UNCHANGED safetyVars
             \/ CheckRaises \/ ReserveRaises \/ BeginOk \/ ReserveOk
             \/ \E outcome \in BOOLEAN : Finish(outcome)
             \/ \E amount \in Costs : RecordCostOk(amount)
             \/ Expire \/ CloseSafety
    <3>1. injections' = injections
      BY <2>3 DEF safetyVars, CheckRaises, ReserveRaises, BeginOk, ReserveOk, Finish,
                  RecordCostOk, Expire, CloseSafety, accounting
    <3> QED
      BY <1>1, <2>3, <3>1
  <2> QED
    BY <2>1, <2>2, <2>3 DEF SafetyStep
<1>3. ASSUME NEW w \in Workers, FinishRecord(w)
      PROVE  dropped <= dropped'
  BY <1>1, <1>3 DEF FinishRecord, LogFinish
<1>4. ASSUME NEW w \in Workers, Begin(w) \/ BeginRejected(w) \/ WorkerStep(w), ~FinishRecord(w)
      PROVE  dropped' = dropped
  BY <1>4 DEF Begin, BeginRejected, WorkerStep, StartRecord, SelectionError, PassThrough, Plan,
    PlanRejected, AppendPlan, TargetEnds, Reserve, ReserveRejected, FaultActs, Invoke,
    InvokeRejected, TriggerEnds, Settle, ScoreFails, RecordEvent, FinishCall, logVars, LogBegin
<1>5. ASSUME \/ UNCHANGED vars
             \/ \E amount \in Costs : RecordCost(amount)
             \/ CheckElsewhere \/ TimePasses \/ ExitSession \/ Report
      PROVE  dropped' = dropped
  BY <1>5 DEF RecordCost, CheckElsewhere, TimePasses, ExitSession, Report,
    ReportEvents, ReportSnapshot, ReportCalls, ReportDropped, logVars, vars
<1> QED
  BY <1>1, <1>2, <1>3, <1>4, <1>5 DEF Next

\* The events are read before the injections, and the log before what it dropped.
LEMMA CapturedStep ==
    ASSUME Accounting, Accounting', EvidenceSound, [Next]_vars, ReportTypeOK, Captured,
           LoggedSeqs \subseteq Nat
    PROVE  ReportTypeOK' /\ Captured'
<1>1. /\ injections \in Nat /\ injections' \in Nat /\ dropped \in Nat /\ dropped' \in Nat
      /\ events \in Seq(Nat) /\ Len(events) \in Nat
      /\ injections <= injections' /\ dropped <= dropped'
  BY CountsGrow, LenProperties DEF Accounting, TypeOK, SafetyTypeOK, CallLogTypeOK
<1>2. CASE UNCHANGED report
  BY <1>1, <1>2 DEF ReportTypeOK, Captured
<1>3. CASE ReportEvents
  <2>1. /\ report'.phase = "events" /\ report'.events = Len(events)
        /\ injections' = injections
    BY <1>3, ZenonT(30) DEF ReportEvents, ReportTypeOK, safetyVars
  <2>2. Len(events) <= injections
    <3>1. Cardinality(Recording) \in Nat
      <4>1. IsFiniteSet(Recording)
        BY FS_Subset, ChaosCallsAssumption DEF Recording
      <4> QED
        BY <4>1, FS_CardinalityType
    <3> QED
      BY <1>1, <3>1 DEF EvidenceSound, EventPerInjection, Recording
  <2>3. ReportTypeOK'
    BY <1>1, <1>3 DEF ReportEvents, ReportTypeOK
  <2> QED
    BY <2>1, <2>2, <2>3 DEF Captured
<1>4. CASE ReportSnapshot
  <2>1. /\ report'.phase = "snapshot" /\ report'.events = report.events
        /\ report'.injections = injections /\ report.phase = "events"
    BY <1>4, ZenonT(30) DEF ReportSnapshot, ReportTypeOK
  <2>2. ReportTypeOK'
    BY <1>1, <1>4 DEF ReportSnapshot, ReportTypeOK, Aborted
  <2> QED
    BY <2>1, <2>2 DEF Captured
<1>5. CASE ReportCalls
  <2>1. /\ report'.phase = "calls" /\ report'.events = report.events
        /\ report'.injections = report.injections /\ report.phase = "snapshot"
        /\ report'.calls = LoggedSeqs /\ report'.finished = EndedCalls /\ dropped' = dropped
    BY <1>5, ZenonT(30) DEF ReportCalls, ReportTypeOK, logVars
  <2>2. /\ EndedCalls = Len(records) + dropped /\ Cardinality(LoggedSeqs) = Len(records)
        /\ Len(records) \in Nat
    <3>1. Len(records) \in Nat
      BY LenProperties DEF Accounting, TypeOK, CallLogTypeOK
    <3>2. Cardinality(Logged) \in Nat
      <4>1. IsFiniteSet(Logged)
        BY FS_Subset, ChaosCallsAssumption DEF Logged
      <4> QED
        BY <4>1, FS_CardinalityType
    <3> QED
      BY <1>1, <3>1, <3>2 DEF EvidenceSound, OneRecordPerCall, EndedCalls
  <2>3. ReportTypeOK'
    <3>1. EndedCalls \in Int
      BY <1>1, <2>2
    <3> QED
      BY <1>5, <3>1 DEF ReportCalls, ReportTypeOK
  <2> QED
    BY <1>1, <2>1, <2>2, <2>3 DEF Captured
<1>6. CASE ReportDropped
  <2>1. /\ report'.phase = "done" /\ report'.events = report.events
        /\ report'.injections = report.injections /\ report.phase = "calls"
        /\ report'.calls = report.calls /\ report'.finished = report.finished
        /\ report'.dropped = dropped
    BY <1>6, ZenonT(30) DEF ReportDropped, ReportTypeOK
  <2>2. ReportTypeOK'
    BY <1>1, <1>6 DEF ReportDropped, ReportTypeOK
  <2> QED
    BY <1>1, <2>1, <2>2 DEF Captured
<1>7. CASE \/ UNCHANGED vars
           \/ \E w \in Workers : Begin(w) \/ BeginRejected(w) \/ WorkerStep(w)
           \/ \E amount \in Costs : RecordCost(amount)
           \/ CheckElsewhere \/ TimePasses \/ ExitSession
  <2>1. UNCHANGED report
    BY <1>7 DEF vars, Begin, BeginRejected, WorkerStep, StartRecord, SelectionError, PassThrough,
      Plan, PlanRejected, AppendPlan, TargetEnds, Reserve, ReserveRejected, FaultActs, Invoke,
      InvokeRejected, TriggerEnds, Settle, ScoreFails, RecordEvent, FinishRecord, FinishCall,
      Fail, RecordCost, CheckElsewhere, TimePasses, ExitSession
  <2> QED
    BY <1>2, <2>1
<1> QED
  BY <1>3, <1>4, <1>5, <1>6, <1>7 DEF Next, Report

\* A report captured while workers go on never shows more events than injections,
\* and one that says nothing was dropped has the whole log.
THEOREM ReportsAreConsistent == Spec => []ReportConsistent
<1>1. Init => ReportTypeOK /\ Captured
  BY DEF Init, SafetyInit, NoReport, ReportTypeOK, Captured
<1>2. Accounting => LoggedSeqs \subseteq Nat
  <2>1. ASSUME Accounting, NEW i \in DOMAIN records
        PROVE  records[i].seq \in Nat
    <3>1. records \in Seq(Record) /\ i \in 1 .. Len(records)
      BY <2>1 DEF Accounting, TypeOK, CallLogTypeOK
    <3>2. records[i] \in Record
      BY <3>1, ElementOfSeq
    <3> QED
      BY <3>2 DEF Record
  <2> QED
    BY <2>1 DEF LoggedSeqs
<1>3. Accounting /\ Accounting' /\ EvidenceSound /\ ReportTypeOK /\ Captured /\ [Next]_vars
        => ReportTypeOK' /\ Captured'
  BY <1>2, CapturedStep
<1>4. ReportTypeOK /\ Captured => ReportConsistent
  BY DEF ReportTypeOK, Captured, ReportConsistent
<1> QED
  BY <1>1, <1>3, <1>4, AccountingHolds, EvidenceIsSound, PTL DEF Spec

-------------------------------------------------------------------------------
(* Asynchronous calls implement the synchronous ones.                      *)

\* A step of the thread that serves a task is a step of its call: chaos_call runs
\* there unchanged, and invoke is what the target's step stands for.
LEMMA ThreadStepImplements ==
    ASSUME NEW w \in Workers, ThreadStep(w)
    PROVE  [Next]_vars
<1>1. CASE Enter(w)
  BY <1>1 DEF Enter, Next
<1>2. CASE CallStep(w)
  <2>1. WorkerStep(w)
    BY <1>2 DEF CallStep, WorkerStep
  <2> QED
    BY <2>1 DEF Next
<1>3. CASE Leave(w)
  <2>1. WorkerStep(w)
    BY <1>3 DEF Leave, WorkerStep
  <2> QED
    BY <2>1 DEF Next
<1>4. CASE InvokeCheckRaises(w)
  BY <1>4 DEF InvokeCheckRaises, Next
<1>5. CASE InvokeAbandoned(w) \/ Result(w)
  <2>1. TargetEnds(w) \/ TriggerEnds(w)
    BY <1>5 DEF InvokeAbandoned, Result, InvokeRaises
  <2>2. WorkerStep(w)
    BY <2>1 DEF WorkerStep
  <2> QED
    BY <2>2 DEF Next
<1>6. CASE StartThread(w) \/ InvokeChecked(w) \/ Submit(w) \/ AppendPending(w) \/ Recheck(w)
  BY <1>6 DEF StartThread, InvokeChecked, Submit, AppendPending, Recheck
<1> QED
  BY <1>1, <1>2, <1>3, <1>4, <1>5, <1>6 DEF ThreadStep

\* Every step of the asynchronous calls is a step of ChaosCalls or a stutter. On
\* the loop only dispatch touches the session: its check may abort it.
LEMMA AsyncStepImplements ==
    ASSUME [AsyncNext]_asyncVars
    PROVE  [Next]_vars
<1>1. ASSUME NEW w \in Workers, ThreadStep(w)
      PROVE  [Next]_vars
  BY <1>1, ThreadStepImplements
<1>2. ASSUME NEW w \in Workers,
             CallAsync(w) \/ TargetCoroEnds(w) \/ CancelTask(w) \/ CoroCancelled(w) \/ Deliver(w)
      PROVE  [Next]_vars
  BY <1>2 DEF CallAsync, TargetCoroEnds, CancelTask, CoroCancelled, Deliver
<1>3. ASSUME NEW w \in Workers, DispatchCheck(w) \/ EnterTarget(w)
      PROVE  [Next]_vars
  BY <1>3 DEF DispatchCheck, EnterTarget, Next
<1>4. CASE Environment
  BY <1>4 DEF Environment, Next
<1>5. CASE AllOver \/ UNCHANGED asyncVars
  BY <1>5 DEF AllOver, asyncVars
<1> QED
  BY <1>1, <1>2, <1>3, <1>4, <1>5 DEF AsyncNext, LoopStep

\* chaos_acall keeps the promises of chaos_call (async_call.py: the worker runs
\* chaos_call against the shared safety state and call log): asynchronous calls
\* implement the synchronous ones, however tasks are cancelled.
THEOREM AsyncCallsImplement == AsyncSpec => ImplementsCalls
<1>1. AsyncInit => Init
  BY DEF AsyncInit
<1>2. [AsyncNext]_asyncVars => [Next]_vars
  BY AsyncStepImplements
<1> QED
  BY <1>1, <1>2, PTL DEF AsyncSpec, ImplementsCalls, Spec

\* What is proved of synchronous calls is so proved of asynchronous ones: a
\* cancelled task leaks no in_flight and no reservation, its thread still leaves
\* an event for an injection it committed (in the buffer that is then discarded,
\* see MergedOnce), and no stopped session injects.
THEOREM AsyncCallsAreSound ==
    AsyncSpec => /\ [](CountsExact /\ EvidenceSound /\ AbortSound)
                 /\ StopIsFinal
<1>1. AsyncSpec => Spec
  BY AsyncCallsImplement DEF ImplementsCalls
<1> QED
  BY <1>1, CountsAreExact, EvidenceIsSound, AbortsAreSound, StopHolds, PTL

-----------------------------------------------------------------------------
\* The types of the variables of the task, the thread and invoke.
LoopTypes ==
    /\ task \in [Workers -> {"new", "awaiting", "done", "cancelled"}]
    /\ thread \in [Workers -> {"none", "queued", "entering", "running", "over"}]
    /\ ipc \in [Workers -> {"none", "checked", "raising", "submitted", "appended", "waiting"}]
    /\ cancelled \in [Workers -> BOOLEAN]
    /\ pending \in [Workers -> BOOLEAN]
    /\ fut \in [Workers -> {"none", "pending", "ok", "error", "cancelled"}]
    /\ coro \in [Workers -> {"none", "scheduled", "checked", "running", "ended"}]
    /\ late \subseteq Workers

\* The variables of the task, the thread and invoke keep their types.
LEMMA LoopTypesStep ==
    ASSUME LoopTypes, [AsyncNext]_asyncVars
    PROVE  LoopTypes'
<1>1. ASSUME NEW w \in Workers, Enter(w) \/ CallStep(w) \/ Leave(w) \/ StartThread(w)
      PROVE  LoopTypes'
  BY <1>1 DEF LoopTypes, Enter, CallStep, Leave, StartThread, loopVars, invokeVars
<1>2. ASSUME NEW w \in Workers,
             \/ InvokeChecked(w) \/ InvokeCheckRaises(w) \/ InvokeAbandoned(w) \/ Submit(w)
             \/ AppendPending(w) \/ Result(w)
      PROVE  LoopTypes'
  BY <1>2 DEF LoopTypes, InvokeChecked, InvokeCheckRaises, InvokeAbandoned, Submit, AppendPending, Result,
    loopVars
<1>3. ASSUME NEW w \in Workers, Recheck(w) \/ TargetCoroEnds(w) \/ CoroCancelled(w)
      PROVE  LoopTypes'
  BY <1>3 DEF LoopTypes, Recheck, CancelFuture, TargetCoroEnds, CoroCancelled, loopVars
<1>4. ASSUME NEW w \in Workers, DispatchCheck(w) \/ EnterTarget(w)
      PROVE  LoopTypes'
  BY <1>4 DEF LoopTypes, DispatchCheck, EnterTarget, CancelFuture, loopVars
<1>5. ASSUME NEW w \in Workers, CallAsync(w) \/ CancelTask(w) \/ Deliver(w)
      PROVE  LoopTypes'
  BY <1>5 DEF LoopTypes, CallAsync, CancelTask, CancelFuture, Deliver, invokeVars
<1>6. CASE Environment \/ AllOver \/ UNCHANGED asyncVars
  BY <1>6 DEF LoopTypes, Environment, AllOver, asyncVars, loopVars, invokeVars
<1> QED
  BY <1>1, <1>2, <1>3, <1>4, <1>5, <1>6 DEF AsyncNext, ThreadStep, LoopStep

-----------------------------------------------------------------------------
(* Dispatch and the target                                                 *)

\* What a loop thread that runs one callback at a time owes to the late entries: the
\* one dispatch between its check and its target is the one that can be late, and once
\* it has been no other passes its check.
DispatchInv ==
    /\ \A v, w \in Workers : coro[v] = "checked" /\ coro[w] = "checked" => v = w
    /\ \A v, w \in late : v = w
    /\ late # {} => ~CheckOk /\ LoopFree

\* What a thread owes to the coroutine it has submitted: a future that a cancellation
\* still reaches, at the latest by the thread's second look at the cancelled event.
FutureInv ==
    \A w \in Workers :
        /\ coro[w] \in {"scheduled", "checked", "running"} =>
              /\ fut[w] \in {"pending", "cancelled"}
              /\ pending[w] \/ ipc[w] = "submitted"
        /\ cancelled[w] /\ coro[w] = "running" =>
              fut[w] = "cancelled" \/ ipc[w] \in {"submitted", "appended"}

\* A check that raises raises for good.
LEMMA CheckStaysShut ==
    ASSUME Accounting, Accounting', [Next]_vars, ~CheckOk
    PROVE  ~CheckOk'
<1>1. SafetyStep
  BY NextIsSafetyStep
<1>2. (closed => closed') /\ (expired => expired')
  BY <1>1 DEF SafetyStep, safetyVars, CheckRaises, ReserveRaises, BeginOk, ReserveOk, Complete,
              RecordCostOk, Finish, Expire, CloseSafety, accounting
<1>3. Aborted => abort' = abort
  BY <1>1, StoppedSafetyStep DEF Stopped
<1> QED
  BY <1>2, <1>3 DEF CheckOk, Aborted

\* Only the two steps of dispatch and the loop's own say who is between the two.
LEMMA OtherStepsKeepLate ==
    ASSUME LoopTypes, [AsyncNext]_asyncVars,
           \A w \in Workers : ~DispatchCheck(w) /\ ~EnterTarget(w)
    PROVE  /\ late' = late
           /\ \A w \in Workers : coro'[w] = "checked" => coro[w] = "checked"
<1>1. ASSUME NEW w \in Workers, ThreadStep(w), ~Submit(w)
      PROVE  UNCHANGED <<late, coro>>
  BY <1>1 DEF ThreadStep, StartThread, Enter, CallStep, Leave, InvokeChecked, InvokeCheckRaises,
    InvokeAbandoned, AppendPending, Recheck, Result, invokeVars, loopVars
<1>2. ASSUME NEW w \in Workers, CallAsync(w) \/ CancelTask(w) \/ Deliver(w)
      PROVE  UNCHANGED <<late, coro>>
  BY <1>2 DEF CallAsync, CancelTask, Deliver, invokeVars
<1>3. CASE Environment \/ AllOver \/ UNCHANGED asyncVars
  BY <1>3 DEF Environment, AllOver, asyncVars, invokeVars, loopVars
<1>4. ASSUME NEW w \in Workers, Submit(w) \/ TargetCoroEnds(w) \/ CoroCancelled(w)
      PROVE  /\ late' = late
             /\ \A v \in Workers : coro'[v] = "checked" => coro[v] = "checked"
  BY <1>4 DEF LoopTypes, Submit, TargetCoroEnds, CoroCancelled, loopVars
<1> QED
  BY <1>1, <1>2, <1>3, <1>4 DEF AsyncNext, LoopStep

\* A target is late when the stop fell between its check and its entry, and then no
\* other dispatch is on the loop, nor passes its check later.
LEMMA DispatchStep ==
    ASSUME Accounting, Accounting', LoopTypes, DispatchInv, [AsyncNext]_asyncVars
    PROVE  DispatchInv'
<1>1. ~CheckOk => ~CheckOk'
  BY AsyncStepImplements, CheckStaysShut
<1>2. ASSUME late' = late, \A w \in Workers : coro'[w] = "checked" => coro[w] = "checked"
      PROVE  DispatchInv'
  BY <1>1, <1>2 DEF DispatchInv, LoopFree
<1>3. ASSUME NEW w \in Workers, EnterTarget(w)
      PROVE  DispatchInv'
  <2>1. /\ coro[w] = "checked" /\ UNCHANGED vars
        /\ \A v \in Workers : coro'[v] = IF v = w THEN coro'[w] ELSE coro[v]
        /\ coro'[w] # "checked"
    BY <1>3 DEF EnterTarget, LoopTypes
  <2>2. late = {}
    BY <2>1 DEF DispatchInv, LoopFree
  <2>3. late' = {} \/ (late' = {w} /\ ~CheckOk)
    BY <1>3, <2>2 DEF EnterTarget
  <2>4. \A v \in Workers : coro'[v] # "checked"
    BY <2>1 DEF DispatchInv
  <2> QED
    BY <1>1, <2>3, <2>4 DEF DispatchInv, LoopFree
<1>4. ASSUME NEW w \in Workers, DispatchCheck(w)
      PROVE  DispatchInv'
  <2>1. late' = late
    BY <1>4 DEF DispatchCheck, loopVars
  <2>2. CASE CheckOk /\ coro' = [coro EXCEPT ![w] = "checked"]
    <3>1. late = {}
      BY <2>2 DEF DispatchInv
    <3>2. \A v \in Workers : coro'[v] = "checked" => v = w
      BY <1>4, <2>2 DEF DispatchCheck, LoopFree, LoopTypes
    <3> QED
      BY <2>1, <3>1, <3>2 DEF DispatchInv
  <2>3. CASE coro' = [coro EXCEPT ![w] = "ended"]
    BY <1>2, <2>1, <2>3 DEF LoopTypes
  <2> QED
    BY <1>4, <2>2, <2>3 DEF DispatchCheck
<1> QED
  BY <1>2, <1>3, <1>4, OtherStepsKeepLate

\* Whoever sets the cancelled event or looks at it, no running target is forgotten.
LEMMA FutureStep ==
    ASSUME LoopTypes, FutureInv, [AsyncNext]_asyncVars
    PROVE  FutureInv'
<1>1. ASSUME UNCHANGED <<cancelled, pending, fut, coro, ipc>>
      PROVE  FutureInv'
  BY <1>1 DEF FutureInv
<1>2. ASSUME NEW w \in Workers, Enter(w) \/ CallStep(w) \/ Leave(w) \/ StartThread(w)
      PROVE  FutureInv'
  BY <1>1, <1>2 DEF Enter, CallStep, Leave, StartThread, loopVars, invokeVars
<1>3. ASSUME NEW w \in Workers,
             InvokeChecked(w) \/ InvokeCheckRaises(w) \/ InvokeAbandoned(w) \/ Result(w)
      PROVE  FutureInv'
  <2>1. UNCHANGED <<cancelled, pending, fut, coro>>
    BY <1>3 DEF InvokeChecked, InvokeCheckRaises, InvokeAbandoned, Result, loopVars
  <2>2. /\ ipc[w] \in {"none", "raising", "waiting"}
        /\ \A v \in Workers : v # w => ipc'[v] = ipc[v]
    BY <1>3 DEF InvokeChecked, InvokeCheckRaises, InvokeAbandoned, Result, LoopTypes
  <2> QED
    BY <2>1, <2>2 DEF FutureInv
<1>4. ASSUME NEW w \in Workers, Submit(w)
      PROVE  FutureInv'
  BY <1>4 DEF FutureInv, LoopTypes, Submit, loopVars
<1>5. ASSUME NEW w \in Workers, AppendPending(w)
      PROVE  FutureInv'
  BY <1>5 DEF FutureInv, LoopTypes, AppendPending, loopVars
<1>6. ASSUME NEW w \in Workers, Recheck(w)
      PROVE  FutureInv'
  BY <1>6 DEF FutureInv, LoopTypes, Recheck, CancelFuture, loopVars
<1>7. ASSUME NEW w \in Workers, DispatchCheck(w)
      PROVE  FutureInv'
  BY <1>7 DEF FutureInv, LoopTypes, DispatchCheck, loopVars
<1>8. ASSUME NEW w \in Workers, EnterTarget(w)
      PROVE  FutureInv'
  BY <1>8 DEF FutureInv, LoopTypes, EnterTarget, CancelFuture
<1>9. ASSUME NEW w \in Workers, TargetCoroEnds(w) \/ CoroCancelled(w)
      PROVE  FutureInv'
  BY <1>9 DEF FutureInv, LoopTypes, TargetCoroEnds, CoroCancelled, loopVars
<1>10. ASSUME NEW w \in Workers, CancelTask(w)
       PROVE  FutureInv'
  BY <1>10 DEF FutureInv, LoopTypes, CancelTask, CancelFuture
<1>11. ASSUME NEW w \in Workers, CallAsync(w) \/ Deliver(w)
       PROVE  FutureInv'
  BY <1>1, <1>11 DEF CallAsync, Deliver, invokeVars
<1>12. CASE Environment \/ AllOver \/ UNCHANGED asyncVars
  BY <1>1, <1>12 DEF Environment, AllOver, asyncVars, loopVars, invokeVars
<1> QED
  BY <1>2, <1>3, <1>4, <1>5, <1>6, <1>7, <1>8, <1>9, <1>10, <1>11, <1>12
  DEF AsyncNext, ThreadStep, LoopStep

\* At most one target is entered after the session has aborted, ended or outlived its
\* duration, however many coroutines were queued on the loop, and a target that runs
\* for a cancelled task is about to be cancelled (async_call.py: dispatch checks again,
\* and invoke looks again once the future is published).
THEOREM NoLateEntry == AsyncSpec => []NoLateDispatch
<1>1. AsyncInit => LoopTypes /\ DispatchInv /\ FutureInv
  BY DEF AsyncInit, LoopTypes, DispatchInv, FutureInv
<1>2. Accounting /\ Accounting' /\ LoopTypes /\ DispatchInv /\ FutureInv /\ [AsyncNext]_asyncVars
        => LoopTypes' /\ DispatchInv' /\ FutureInv'
  BY LoopTypesStep, DispatchStep, FutureStep
<1>3. AsyncSpec => []Accounting
  BY AsyncCallsImplement, AccountingHolds, PTL DEF ImplementsCalls
<1>4. DispatchInv /\ FutureInv => NoLateDispatch
  BY DEF DispatchInv, FutureInv, NoLateDispatch
<1> QED
  BY <1>1, <1>2, <1>3, <1>4, PTL DEF AsyncSpec

-----------------------------------------------------------------------------
(* The buffers of the calls, merged into the session                       *)

\* The places of a call before its event, if it has one, is in the buffer.
Unrecorded == {"selecting", "planning", "calling", "reserved", "invoking", "settling", "recording"}

\* Where a call is, by its task and its thread: the task gets its answer from a thread
\* that is over, and a thread makes one call.
Hosted ==
    \A w \in Workers :
        /\ pc[w] # "idle" => thread[w] = "running"
        /\ task[w] = "new" => thread[w] = "none"
        /\ task[w] = "done" => thread[w] = "over"

\* No two tasks have the same number, and no call leaves two events.
Numbered ==
    /\ \A w \in Workers : seq[w] \in 0..sequence /\ (pc[w] \notin {"idle", "admitted"} => seq[w] # 0)
    /\ \A v, w \in Workers : v # w /\ seq[v] = seq[w] => seq[w] = 0
    /\ \A i \in DOMAIN events : events[i] \in 1..sequence
    /\ \A i \in DOMAIN planned : planned[i] \in 1..sequence
    /\ \A i, j \in DOMAIN events : events[i] = events[j] => i = j
    /\ \A w \in Workers : pc[w] \in Unrecorded => \A i \in DOMAIN events : events[i] # seq[w]

\* How often a number stands in a log.
Places(log, s) == {j \in DOMAIN log : log[j] = s}

\* What has reached the session is of calls that are done, and is all they left.
MergedIn(tasks, seqs, target, log) ==
    /\ target \in Seq(Nat)
    /\ \A i \in DOMAIN target :
          \E w \in Workers : tasks[w] = "done" /\ seqs[w] = target[i] /\ seqs[w] # 0
    /\ \A w \in Workers : tasks[w] = "done" =>
          Cardinality(Places(target, seqs[w])) = Cardinality(Places(log, seqs[w]))

MergeInv ==
    /\ LoopTypes /\ Hosted /\ Numbered
    /\ MergedIn(task, seq, merged, events) /\ MergedIn(task, seq, mergedPlan, planned)
    /\ \A i, j \in DOMAIN merged : merged[i] = merged[j] => i = j

\* What a step does, as far as the buffers are concerned.
numbers == <<seq, sequence, events, planned>>
hosts == <<task, thread>>
real == <<merged, mergedPlan>>

GoesOn(w) ==
    /\ UNCHANGED <<numbers, hosts, real>> /\ pc[w] # "idle"
    /\ \E l \in PC \ {"idle"} :
          /\ pc' = [pc EXCEPT ![w] = l]
          /\ l \in Unrecorded => pc[w] \in Unrecorded
          /\ l = "admitted" => pc[w] = "admitted"
          /\ pc[w] # "admitted"
Hands(w) ==
    /\ UNCHANGED <<numbers, real>>
    /\ \/ /\ UNCHANGED pc /\ task[w] # "done" /\ pc[w] = "idle"
          /\ \E t \in {"awaiting", "cancelled"} : task' = [task EXCEPT ![w] = t]
          /\ \E h \in {"queued", "over"} : thread' = [thread EXCEPT ![w] = h]
       \/ /\ UNCHANGED <<pc, thread>> /\ task[w] = "awaiting" /\ task' = [task EXCEPT ![w] = "cancelled"]
       \/ /\ UNCHANGED <<pc, task>> /\ thread[w] \in {"queued", "entering"}
          /\ \E h \in {"entering", "over"} : thread' = [thread EXCEPT ![w] = h]
       \/ /\ UNCHANGED task /\ thread[w] = "entering" /\ thread' = [thread EXCEPT ![w] = "running"]
          /\ pc' = [pc EXCEPT ![w] = "admitted"]
       \/ /\ UNCHANGED task /\ pc[w] # "idle" /\ thread' = [thread EXCEPT ![w] = "over"]
          /\ pc' = [pc EXCEPT ![w] = "idle"]

LEMMA BufferSteps ==
    ASSUME Accounting, Hosted, LoopTypes, [AsyncNext]_asyncVars
    PROVE  \/ UNCHANGED <<pc, numbers, hosts, real>>
           \/ \E w \in Workers : GoesOn(w) \/ Hands(w)
           \/ \E w \in Workers : StartRecord(w) /\ UNCHANGED <<hosts, real>>
           \/ \E w \in Workers : AppendPlan(w) /\ UNCHANGED <<hosts, real>>
           \/ \E w \in Workers : RecordEvent(w) /\ UNCHANGED <<hosts, real>>
           \/ \E w \in Workers : Deliver(w)
<1>1. ASSUME NEW w \in Workers, CallStep(w)
      PROVE  \/ GoesOn(w)
             \/ (StartRecord(w) \/ AppendPlan(w) \/ RecordEvent(w)) /\ UNCHANGED <<hosts, real>>
  <2>1. CASE StartRecord(w) \/ AppendPlan(w) \/ RecordEvent(w)
    BY <1>1, <2>1 DEF CallStep, hosts, real, loopVars
  <2>2. ASSUME \/ SelectionError(w) \/ PassThrough(w)
               \/ Plan(w) \/ PlanRejected(w)
               \/ Reserve(w) \/ ReserveRejected(w)
               \/ FaultActs(w) \/ Invoke(w) \/ InvokeRejected(w)
               \/ Settle(w) \/ ScoreFails(w)
               \/ FinishRecord(w)
        PROVE  GoesOn(w)
    <3>1. /\ UNCHANGED <<seq, sequence, events, planned>> /\ pc[w] \notin {"idle", "admitted"}
          /\ \E l \in PC \ {"idle"} :
                /\ pc' = [pc EXCEPT ![w] = l]
                /\ l \in Unrecorded => pc[w] \in Unrecorded
                /\ l # "admitted"
      BY <2>2 DEF SelectionError, PassThrough, Plan, PlanRejected, Reserve, ReserveRejected, FaultActs,
        Invoke, InvokeRejected, Settle, ScoreFails, FinishRecord, LogFinish, Fail, Goto, logVars, sessionVars,
        PC, Unrecorded
    <3> QED
      BY <1>1, <3>1 DEF GoesOn, CallStep, numbers, hosts, real, loopVars
  <2> QED
    BY <1>1, <2>1, <2>2 DEF CallStep
<1>2. ASSUME NEW w \in Workers, InvokeAbandoned(w) \/ Result(w)
      PROVE  GoesOn(w)
  <2>1. TargetEnds(w) \/ TriggerEnds(w)
    BY <1>2 DEF InvokeAbandoned, Result, InvokeRaises
  <2>2. /\ UNCHANGED numbers /\ pc[w] \in {"calling", "invoking"}
        /\ \E l \in {"logging", "settling"} : pc' = [pc EXCEPT ![w] = l]
    BY <2>1 DEF TargetEnds, TriggerEnds, Goto, numbers, logVars, sessionVars
  <2>3. UNCHANGED <<hosts, real>>
    BY <1>2 DEF InvokeAbandoned, Result, hosts, real, loopVars
  <2> QED
    BY <2>2, <2>3 DEF GoesOn, PC, Unrecorded
<1>3. ASSUME NEW w \in Workers, Enter(w) \/ Leave(w)
      PROVE  Hands(w)
  <2>1. CASE Begin(w) /\ Enter(w) /\ thread' = [thread EXCEPT ![w] = "running"]
    BY <2>1 DEF Enter, Begin, Hands, Goto, numbers, real, loopVars, logVars, sessionVars
  <2>2. CASE BeginRejected(w) /\ Enter(w) /\ thread' = [thread EXCEPT ![w] = "over"]
    BY <2>2 DEF Enter, BeginRejected, Hands, numbers, real, loopVars, logVars, sessionVars, workerVars
  <2>3. CASE Leave(w)
    BY <2>3 DEF Leave, FinishCall, Hands, Goto, numbers, real, loopVars, logVars, sessionVars
  <2> QED
    BY <1>3, <2>1, <2>2, <2>3 DEF Enter
<1>4. ASSUME NEW w \in Workers, StartThread(w) \/ CallAsync(w) \/ CancelTask(w)
      PROVE  Hands(w)
  <2>1. UNCHANGED <<pc, numbers, real>>
    BY <1>4 DEF StartThread, CallAsync, CancelTask, numbers, real, loopVars, vars, logVars, sessionVars, workerVars
  <2>2. CASE StartThread(w)
    BY <2>1, <2>2 DEF StartThread, Hands, loopVars
  <2>3. CASE CallAsync(w)
    BY <2>1, <2>3 DEF CallAsync, Hands, Hosted
  <2>4. CASE CancelTask(w)
    <3>1. CASE thread[w] = "queued"
      BY <2>1, <2>4, <3>1 DEF CancelTask, Hands, Hosted
    <3>2. CASE thread[w] # "queued"
      BY <2>1, <2>4, <3>2 DEF CancelTask, Hands
    <3> QED
      BY <3>1, <3>2
  <2> QED
    BY <1>4, <2>2, <2>3, <2>4
<1>5. ASSUME NEW w \in Workers,
             \/ InvokeChecked(w) \/ InvokeCheckRaises(w) \/ Submit(w) \/ AppendPending(w) \/ Recheck(w)
             \/ DispatchCheck(w) \/ EnterTarget(w) \/ TargetCoroEnds(w) \/ CoroCancelled(w)
      PROVE  UNCHANGED <<pc, numbers, hosts, real>>
  BY <1>5 DEF InvokeChecked, InvokeCheckRaises, Submit, AppendPending, Recheck, DispatchCheck,
    EnterTarget, TargetCoroEnds, CoroCancelled, CheckElsewhere, numbers, hosts, real, loopVars, vars, logVars, sessionVars, workerVars
<1>6. ASSUME Environment \/ AllOver \/ UNCHANGED asyncVars
      PROVE  UNCHANGED <<pc, numbers, hosts, real>>
  BY <1>6 DEF Environment, RecordCost, TimePasses, ExitSession, AllOver, asyncVars, numbers, hosts, real,
    loopVars, vars, logVars, sessionVars, workerVars
<1> QED
  BY <1>1, <1>2, <1>3, <1>4, <1>5, <1>6 DEF AsyncNext, ThreadStep, LoopStep

LEMMA HostedStep ==
    ASSUME Accounting, Hosted, LoopTypes, [AsyncNext]_asyncVars
    PROVE  Hosted'
<1>1. pc \in [Workers -> PC] /\ task \in [Workers -> {"new", "awaiting", "done", "cancelled"}]
      /\ thread \in [Workers -> {"none", "queued", "entering", "running", "over"}]
  BY DEF Accounting, TypeOK, LoopTypes
<1>2. ASSUME NEW w \in Workers, GoesOn(w) PROVE Hosted'
  BY <1>1, <1>2 DEF Hosted, GoesOn, hosts
<1>3. ASSUME NEW w \in Workers, Hands(w) PROVE Hosted'
  BY <1>1, <1>3 DEF Hosted, Hands
<1>4. ASSUME NEW w \in Workers, StartRecord(w) \/ AppendPlan(w) \/ RecordEvent(w), UNCHANGED hosts
      PROVE  Hosted'
  BY <1>1, <1>4 DEF Hosted, hosts, StartRecord, AppendPlan, RecordEvent, Goto
<1>5. ASSUME NEW w \in Workers, Deliver(w) PROVE Hosted'
  BY <1>1, <1>5 DEF Hosted, Deliver, vars, workerVars
<1>6. ASSUME UNCHANGED <<pc, numbers, hosts, real>> PROVE Hosted'
  BY <1>6 DEF Hosted, hosts
<1> QED
  BY <1>2, <1>3, <1>4, <1>5, <1>6, BufferSteps

LEMMA AppendEntries ==
    ASSUME NEW s \in Seq(Nat), NEW x \in Nat
    PROVE  /\ Append(s, x) \in Seq(Nat) /\ DOMAIN s = 1..Len(s) /\ Len(s) \in Nat
           /\ DOMAIN Append(s, x) = 1..Len(s) + 1
           /\ \A i \in DOMAIN s : Append(s, x)[i] = s[i]
           /\ Append(s, x)[Len(s) + 1] = x
  BY AppendProperties, LenProperties

LEMMA NumberedStep ==
    ASSUME Accounting, Hosted, Numbered, LoopTypes, [AsyncNext]_asyncVars
    PROVE  Numbered'
<1>1. /\ pc \in [Workers -> PC] /\ seq \in [Workers -> Nat] /\ sequence \in Nat
      /\ events \in Seq(Nat) /\ planned \in Seq(Nat)
  BY DEF Accounting, TypeOK, CallLogTypeOK
<1>2. ASSUME NEW w \in Workers, GoesOn(w) PROVE Numbered'
  <2>1. PICK l \in PC : /\ l # "idle" /\ pc' = [pc EXCEPT ![w] = l] /\ pc[w] \notin {"idle", "admitted"}
                        /\ l \in Unrecorded => pc[w] \in Unrecorded
    BY <1>2 DEF GoesOn
  <2>2. \A v \in Workers : /\ pc'[v] \notin {"idle", "admitted"} => pc[v] \notin {"idle", "admitted"}
                           /\ pc'[v] \in Unrecorded => pc[v] \in Unrecorded
    BY <1>1, <2>1
  <2> QED
    BY <1>2, <2>2 DEF Numbered, GoesOn, numbers
<1>3. ASSUME NEW w \in Workers, Hands(w) PROVE Numbered'
  <2>1. \A v \in Workers : /\ pc'[v] \notin {"idle", "admitted"} => pc[v] \notin {"idle", "admitted"}
                           /\ pc'[v] \in Unrecorded => pc[v] \in Unrecorded
    BY <1>1, <1>3 DEF Hands, Unrecorded
  <2> QED
    BY <1>3, <2>1 DEF Numbered, Hands, numbers
<1>4. ASSUME NEW w \in Workers, StartRecord(w) PROVE Numbered'
  <2>1. /\ sequence' = sequence + 1 /\ seq' = [seq EXCEPT ![w] = sequence + 1]
        /\ events' = events /\ planned' = planned /\ pc[w] = "admitted"
        /\ pc' = [pc EXCEPT ![w] = "selecting"]
    BY <1>4 DEF StartRecord, LogBegin, Goto, sessionVars
  <2>2. seq'[w] = sequence + 1 /\ \A v \in Workers : v # w => seq'[v] = seq[v] /\ pc'[v] = pc[v]
    BY <1>1, <2>1
  <2>3. \A v \in Workers : seq'[v] \in 0..sequence' /\ (pc'[v] \notin {"idle", "admitted"} => seq'[v] # 0)
    BY <1>1, <2>1, <2>2 DEF Numbered
  <2>4. \A u, v \in Workers : u # v /\ seq'[u] = seq'[v] => seq'[v] = 0
    BY <1>1, <2>1, <2>2 DEF Numbered
  <2>5. /\ \A i \in DOMAIN events' : events'[i] \in 1..sequence' /\ events'[i] # sequence + 1
        /\ \A i \in DOMAIN planned' : planned'[i] \in 1..sequence'
    BY <1>1, <2>1 DEF Numbered
  <2>6. \A v \in Workers : pc'[v] \in Unrecorded => \A i \in DOMAIN events' : events'[i] # seq'[v]
    BY <2>1, <2>2, <2>5 DEF Numbered
  <2> QED
    BY <2>1, <2>3, <2>4, <2>5, <2>6 DEF Numbered
<1>5. ASSUME NEW w \in Workers, AppendPlan(w) PROVE Numbered'
  <2>1. /\ UNCHANGED <<sequence, seq, events>> /\ planned' = Append(planned, seq[w]) /\ pc[w] = "planning"
        /\ pc' = [pc EXCEPT ![w] = "calling"]
    BY <1>5 DEF AppendPlan, Goto, logVars
  <2>2. seq[w] \in 1..sequence
    <3>1. pc[w] \notin {"idle", "admitted"} /\ seq[w] \in 0..sequence
      BY <2>1 DEF Numbered
    <3>2. seq[w] # 0
      BY <3>1 DEF Numbered
    <3> QED
      BY <1>1, <3>1, <3>2
  <2>3. \A i \in DOMAIN planned' : planned'[i] \in 1..sequence
    BY <1>1, <2>1, <2>2, AppendEntries DEF Numbered
  <2>4. \A v \in Workers : /\ pc'[v] \notin {"idle", "admitted"} => pc[v] \notin {"idle", "admitted"}
                           /\ pc'[v] \in Unrecorded => pc[v] \in Unrecorded
    BY <1>1, <2>1 DEF Unrecorded
  <2> QED
    BY <2>1, <2>3, <2>4 DEF Numbered
<1>6. ASSUME NEW w \in Workers, RecordEvent(w) PROVE Numbered'
  <2>1. /\ UNCHANGED <<sequence, seq, planned>> /\ events' = Append(events, seq[w]) /\ pc[w] = "recording"
        /\ pc' = [pc EXCEPT ![w] = "logging"]
    BY <1>6 DEF RecordEvent, Goto, logVars
  <2>2. seq[w] \in 1..sequence /\ \A i \in DOMAIN events : events[i] # seq[w]
    <3>1. /\ pc[w] \notin {"idle", "admitted"} /\ seq[w] \in 0..sequence
          /\ \A i \in DOMAIN events : events[i] # seq[w]
      BY <2>1 DEF Numbered, Unrecorded
    <3>2. seq[w] # 0
      BY <3>1 DEF Numbered
    <3> QED
      BY <1>1, <3>1, <3>2
  <2>3. /\ DOMAIN events = 1..Len(events) /\ Len(events) \in Nat /\ DOMAIN events' = 1..Len(events) + 1
        /\ \A i \in DOMAIN events : events'[i] = events[i]
        /\ events'[Len(events) + 1] = seq[w]
    BY <1>1, <2>1, AppendEntries
  <2>4. \A i \in DOMAIN events' : i \in DOMAIN events \/ i = Len(events) + 1
    BY <2>3
  <2>5. \A i \in DOMAIN events' : events'[i] \in 1..sequence
    BY <2>2, <2>3, <2>4 DEF Numbered
  <2>6. \A i, j \in DOMAIN events' : events'[i] = events'[j] => i = j
    BY <2>2, <2>3, <2>4 DEF Numbered
  <2>7. ASSUME NEW v \in Workers, pc'[v] \in Unrecorded, NEW i \in DOMAIN events'
        PROVE  events'[i] # seq[v]
    <3>1. v # w /\ pc[v] \in Unrecorded /\ seq[v] # 0 /\ seq[w] # seq[v]
      BY <1>1, <2>1, <2>2, <2>7 DEF Numbered, Unrecorded
    <3> QED
      BY <2>3, <2>4, <3>1 DEF Numbered
  <2>8. \A v \in Workers : pc'[v] \notin {"idle", "admitted"} => pc[v] \notin {"idle", "admitted"}
    BY <1>1, <2>1
  <2> QED
    BY <2>1, <2>5, <2>6, <2>7, <2>8 DEF Numbered
<1>7. ASSUME NEW w \in Workers, Deliver(w) PROVE Numbered'
  BY <1>7 DEF Numbered, Deliver, vars, workerVars, logVars, sessionVars
<1>8. ASSUME UNCHANGED <<pc, numbers, hosts, real>> PROVE Numbered'
  BY <1>8 DEF Numbered, numbers
<1> QED
  BY <1>2, <1>3, <1>4, <1>5, <1>6, <1>7, <1>8, BufferSteps

-----------------------------------------------------------------------------

LEMMA PlacesCount ==
    ASSUME NEW log \in Seq(Nat), NEW s
    PROVE  Cardinality(Places(log, s)) \in Nat /\ IsFiniteSet(Places(log, s))
           /\ (Cardinality(Places(log, s)) = 0 <=> Places(log, s) = {})
<1>1. Places(log, s) \subseteq 1..Len(log) /\ Len(log) \in Nat
  BY LenProperties DEF Places
<1>2. IsFiniteSet(1..Len(log))
  BY <1>1, FS_Interval
<1> QED
  BY <1>1, <1>2, FS_Subset, FS_CardinalityType, FS_EmptySet

LEMMA AppendOther ==
    ASSUME NEW log \in Seq(Nat), NEW x \in Nat, NEW s, x # s
    PROVE  Places(Append(log, x), s) = Places(log, s)
  BY AppendEntries DEF Places

\* b is a buffer of c entries, all of call s.
Entries(b, c, s) == b \in Seq(Nat) /\ Len(b) = c /\ (\A i \in DOMAIN b : b[i] = s)

\* m is the target with the buffer behind it.
Joined(m, target, b) == m = target \o b

\* A log to which the entries of one call are added.
LEMMA MergeEntries ==
    ASSUME NEW target \in Seq(Nat), NEW c \in Nat, NEW s \in Nat,
           NEW b, Entries(b, c, s), NEW m, Joined(m, target, b)
    PROVE  /\ m \in Seq(Nat)
           /\ \A i \in DOMAIN m : \/ i \in DOMAIN target /\ m[i] = target[i]
                                  \/ i \in Len(target) + 1..Len(target) + c /\ m[i] = s
           /\ \A x : x # s => Places(m, x) = Places(target, x)
           /\ Places(target, s) = {} => Cardinality(Places(m, s)) = c
           /\ c = 0 => m = target
<1>1. /\ b \in Seq(Nat) /\ Len(b) = c /\ (\A i \in 1..c : b[i] = s)
      /\ Len(target) \in Nat /\ DOMAIN target = 1..Len(target)
  BY LenProperties DEF Entries
<1>2. /\ m \in Seq(Nat) /\ Len(m) = Len(target) + c
      /\ \A i \in 1..Len(m) : m[i] = IF i <= Len(target) THEN target[i] ELSE b[i - Len(target)]
  BY <1>1, ConcatProperties DEF Joined
<1>3. DOMAIN m = 1..Len(target) + c
  BY <1>2, LenProperties
<1>4. ASSUME NEW i \in DOMAIN m
      PROVE  \/ i \in DOMAIN target /\ m[i] = target[i]
             \/ i \in Len(target) + 1..Len(target) + c /\ m[i] = s
  <2>1. CASE i <= Len(target)
    BY <1>1, <1>2, <1>3, <2>1
  <2>2. CASE ~(i <= Len(target))
    <3>1. i - Len(target) \in 1..c /\ m[i] = b[i - Len(target)]
      BY <1>1, <1>2, <1>3, <2>2
    <3> QED
      BY <1>1, <1>3, <2>2, <3>1
  <2> QED
    BY <2>1, <2>2
<1>5. \A i \in DOMAIN target : i \in DOMAIN m /\ m[i] = target[i]
  BY <1>1, <1>2, <1>3
<1>6. \A x : x # s => Places(m, x) = Places(target, x)
  BY <1>4, <1>5 DEF Places
<1>7. ASSUME Places(target, s) = {}
      PROVE  Cardinality(Places(m, s)) = c
  <2>1. \A i \in Len(target) + 1..Len(target) + c : i \in DOMAIN m /\ i \notin DOMAIN target
    BY <1>1, <1>3
  <2>2. Places(m, s) = Len(target) + 1..Len(target) + c
    BY <1>4, <1>5, <1>7, <2>1 DEF Places
  <2>3. Cardinality(Len(target) + 1..Len(target) + c) = c
    <3>1. PICK x, y : x = Len(target) + 1 /\ y = Len(target) + c /\ x \in Int /\ y \in Int
      BY <1>1
    <3>2. Cardinality(x..y) = IF x > y THEN 0 ELSE y - x + 1
      BY <3>1, FS_Interval
    <3> QED
      BY <1>1, <3>1, <3>2
  <2> QED
    BY <2>2, <2>3
<1>8. ASSUME c = 0 PROVE m = target
  <2>1. Len(m) = Len(target) /\ \A i \in 1..Len(m) : m[i] = target[i]
    BY <1>1, <1>2, <1>8
  <2> QED
    BY <1>2, <2>1, SeqEqual
<1> QED
  BY <1>2, <1>4, <1>6, <1>7, <1>8

LEMMA MergedStays ==
    ASSUME NEW tasks, NEW tasks2, NEW seqs, NEW seqs2, NEW target, NEW log, NEW log2,
           MergedIn(tasks, seqs, target, log),
           \A w \in Workers : tasks2[w] = "done" <=> tasks[w] = "done",
           \A w \in Workers : tasks[w] = "done" =>
              seqs2[w] = seqs[w] /\ Places(log2, seqs[w]) = Places(log, seqs[w])
    PROVE  MergedIn(tasks2, seqs2, target, log2)
  BY DEF MergedIn

LEMMA MergedGrows ==
    ASSUME NEW tasks, DOMAIN tasks = Workers, NEW seqs \in [Workers -> Nat], NEW target, NEW log \in Seq(Nat),
           MergedIn(tasks, seqs, target, log), NEW w \in Workers, tasks[w] # "done",
           \A u, v \in Workers : u # v /\ seqs[u] = seqs[v] => seqs[v] = 0,
           \A i \in DOMAIN log : log[i] # 0,
           NEW b, Entries(b, Cardinality(Places(log, seqs[w])), seqs[w]),
           NEW target2, Joined(target2, target, b)
    PROVE  /\ MergedIn([tasks EXCEPT ![w] = "done"], seqs, target2, log)
           /\ Places(target, seqs[w]) = {}
<1>1. PICK c, s : c = Cardinality(Places(log, seqs[w])) /\ s = seqs[w] /\ c \in Nat /\ s \in Nat
  BY PlacesCount
<1>2. target \in Seq(Nat)
  BY DEF MergedIn
<1>3. Places(target, s) = {}
  BY <1>1 DEF MergedIn, Places
<1>4. s = 0 => c = 0
  <2>1. Places(log, 0) = {}
    BY DEF Places
  <2> QED
    BY <1>1, <2>1, FS_EmptySet
<1>5. /\ target2 \in Seq(Nat)
      /\ \A i \in DOMAIN target2 : \/ i \in DOMAIN target /\ target2[i] = target[i]
                                   \/ i \in Len(target) + 1..Len(target) + c /\ target2[i] = s
      /\ \A x : x # s => Places(target2, x) = Places(target, x)
      /\ Cardinality(Places(target2, s)) = c
      /\ c = 0 => target2 = target
  <2>1. Entries(b, c, s)
    BY <1>1
  <2>2. target \in Seq(Nat) /\ c \in Nat /\ s \in Nat
    BY <1>1, <1>2
  <2>3. /\ target2 \in Seq(Nat)
        /\ \A i \in DOMAIN target2 : \/ i \in DOMAIN target /\ target2[i] = target[i]
                                     \/ i \in Len(target) + 1..Len(target) + c /\ target2[i] = s
    BY <2>1, <2>2, MergeEntries
  <2>4. \A x : x # s => Places(target2, x) = Places(target, x)
    BY <2>1, <2>2, MergeEntries
  <2>5. Cardinality(Places(target2, s)) = c /\ (c = 0 => target2 = target)
    BY <1>3, <2>1, <2>2, MergeEntries
  <2> QED
    BY <2>3, <2>4, <2>5
<1> DEFINE done == [tasks EXCEPT ![w] = "done"]
<1>6. \A v \in Workers : done[v] = "done" <=> v = w \/ tasks[v] = "done"
  OBVIOUS
<1>7. ASSUME NEW i \in DOMAIN target2
      PROVE  \E v \in Workers : done[v] = "done" /\ seqs[v] = target2[i] /\ seqs[v] # 0
  <2>1. CASE i \in DOMAIN target /\ target2[i] = target[i]
    BY <1>6, <2>1 DEF MergedIn
  <2>2. CASE i \in Len(target) + 1..Len(target) + c /\ target2[i] = s
    <3>1. c # 0
      BY <1>1, <1>2, <2>2, LenProperties
    <3> QED
      BY <1>1, <1>4, <1>6, <2>2, <3>1
  <2> QED
    BY <1>5, <2>1, <2>2
<1>8. ASSUME NEW v \in Workers, done[v] = "done"
      PROVE  Cardinality(Places(target2, seqs[v])) = Cardinality(Places(log, seqs[v]))
  <2>1. CASE v = w
    BY <1>1, <1>5, <2>1
  <2>2. CASE v # w
    <3>1. Cardinality(Places(target, seqs[v])) = Cardinality(Places(log, seqs[v]))
      BY <1>6, <1>8, <2>2 DEF MergedIn
    <3>2. seqs[v] = s => c = 0
      BY <1>1, <1>4, <2>2
    <3> QED
      BY <1>5, <3>1, <3>2
  <2> QED
    BY <2>1, <2>2
<1>9. MergedIn(done, seqs, target2, log)
  BY <1>5, <1>7, <1>8 DEF MergedIn
<1> QED
  BY <1>1, <1>3, <1>9

LEMMA IsolatedEntries ==
    ASSUME NEW log \in Seq(Nat), NEW w \in Workers, seq \in [Workers -> Nat]
    PROVE  Entries(Isolated(log, w), Cardinality(Places(log, seq[w])), seq[w])
<1>1. PICK c, s : c = Cardinality(Places(log, seq[w])) /\ s = seq[w] /\ c \in Nat /\ s \in Nat
  BY PlacesCount
<1>2. Isolated(log, w) = [i \in 1..c |-> s]
  BY <1>1 DEF Isolated, Places
<1>3. Isolated(log, w) \in Seq(Nat)
  BY <1>1, <1>2, SeqDef
<1>4. Len(Isolated(log, w)) = c
  BY <1>1, <1>2, <1>3, LenProperties
<1> QED
  BY <1>1, <1>2, <1>3, <1>4 DEF Entries

LEMMA MergeInvStep ==
    ASSUME Accounting, MergeInv, [AsyncNext]_asyncVars
    PROVE  MergeInv'
<1>1. LoopTypes /\ Hosted /\ Numbered /\ LoopTypes' /\ Hosted' /\ Numbered'
  BY LoopTypesStep, HostedStep, NumberedStep DEF MergeInv
<1>2. /\ MergedIn(task, seq, merged, events) /\ MergedIn(task, seq, mergedPlan, planned)
      /\ \A i, j \in DOMAIN merged : merged[i] = merged[j] => i = j
  BY DEF MergeInv
<1>3. /\ pc \in [Workers -> PC] /\ seq \in [Workers -> Nat] /\ sequence \in Nat
      /\ events \in Seq(Nat) /\ planned \in Seq(Nat)
  BY DEF Accounting, TypeOK, CallLogTypeOK
<1>4. \A w \in Workers : task[w] = "done" => pc[w] = "idle"
  BY <1>1 DEF Hosted
<1>5. ASSUME UNCHANGED real, \A w \in Workers : task'[w] = "done" <=> task[w] = "done",
             \A w \in Workers : task[w] = "done" =>
                /\ seq'[w] = seq[w] /\ Places(events', seq[w]) = Places(events, seq[w])
                /\ Places(planned', seq[w]) = Places(planned, seq[w])
      PROVE  MergeInv'
  <2>1. merged' = merged /\ mergedPlan' = mergedPlan
    BY <1>5 DEF real
  <2>2. MergedIn(task', seq', merged, events')
    BY <1>2, <1>5, MergedStays
  <2>3. MergedIn(task', seq', mergedPlan, planned')
    BY <1>2, <1>5, MergedStays
  <2>4. MergedIn(task, seq, merged, events)' /\ MergedIn(task, seq, mergedPlan, planned)'
    BY <2>1, <2>2, <2>3 DEF MergedIn, Places
  <2> QED
    BY <1>1, <1>2, <2>1, <2>4 DEF MergeInv
<1>6. ASSUME NEW w \in Workers, GoesOn(w) PROVE MergeInv'
  BY <1>5, <1>6 DEF GoesOn, numbers, hosts
<1>7. ASSUME NEW w \in Workers, Hands(w) PROVE MergeInv'
  <2>1. \A v \in Workers : task'[v] = "done" <=> task[v] = "done"
    BY <1>1, <1>7 DEF Hands, LoopTypes
  <2> QED
    BY <1>5, <1>7, <2>1 DEF Hands, numbers
<1>8. ASSUME NEW w \in Workers, StartRecord(w), UNCHANGED <<hosts, real>> PROVE MergeInv'
  <2>1. pc[w] = "admitted" /\ \A v \in Workers : v # w => seq'[v] = seq[v]
    BY <1>3, <1>8 DEF StartRecord
  <2>2. UNCHANGED <<events, planned, task, real>>
    BY <1>8 DEF StartRecord, sessionVars, hosts
  <2> QED
    BY <1>4, <1>5, <2>1, <2>2
<1>9. ASSUME NEW w \in Workers, AppendPlan(w), UNCHANGED <<hosts, real>> PROVE MergeInv'
  <2>1. pc[w] = "planning" /\ UNCHANGED <<seq, events, task, real>> /\ planned' = Append(planned, seq[w])
    BY <1>9 DEF AppendPlan, hosts
  <2>2. seq[w] # 0
    BY <1>1, <2>1 DEF Numbered
  <2>3. ASSUME NEW v \in Workers, task[v] = "done"
        PROVE  Places(planned', seq[v]) = Places(planned, seq[v])
    <3>1. seq[w] # seq[v]
      BY <1>1, <1>4, <2>1, <2>2, <2>3 DEF Numbered
    <3> QED
      BY <1>3, <2>1, <3>1, AppendOther
  <2> QED
    BY <1>5, <2>1, <2>3
<1>10. ASSUME NEW w \in Workers, RecordEvent(w), UNCHANGED <<hosts, real>> PROVE MergeInv'
  <2>1. pc[w] = "recording" /\ UNCHANGED <<seq, planned, task, real>> /\ events' = Append(events, seq[w])
    BY <1>10 DEF RecordEvent, hosts
  <2>2. seq[w] # 0
    BY <1>1, <2>1 DEF Numbered
  <2>3. ASSUME NEW v \in Workers, task[v] = "done"
        PROVE  Places(events', seq[v]) = Places(events, seq[v])
    <3>1. seq[w] # seq[v]
      BY <1>1, <1>4, <2>1, <2>2, <2>3 DEF Numbered
    <3> QED
      BY <1>3, <2>1, <3>1, AppendOther
  <2> QED
    BY <1>5, <2>1, <2>3
<1>11. ASSUME NEW w \in Workers, Deliver(w) PROVE MergeInv'
  <2>1. /\ task[w] = "awaiting" /\ task' = [task EXCEPT ![w] = "done"] /\ UNCHANGED <<seq, events, planned>>
        /\ Joined(merged', merged, Isolated(events, w))
        /\ Joined(mergedPlan', mergedPlan, Isolated(planned, w))
    BY <1>11 DEF Deliver, Joined, vars, workerVars, sessionVars
  <2>2. /\ \A u, v \in Workers : u # v /\ seq[u] = seq[v] => seq[v] = 0
        /\ \A i \in DOMAIN events : events[i] # 0
        /\ \A i \in DOMAIN planned : planned[i] # 0
        /\ \A i, j \in DOMAIN events : events[i] = events[j] => i = j
    BY <1>1, <1>3 DEF Numbered
  <2>3. /\ DOMAIN task = Workers
        /\ Entries(Isolated(events, w), Cardinality(Places(events, seq[w])), seq[w])
        /\ Entries(Isolated(planned, w), Cardinality(Places(planned, seq[w])), seq[w])
    BY <1>1, <1>3, IsolatedEntries DEF LoopTypes
  <2>4. MergedIn([task EXCEPT ![w] = "done"], seq, merged', events) /\ Places(merged, seq[w]) = {}
    BY <1>2, <1>3, <2>1, <2>2, <2>3, MergedGrows
  <2>5. MergedIn([task EXCEPT ![w] = "done"], seq, mergedPlan', planned)
    BY <1>2, <1>3, <2>1, <2>2, <2>3, MergedGrows
  <2>6. /\ MergedIn(task, seq, merged, events)'
        /\ MergedIn(task, seq, mergedPlan, planned)'
    <3>1. /\ task' = [task EXCEPT ![w] = "done"]
          /\ seq' = seq /\ events' = events /\ planned' = planned
      BY <2>1
    <3>2. MergedIn(task, seq, merged, events)'
      BY <3>1, <2>4 DEF MergedIn, Places
    <3>3. MergedIn(task, seq, mergedPlan, planned)'
      BY <3>1, <2>5 DEF MergedIn, Places
    <3> QED
      BY <3>2, <3>3
  <2>7. \A i, j \in DOMAIN merged' : merged'[i] = merged'[j] => i = j
    <3>1. PICK c : c = Cardinality(Places(events, seq[w])) /\ c \in Nat
      BY <1>3, PlacesCount
    <3>2. c <= 1
      <4>1. CASE Places(events, seq[w]) = {}
        BY <3>1, <4>1, FS_EmptySet
      <4>2. CASE Places(events, seq[w]) # {}
        <5>1. PICK x : x \in Places(events, seq[w])
          BY <4>2
        <5>2. Places(events, seq[w]) = {x}
          BY <2>2, <5>1 DEF Places
        <5> QED
          BY <3>1, <5>2, FS_Singleton
      <4> QED
        BY <4>1, <4>2
    <3>3. merged \in Seq(Nat) /\ Len(merged) \in Nat
      BY <1>2, LenProperties DEF MergedIn
    <3>4. \A i \in DOMAIN merged' : \/ i \in DOMAIN merged /\ merged'[i] = merged[i]
                                    \/ i \in Len(merged) + 1..Len(merged) + c /\ merged'[i] = seq[w]
      BY <1>3, <2>1, <2>3, <3>1, <3>3, MergeEntries
    <3>5. \A i \in DOMAIN merged : merged[i] # seq[w]
      BY <2>4 DEF Places
    <3>6. \A i, j \in Len(merged) + 1..Len(merged) + c : i = j
      BY <3>1, <3>2, <3>3
    <3> QED
      BY <1>2, <3>4, <3>5, <3>6
  <2> QED
    BY <1>1, <2>6, <2>7 DEF MergeInv
<1>12. ASSUME UNCHANGED <<pc, numbers, hosts, real>> PROVE MergeInv'
  BY <1>5, <1>12 DEF numbers, hosts
<1> QED
  BY <1>1, <1>6, <1>7, <1>8, <1>9, <1>10, <1>11, <1>12, BufferSteps

LEMMA MergeInvInit == AsyncInit => MergeInv
<1> SUFFICES ASSUME AsyncInit PROVE MergeInv
  OBVIOUS
<1>1. /\ merged = <<>> /\ mergedPlan = <<>> /\ events = <<>> /\ planned = <<>> /\ sequence = 0
      /\ \A w \in Workers : task[w] = "new" /\ thread[w] = "none" /\ pc[w] = "idle" /\ seq[w] = 0
  BY DEF AsyncInit, Init, CallLogInit
<1>2. LoopTypes
  BY DEF AsyncInit, LoopTypes
<1>3. Hosted
  BY <1>1 DEF Hosted
<1>4. Numbered
  BY <1>1 DEF Numbered, Unrecorded
<1>5. MergedIn(task, seq, merged, events) /\ MergedIn(task, seq, mergedPlan, planned)
  BY <1>1 DEF MergedIn
<1> QED
  BY <1>1, <1>2, <1>3, <1>4, <1>5 DEF MergeInv

\* The real session gets the events and plans of a call exactly once, when its task is
\* done, and none of a cancelled one (async_call.py: cancellation discards the buffer).
THEOREM BuffersMergedOnce == AsyncSpec => []MergedOnce
<1>1. Accounting /\ MergeInv /\ [AsyncNext]_asyncVars => MergeInv'
  BY MergeInvStep
<1>2. AsyncSpec => []Accounting
  BY AsyncCallsImplement, AccountingHolds, PTL DEF ImplementsCalls
<1>3. Accounting /\ MergeInv => MergedOnce
  <2> SUFFICES ASSUME Accounting, MergeInv PROVE MergedOnce
    OBVIOUS
  <2>1. AsyncTypeOK
    BY DEF Accounting, MergeInv, LoopTypes, MergedIn, AsyncTypeOK
  <2>2. \A w \in Workers : task[w] = "done" =>
           /\ Isolated(merged, w) = Isolated(events, w)
           /\ Isolated(mergedPlan, w) = Isolated(planned, w)
    BY DEF MergeInv, MergedIn, Isolated, Places
  <2>3. \A i \in DOMAIN merged : \E w \in Workers : task[w] = "done" /\ seq[w] = merged[i]
    BY DEF MergeInv, MergedIn
  <2> QED
    BY <2>1, <2>2, <2>3 DEF MergeInv, MergedOnce
<1> QED
  BY <1>1, <1>2, <1>3, MergeInvInit, PTL DEF AsyncSpec
=============================================================================
