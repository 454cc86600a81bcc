------------------------- MODULE SafetyStateProofs -------------------------
(***************************************************************************)
(* What the operations of the safety state and of the call log preserve,   *)
(* whoever calls them: the lemmas that the proofs about calls              *)
(* (CallsProofs) and about streams (StreamsProofs) share.                  *)
(***************************************************************************)
EXTENDS SafetyState, CallLog, Integers, FiniteSetTheorems, SequenceTheorems, TLAPS

\* The deque stays a sequence of outcomes no longer than WindowSize.
LEMMA SlideType ==
    ASSUME NEW window \in Seq(BOOLEAN), Len(window) <= WindowSize, NEW outcome \in BOOLEAN
    PROVE  Slide(window, outcome) \in Seq(BOOLEAN) /\ Len(Slide(window, outcome)) <= WindowSize
<1>1. WindowSize \in Nat \ {0}
  BY BreakerAssumption
<1>2. CASE Len(window) < WindowSize
  BY <1>1, <1>2 DEF Slide
<1>3. CASE ~(Len(window) < WindowSize)
  <2>1. Len(window) = WindowSize /\ window # <<>>
    BY <1>1, <1>3
  <2>2. Tail(window) \in Seq(BOOLEAN) /\ Len(Tail(window)) = Len(window) - 1
    BY <2>1, HeadTailProperties
  <2> QED
    BY <1>1, <1>3, <2>1, <2>2 DEF Slide
<1> QED
  BY <1>2, <1>3

\* The observed rate of a window is a fraction of it.
LEMMA RateType ==
    ASSUME NEW window \in Seq(BOOLEAN)
    PROVE  Rate(window) \in Fractions /\ Rate(window).amount <= Len(window)
<1>1. Len(window) \in Nat /\ DOMAIN window = 1 .. Len(window)
  BY LenProperties
<1>2. IsFiniteSet(1 .. Len(window)) /\ Cardinality(1 .. Len(window)) = Len(window)
  BY <1>1, FS_Interval
<1>3. Failed(window) \in SUBSET (1 .. Len(window))
  BY <1>1 DEF Failed
<1>4. Cardinality(Failed(window)) \in Nat /\ Cardinality(Failed(window)) <= Len(window)
  BY <1>2, <1>3, FS_Subset, FS_CardinalityType
<1> QED
  BY <1>1, <1>4 DEF Rate, Fractions

\* A check that raises changes nothing but the abort, which stays well formed.
LEMMA CheckRaisesType ==
    ASSUME SafetyTypeOK, CheckRaises
    PROVE  SafetyTypeOK' /\ UNCHANGED <<closed, expired, accounting>>
<1>1. UNCHANGED <<closed, expired, accounting>>
  BY DEF CheckRaises
<1>2. abort' \in Aborts
  BY DEF CheckRaises, AbortWith, SafetyTypeOK, Thresholds, Aborts, Fractions, Elapsed
<1> QED
  BY <1>1, <1>2 DEF SafetyTypeOK, accounting

\* So does a reservation that raises, whether the check or the budget refuses it.
LEMMA ReserveRaisesType ==
    ASSUME SafetyTypeOK, ReserveRaises
    PROVE  SafetyTypeOK' /\ UNCHANGED <<closed, expired, accounting>>
<1>1. CASE CheckRaises
  BY <1>1, CheckRaisesType
<1>2. CASE CheckOk /\ BudgetSpent /\ AbortWith("max_injections", Number(injections + reserved), inFlight)
           /\ UNCHANGED <<closed, expired, accounting>>
  <2>1. abort' \in Aborts
    BY <1>2 DEF AbortWith, SafetyTypeOK, Thresholds, Aborts, Fractions, Number
  <2> QED
    BY <1>2, <2>1 DEF SafetyTypeOK, accounting
<1> QED
  BY <1>1, <1>2 DEF ReserveRaises

\* finish keeps the window and the abort well formed.
LEMMA FinishType ==
    ASSUME SafetyTypeOK, NEW outcome \in BOOLEAN, Finish(outcome), inFlight' \in Nat
    PROVE  SafetyTypeOK'
<1>1. failures' \in Seq(BOOLEAN) /\ Len(failures') <= WindowSize
  BY SlideType DEF SafetyTypeOK, Finish
<1>2. inFlight - 1 \in Nat
  BY DEF Finish
<1>3. Rate(failures') \in Fractions /\ Elapsed \in Fractions
  BY <1>1, RateType DEF Fractions, Elapsed
<1>4. abort' \in Aborts
  BY <1>2, <1>3 DEF Finish, AbortWith, SafetyTypeOK, Thresholds, Aborts
<1> QED
  BY <1>1, <1>4 DEF SafetyTypeOK, Finish

\* A finished record goes into the log or into the count of dropped ones.
LEMMA LogFinishType ==
    ASSUME CallLogTypeOK, NEW record \in Record, LogFinish(record)
    PROVE  CallLogTypeOK'
<1>1. MaxRecords \in Nat
  BY CallLogAssumption
<1>2. CASE Len(records) < MaxRecords
  BY <1>1, <1>2 DEF CallLogTypeOK, LogFinish
<1>3. CASE ~(Len(records) < MaxRecords)
  BY <1>1, <1>3 DEF CallLogTypeOK, LogFinish
<1> QED
  BY <1>2, <1>3

\* A recorded cost, whether or not it aborts the session.
LEMMA RecordCostType ==
    ASSUME SafetyTypeOK, NEW amount \in Nat, RecordCostOk(amount)
    PROVE  SafetyTypeOK'
<1>1. cost' \in Nat
  BY DEF RecordCostOk, SafetyTypeOK
<1>2. abort' \in Aborts
  BY <1>1 DEF RecordCostOk, AbortWith, SafetyTypeOK, Thresholds, Aborts, Fractions, Number
<1> QED
  BY <1>1, <1>2 DEF RecordCostOk, SafetyTypeOK

=============================================================================
