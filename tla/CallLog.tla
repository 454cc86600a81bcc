------------------------------ MODULE CallLog ------------------------------
(***************************************************************************)
(* The bounded log of instrumented calls a session shares with its workers *)
(* (agentic_chaos/chaos/calls.py, CallLog).  begin hands out a sequence    *)
(* number and stores nothing; finish stores the record, or counts it as    *)
(* dropped once max_records are stored.  Both hold the log's lock, so each *)
(* is one step.  Of a record the model keeps its sequence number, whether  *)
(* the call raised, and whether a fault event was attributed to it.        *)
(***************************************************************************)
EXTENDS Naturals, Sequences

CONSTANT MaxRecords     \* max_records

ASSUME CallLogAssumption == MaxRecords \in Nat

VARIABLES
    sequence,   \* _sequence, the last number handed out
    records,    \* finished records, in the order they finished
    dropped     \* finished records past MaxRecords

logVars == <<sequence, records, dropped>>

Record == [seq : Nat, error : BOOLEAN, fault : BOOLEAN]

CallLogTypeOK ==
    /\ sequence \in Nat
    /\ records \in Seq(Record)
    /\ Len(records) <= MaxRecords
    /\ dropped \in Nat

CallLogInit ==
    /\ sequence = 0
    /\ records = <<>>
    /\ dropped = 0

\* begin: the caller keeps the returned record's number, sequence'.
LogBegin ==
    /\ sequence' = sequence + 1
    /\ UNCHANGED <<records, dropped>>

LogFinish(record) ==
    /\ IF Len(records) < MaxRecords
       THEN /\ records' = Append(records, record)
            /\ UNCHANGED dropped
       ELSE /\ dropped' = dropped + 1
            /\ UNCHANGED records
    /\ UNCHANGED sequence

\* The numbers as_json reports, and all the calls the log has seen the end of.
LoggedSeqs == {records[i].seq : i \in DOMAIN records}
FinishedCount == Len(records) + dropped

=============================================================================
