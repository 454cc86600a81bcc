------------------------------- MODULE History -------------------------------
(***************************************************************************)
(* resilience/history.py: the run history, one JSON file that jobs read    *)
(* whole and replace whole.  record() reads it up to three times (latest,  *)
(* the number of runs, the list to extend), without a lock; a save writes  *)
(* a temporary file and renames it over the store.  Jobs may be killed     *)
(* between any two steps and a save may fail.  The instants at which runs  *)
(* are recorded are the caller's (recorded_at), in any order.  A limit of  *)
(* None is one larger than anything that happens.                          *)
(***************************************************************************)
EXTENDS Integers, Sequences, FiniteSets

CONSTANTS
  Jobs,         \* processes that share the file
  Names,        \* report names
  Scores,       \* scores of conclusive runs
  Times,        \* instants
  NoScore,      \* score of an inconclusive run
  NoTrend,      \* trend() without an earlier scored run
  MaxRuns,      \* max_runs
  MaxAge,       \* max_age_days
  MaxRecords,   \* bound: how many runs a job records
  Plans,        \* how many runs each job records, 0 when it never runs
  Absent,       \* the content of a file that does not exist
  Torn          \* the content of a file whose writing was cut short

ASSUME HistoryAssumption ==
  /\ IsFiniteSet(Jobs)
  /\ Scores \subseteq Int /\ Times \subseteq Int
  /\ NoScore \notin Int /\ NoTrend \notin Names
  /\ MaxRuns \in Nat \ {0}
  /\ MaxAge \in Nat \ {0}
  /\ MaxRecords \in Nat
  /\ Plans \subseteq [Jobs -> 0..MaxRecords]

Ids == Jobs \X (1..MaxRecords)
Entries == [id : Ids, name : Names, score : Scores \cup {NoScore}, time : Times]

ASSUME FileAssumption == Absent # Torn /\ Absent \notin Seq(Entries) /\ Torn \notin Seq(Entries)

VARIABLES
  store,     \* the history file
  temp,      \* the temporary file of each job
  pc,        \* where each job is
  run,       \* the run it records: name and score
  trend,     \* score.trend
  loaded,    \* the entries it will retain from and save
  when,      \* the instant retention counts back from
  made,      \* runs it has set out to record
  told,      \* the trend of the last run saved
  plan       \* how many runs each job records

vars == <<store, temp, pc, run, trend, loaded, when, made, told, plan>>

NoRun == [name |-> NoTrend, score |-> NoScore]

Init ==
  /\ store = Absent
  /\ temp = [j \in Jobs |-> Absent]
  /\ pc = [j \in Jobs |-> "idle"]
  /\ run = [j \in Jobs |-> NoRun]
  /\ trend = [j \in Jobs |-> NoTrend]
  /\ loaded = [j \in Jobs |-> <<>>]
  /\ when = [j \in Jobs |-> 0]
  /\ made = [j \in Jobs |-> 0]
  /\ told = NoTrend
  /\ plan \in Plans

-------------------------------------------------------------------------------
(* Reading.  A store that is not valid JSON raises ValueError, and the job  *)
(* has then done nothing: it is as if it had not started.                  *)

Readable == store # Torn
Load == IF store = Absent THEN <<>> ELSE store

\* A list comprehension: the elements of a list at some of its places, in their order.
InOrder(places) ==
  [k \in 1..Cardinality(places) |->
     CHOOSE i \in places : Cardinality({j \in places : j <= i}) = k]
At(entries, places) == [k \in 1..Cardinality(places) |-> entries[InOrder(places)[k]]]

Named(entries, name) == {i \in DOMAIN entries : entries[i].name = name}
EntriesOf(name) == At(Load, Named(Load, name))
Scored(name) ==
  LET named == EntriesOf(name)
  IN  At(named, {i \in DOMAIN named : named[i].score # NoScore})

Delta(score, previous) == IF score = NoScore THEN NoScore ELSE score - previous

(* _retain: first the entries that are young enough, then, walking from    *)
(* the newest and counting those seen of each name, at most MaxRuns of it. *)
YoungEnough(entries, now) == At(entries, {i \in DOMAIN entries : entries[i].time >= now - MaxAge})

Count(entries, name) == Cardinality(Named(entries, name))

(* A plausible mistake: the number is limited over all names.              *)
NewestOfAll(entries) == At(entries, {i \in DOMAIN entries : Cardinality(i..Len(entries)) <= MaxRuns})

Seen(entries, i) == {j \in DOMAIN entries : j >= i /\ entries[j].name = entries[i].name}
Newest(entries) == At(entries, {i \in DOMAIN entries : Cardinality(Seen(entries, i)) <= MaxRuns})

(* A plausible mistake: the number is limited before the age. *)
RetainSwapped(entries, now) == YoungEnough(Newest(entries), now)

Retain(entries, now) == Newest(YoungEnough(entries, now))

-------------------------------------------------------------------------------
(* record().                                                               *)

Goto(j, label) == pc' = [pc EXCEPT ![j] = label]

\* The locals of a job that has returned, raised or been killed.
Forget(j) ==
  /\ Goto(j, "idle")
  /\ run' = [run EXCEPT ![j] = NoRun]
  /\ trend' = [trend EXCEPT ![j] = NoTrend]
  /\ loaded' = [loaded EXCEPT ![j] = <<>>]
  /\ when' = [when EXCEPT ![j] = 0]

\* trend(): the latest scored entry of the name; without one, no trend.
ReadLatest(j) ==
  /\ pc[j] = "idle" /\ made[j] < plan[j] /\ Readable
  /\ \E name \in Names, score \in Scores \cup {NoScore} :
       LET scored == Scored(name)
           latest == scored[Len(scored)]
       IN
       /\ run' = [run EXCEPT ![j] = [name |-> name, score |-> score]]
       /\ IF scored = <<>>
          THEN Goto(j, "append") /\ UNCHANGED trend
          ELSE /\ Goto(j, "runs")
               /\ trend' = [trend EXCEPT ![j] =
                              [previous |-> latest.score,
                               delta    |-> Delta(score, latest.score),
                               runs     |-> 0]]
  /\ made' = [made EXCEPT ![j] = @ + 1]
  /\ UNCHANGED <<store, temp, loaded, when, told>>

\* trend(): "runs": len(self.entries(name)), a second reading.
ReadRuns(j) ==
  /\ pc[j] = "runs" /\ Readable
  /\ trend' = [trend EXCEPT ![j].runs = Len(EntriesOf(run[j].name))]
  /\ Goto(j, "append")
  /\ UNCHANGED <<store, temp, run, loaded, when, made, told>>

\* record(): the entry goes after a third reading of the store.
ReadAndAppend(j) ==
  /\ pc[j] = "append" /\ Readable
  /\ \E now \in Times :
       LET entry == [id |-> <<j, made[j]>>, name |-> run[j].name,
                     score |-> run[j].score, time |-> now]
       IN  /\ when' = [when EXCEPT ![j] = now]
           /\ loaded' = [loaded EXCEPT ![j] = Append(Load, entry)]
  /\ Goto(j, "save")
  /\ UNCHANGED <<store, temp, run, trend, made, told>>

\* prune(): saves only if retention removes something.
Prune(j) ==
  /\ pc[j] = "idle" /\ Readable
  /\ \E now \in Times :
       /\ Len(Retain(Load, now)) # Len(Load)
       /\ when' = [when EXCEPT ![j] = now]
  /\ loaded' = [loaded EXCEPT ![j] = Load]
  /\ Goto(j, "save")
  /\ UNCHANGED <<store, temp, run, trend, made, told>>

-------------------------------------------------------------------------------
(* _save.                                                                  *)

Recording(j) == run[j] # NoRun

(* A plausible mistake: the store itself is opened for writing. *)
MakeTempInPlace(j) ==
  /\ pc[j] = "save"
  /\ store' = Torn
  /\ Goto(j, "write")
  /\ UNCHANGED <<temp, run, trend, loaded, when, made, told>>

\* mkstemp: an empty file.
MakeTemp(j) ==
  /\ pc[j] = "save"
  /\ temp' = [temp EXCEPT ![j] = Torn]
  /\ Goto(j, "write")
  /\ UNCHANGED <<store, run, trend, loaded, when, made, told>>

WriteTemp(j) ==
  /\ pc[j] = "write"
  /\ temp' = [temp EXCEPT ![j] = Retain(loaded[j], when[j])]
  /\ Goto(j, "replace")
  /\ UNCHANGED <<store, run, trend, loaded, when, made, told>>

\* os.replace: the rename is atomic.
Replace(j) ==
  /\ pc[j] = "replace"
  /\ store' = temp[j]
  /\ temp' = [temp EXCEPT ![j] = Absent]
  /\ told' = IF Recording(j) THEN trend[j] ELSE told
  /\ Forget(j)
  /\ UNCHANGED made

\* Writing or renaming raises: the temporary file is unlinked.
SaveFails(j) ==
  /\ pc[j] \in {"write", "replace"}
  /\ temp' = [temp EXCEPT ![j] = Absent]
  /\ Forget(j)
  /\ UNCHANGED <<store, made, told>>

\* The process is killed; its temporary file stays, and no later save uses it.
Killed(j) ==
  /\ pc[j] # "idle"
  /\ Forget(j)
  /\ UNCHANGED <<store, temp, made, told>>

JobNext(j) ==
  \/ ReadLatest(j) \/ ReadRuns(j) \/ ReadAndAppend(j) \/ Prune(j)
  \/ MakeTemp(j) \/ WriteTemp(j) \/ Replace(j)
  \/ SaveFails(j) \/ Killed(j)

Crew == {j \in Jobs : plan[j] > 0}

Next == \E j \in Crew : JobNext(j) /\ UNCHANGED plan

Spec == Init /\ [][Next]_vars

-------------------------------------------------------------------------------
(* Properties.                                                             *)

Stored == IF store = Torn THEN <<>> ELSE Load

Trends == [previous : Scores, delta : Int \cup {NoScore}, runs : Nat] \cup {NoTrend}

(* Types of every variable; a job that writes or renames has a temporary   *)
(* file, and renames only a complete one (_save).                          *)
TypeOK ==
  /\ store \in {Absent, Torn} \cup Seq(Entries)
  /\ temp \in [Jobs -> {Absent, Torn} \cup Seq(Entries)]
  /\ pc \in [Jobs -> {"idle", "runs", "append", "save", "write", "replace"}]
  /\ run \in [Jobs -> {NoRun} \cup [name : Names, score : Scores \cup {NoScore}]]
  /\ trend \in [Jobs -> Trends]
  /\ loaded \in [Jobs -> Seq(Entries)]
  /\ when \in [Jobs -> Int]
  /\ plan \in Plans /\ made \in [Jobs -> Nat] /\ \A j \in Jobs : made[j] <= plan[j]
  /\ told \in Trends
  /\ \A j \in Jobs : pc[j] \in {"write", "replace"} => temp[j] # Absent
  /\ \A j \in Jobs : pc[j] = "replace" => temp[j] # Torn

StoreWhole == store # Torn
RetentionHolds == \A name \in Names : Count(Stored, name) <= MaxRuns
EntriesInOrder ==
  \A i, k \in 1..Len(Stored) :
     i < k /\ Stored[i].id[1] = Stored[k].id[1] => Stored[i].id[2] < Stored[k].id[2]

(* Whatever jobs are killed, whichever saves fail and however jobs save    *)
(* over each other, the file is complete ("an interrupted run never leaves *)
(* a half-written history", os.replace), holds at most max_runs entries of *)
(* every name (_retain), and has the runs of a job in the order in which   *)
(* it recorded them, each at most once ("oldest first", entries).          *)
StoreSound == TypeOK /\ StoreWhole /\ RetentionHolds /\ EntriesInOrder

Saves(j) == pc[j] = "replace" /\ pc'[j] = "idle" /\ temp[j] = store'

TooOld(e, now) == e.time < now - MaxAge

NewestIsOwn(j) == Recording(j) => store' # <<>> /\ store'[Len(store')].id = <<j, made[j]>>

Within(entries, e) == \E i \in DOMAIN entries : entries[i] = e

LossExplained(j, e) ==
  \/ Within(store', e)
  \/ TooOld(e, when[j])
  \/ Count(store', e.name) = MaxRuns
  \/ ~Within(loaded[j], e)

(* A save leaves the run just recorded as the newest entry of the file:    *)
(* its own retention never removes it, even when recorded_at lies in the   *)
(* past (record, _retain with now = when).  Another entry leaves the file  *)
(* only because it is too old for that save, because the save keeps        *)
(* max_runs entries of its name, or because the saving job read the file   *)
(* before the entry was in it (the store is not locked).                   *)
SavesKeep ==
  [][\A j \in Jobs : Saves(j) =>
        /\ NewestIsOwn(j)
        /\ \A i \in 1..Len(Load) : LossExplained(j, Load[i])]_vars

(* With one job the three readings and the replaced file come to the       *)
(* indivisible steps of ScoreLedger, and the trend told is the one against *)
(* the runs saved before, even if saves fail and the job is killed.        *)
(* Of several jobs, which read between each other's saves, it says nothing. *)
Alone == Cardinality(Crew) = 1
Ledger == INSTANCE ScoreLedger WITH
  ledger <- IF Alone THEN Stored ELSE <<>>,
  told   <- IF Alone THEN told ELSE NoTrend
ImplementsLedger == Ledger!LedgerSpec
=============================================================================
