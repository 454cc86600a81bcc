----------------------------- MODULE ScoreLedger -----------------------------
(***************************************************************************)
(* What the run history promises one job (resilience/history.py): a list   *)
(* of scored runs, oldest first, to which a run is added and from which    *)
(* retention removes, each in one indivisible step, and the trend of a run *)
(* told against the list as it was before the run.  ResilienceHistory does *)
(* it in several reads and a replaced file; History.tla shows when that    *)
(* comes to the same.                                                      *)
(***************************************************************************)
EXTENDS Integers, Sequences, FiniteSets

CONSTANTS
  Names,      \* report names
  Scores,     \* scores of conclusive runs, integers
  Times,      \* instants at which runs are recorded, integers
  Ids,        \* what tells one entry from another (report_id)
  NoScore,    \* the score of an inconclusive run
  NoTrend,    \* trend() without an earlier scored run
  MaxRuns,    \* max_runs
  MaxAge      \* max_age_days

Entries == [id : Ids, name : Names, score : Scores \cup {NoScore}, time : Times]

VARIABLES
  ledger,     \* the entries kept
  told        \* the trend told for the last run recorded

ledgerVars == <<ledger, told>>

(***************************************************************************)
(* The reference reading of retention: an entry stays if it is no older    *)
(* than MaxAge and fewer than MaxRuns of the entries of its name that stay *)
(* so long come after it.                                                  *)
(***************************************************************************)
Young(s, now) == {i \in 1..Len(s) : s[i].time >= now - MaxAge}

Stays(s, now) ==
  {i \in Young(s, now) :
     Cardinality({j \in Young(s, now) : j > i /\ s[j].name = s[i].name}) < MaxRuns}

\* The elements of s at the places in keep, in their order.
Kept(s, keep) ==
  [k \in 1..Cardinality(keep) |->
     s[CHOOSE i \in keep : Cardinality({j \in keep : j < i}) = k - 1]]

Retained(s, now) == Kept(s, Stays(s, now))

\* The trend of a run of this name and score against the entries s.
TrendAgainst(s, name, score) ==
  LET scored == {i \in 1..Len(s) : s[i].name = name /\ s[i].score # NoScore}
  IN  IF scored = {} THEN NoTrend
      ELSE LET last == CHOOSE i \in scored : \A j \in scored : j <= i
           IN  [previous |-> s[last].score,
                delta    |-> IF score = NoScore THEN NoScore ELSE score - s[last].score,
                runs     |-> Cardinality({i \in 1..Len(s) : s[i].name = name})]

LedgerInit == ledger = <<>> /\ told = NoTrend

\* A run is entered last, and its own retention keeps it.
Enter(e) ==
  /\ ledger' # <<>> /\ ledger'[Len(ledger')] = e
  /\ told' = TrendAgainst(ledger, e.name, e.score)
  /\ ledger' = Retained(Append(ledger, e), e.time)

Trim(now) == ledger' = Retained(ledger, now) /\ UNCHANGED told

LedgerNext == (\E e \in Entries : Enter(e)) \/ (\E now \in Times : Trim(now))

LedgerSpec == LedgerInit /\ [][LedgerNext]_ledgerVars
=============================================================================
