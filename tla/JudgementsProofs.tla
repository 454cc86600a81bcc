-------------------------- MODULE JudgementsProofs --------------------------
(***************************************************************************)
(* Proofs about the judgements of the tools: scopes combined, for any      *)
(* labels; the evidence of a stop, for any sequence of observations; the   *)
(* score and the verdict of a run, for any evidence; contracts, scores and *)
(* merged reports, for any logs; and the moments of a schedule, for any    *)
(* expression and calendar.                                                *)
(***************************************************************************)
EXTENDS Evaluations, ChaosRuns, Cron, FiniteSetTheorems, SequenceTheorems, WellFoundedInduction, TLAPS

EvalSpec == EvalInit /\ [][EvalNext]_toolVars

-----------------------------------------------------------------------------
(* Scopes.                                                                 *)

ScopeInv ==
    job.tool = "scope" =>
        /\ job.pair \in ScopePairs
        /\ run.pc = "answered" =>
              run.scope = IF ScopeValid(Intersect(job.pair[1], job.pair[2]))
                          THEN Intersect(job.pair[1], job.pair[2]) ELSE NoValue

Included(inclusion, x) == inclusion # Everywhere => x \in inclusion

\* One dimension of a scope: an inclusion shared by two, and the labels that it
\* and the exclusions leave.
LEMMA Shared ==
    ASSUME NEW l, NEW r, NEW nl, NEW nr, NEW names, l # {}, r # {},
           "elsewhere" \in names, "elsewhere" \notin nl, "elsewhere" \notin nr,
           l # Everywhere => l \subseteq names, r # Everywhere => r \subseteq names,
           (l # Everywhere /\ r # Everywhere) => l \intersect r # Everywhere,
           NEW both, both = Both(l, r)
    PROVE  /\ \A x : Included(both, x) <=> Included(l, x) /\ Included(r, x)
           /\ (both # {} /\ (both # Everywhere => ~(both \subseteq nl \union nr))) <=>
                 \E x \in names : x \notin nl /\ x \notin nr /\ Included(l, x) /\ Included(r, x)
<1>1. CASE l = Everywhere /\ r = Everywhere
  BY <1>1 DEF Both, Included
<1>2. CASE l = Everywhere /\ r # Everywhere
  BY <1>2 DEF Both, Included
<1>3. CASE l # Everywhere /\ r = Everywhere
  BY <1>3 DEF Both, Included
<1>4. CASE l # Everywhere /\ r # Everywhere
  <2>1. both = l \intersect r /\ both # Everywhere
    BY <1>4 DEF Both
  <2> QED
    BY <1>4, <2>1 DEF Included
<1> QED
  BY <1>1, <1>2, <1>3, <1>4

LEMMA CombinationExact ==
    ASSUME NEW pair \in ScopePairs,
           NEW both, both = Intersect(pair[1], pair[2]),
           NEW names, "elsewhere" \in names,
           \A s \in {pair[1], pair[2]} : s.steps # Everywhere => s.steps \subseteq names,
           NEW vendors, "elsewhere" \in vendors,
           \A s \in {pair[1], pair[2]} : s.providers # Everywhere => s.providers \subseteq vendors
    PROVE  /\ \A x, y : Allows(both, x, y) <=> Allows(pair[1], x, y) /\ Allows(pair[2], x, y)
           /\ ScopeValid(both) <=> \E x \in names, y \in vendors : Allows(pair[1], x, y) /\ Allows(pair[2], x, y)
<1> DEFINE s == pair[1]
           t == pair[2]
<1>1. /\ s.steps # {} /\ s.providers # {} /\ t.steps # {} /\ t.providers # {}
      /\ "elsewhere" \notin s.notSteps /\ "elsewhere" \notin s.notProviders
      /\ "elsewhere" \notin t.notSteps /\ "elsewhere" \notin t.notProviders
      /\ (s.steps # Everywhere /\ t.steps # Everywhere) => s.steps \intersect t.steps # Everywhere
      /\ (s.providers # Everywhere /\ t.providers # Everywhere) => s.providers \intersect t.providers # Everywhere
  BY ScopeAssumption DEF ScopeAssumption, ScopeValid
<1>2. /\ both.steps = Both(s.steps, t.steps) /\ both.providers = Both(s.providers, t.providers)
      /\ both.notSteps = s.notSteps \union t.notSteps /\ both.notProviders = s.notProviders \union t.notProviders
  BY DEF Intersect
<1>3. /\ \A x : Included(both.steps, x) <=> Included(s.steps, x) /\ Included(t.steps, x)
      /\ (both.steps # {} /\ (both.steps # Everywhere => ~(both.steps \subseteq both.notSteps))) <=>
            \E x \in names : x \notin both.notSteps /\ Included(s.steps, x) /\ Included(t.steps, x)
  BY <1>1, <1>2, Shared
<1>4. /\ \A x : Included(both.providers, x) <=> Included(s.providers, x) /\ Included(t.providers, x)
      /\ (both.providers # {} /\ (both.providers # Everywhere => ~(both.providers \subseteq both.notProviders))) <=>
            \E x \in vendors : x \notin both.notProviders /\ Included(s.providers, x) /\ Included(t.providers, x)
  BY <1>1, <1>2, Shared
<1> HIDE DEF s, t
<1>5. \A u, x, y : Allows(u, x, y) <=> /\ x \notin u.notSteps /\ y \notin u.notProviders
                                       /\ Included(u.steps, x) /\ Included(u.providers, y)
  BY DEF Allows, Included
<1>6. \A x, y : Allows(both, x, y) <=> Allows(s, x, y) /\ Allows(t, x, y)
  BY <1>2, <1>3, <1>4, <1>5
<1>7. ScopeValid(both) <=> \E x \in names, y \in vendors : Allows(s, x, y) /\ Allows(t, x, y)
  <2>1. ScopeValid(both) <=>
           /\ \E x \in names : x \notin both.notSteps /\ Included(s.steps, x) /\ Included(t.steps, x)
           /\ \E y \in vendors : y \notin both.notProviders /\ Included(s.providers, y) /\ Included(t.providers, y)
    BY <1>3, <1>4 DEF ScopeValid
  <2> QED
    BY <1>2, <1>5, <2>1
<1> QED
  BY <1>6, <1>7 DEF s, t

\* Two scopes combined allow exactly what both allow, and the combination is refused
\* exactly when that is nothing (Evaluations!ScopesCombine), for all scopes.
THEOREM ScopesCombineAlways == EvalSpec => []ScopesCombine
<1>1. EvalInit => ScopeInv
  <2> SUFFICES ASSUME EvalInit, job.tool = "scope" PROVE job.pair \in ScopePairs /\ run.pc = "asked"
    BY DEF ScopeInv
  <2>1. job \in [tool : {"scope"}, pair : ScopePairs]
    BY DEF EvalInit
  <2> QED
    BY <2>1 DEF EvalInit
<1>2. ScopeInv /\ [EvalNext]_toolVars => ScopeInv'
  <2> SUFFICES ASSUME ScopeInv, [EvalNext]_toolVars PROVE ScopeInv'
    OBVIOUS
  <2>1. CASE CombineScopes
    <3>1. PICK both : both = Intersect(job.pair[1], job.pair[2])
      OBVIOUS
    <3>2. job' = job /\ job.tool = "scope" /\ run' = [pc |-> "answered", scope |-> IF ScopeValid(both) THEN both ELSE NoValue]
      BY <2>1, <3>1 DEF CombineScopes, Asked
    <3> QED
      BY <3>1, <3>2 DEF ScopeInv
  <2>2. CASE JudgeReport \/ ScoreMerged \/ AssertStop
    BY <2>2 DEF JudgeReport, ScoreMerged, AssertStop, Asked, ScopeInv
  <2>3. CASE UNCHANGED toolVars
    BY <2>3 DEF toolVars, ScopeInv
  <2> QED
    BY <2>1, <2>2, <2>3 DEF EvalNext
<1>3. ScopeInv => ScopesCombine
  <2> SUFFICES ASSUME ScopeInv, Answered("scope") PROVE ScopesCombine
    BY DEF ScopesCombine
  <2> DEFINE steps == UNION {s.steps : s \in {t \in {job.pair[1], job.pair[2]} : t.steps # Everywhere}}
             names == {"elsewhere"} \union steps \union job.pair[1].notSteps \union job.pair[2].notSteps
             providers == UNION {s.providers : s \in {t \in {job.pair[1], job.pair[2]} : t.providers # Everywhere}}
             vendors == {"elsewhere"} \union providers \union job.pair[1].notProviders \union job.pair[2].notProviders
             shared == {c \in names \X vendors :
                           Allows(job.pair[1], c[1], c[2]) /\ Allows(job.pair[2], c[1], c[2])}
  <2>0. PICK pair \in ScopePairs : pair = job.pair
    BY DEF Answered, ScopeInv
  <2>1. PICK both : pair = job.pair /\ both = Intersect(pair[1], pair[2])
    BY <2>0
  <2>2. run.scope = IF ScopeValid(both) THEN both ELSE NoValue
    BY <2>1 DEF Answered, ScopeInv
  <2>3. both # NoValue
    BY <2>1, ScopeAssumption DEF ScopeAssumption
  <2>4. "elsewhere" \in names /\ "elsewhere" \in vendors
    OBVIOUS
  <2>5. /\ \A s \in {pair[1], pair[2]} : s.steps # Everywhere => s.steps \subseteq names
        /\ \A s \in {pair[1], pair[2]} : s.providers # Everywhere => s.providers \subseteq vendors
    BY <2>1
  <2> HIDE DEF names, vendors, steps, providers
  <2>6. /\ \A x, y : Allows(both, x, y) <=> Allows(pair[1], x, y) /\ Allows(pair[2], x, y)
        /\ ScopeValid(both) <=> \E x \in names, y \in vendors : Allows(pair[1], x, y) /\ Allows(pair[2], x, y)
    <3>1. both = Intersect(pair[1], pair[2])
      BY <2>1
    <3> QED
      BY <3>1, <2>4, <2>5, CombinationExact, ZenonT(30)
  <2>7. shared # {} <=> \E x \in names, y \in vendors : Allows(pair[1], x, y) /\ Allows(pair[2], x, y)
    <3>1. ASSUME NEW x \in names, NEW y \in vendors, Allows(pair[1], x, y), Allows(pair[2], x, y) PROVE <<x, y>> \in shared
      BY <2>1, <3>1
    <3> QED
      BY <2>1, <3>1
  <2>8. IF run.scope = NoValue THEN shared = {}
        ELSE shared # {} /\ \A c \in names \X vendors : Allows(run.scope, c[1], c[2]) <=> c \in shared
    BY <2>1, <2>2, <2>3, <2>6, <2>7
  <2> QED
    BY <2>8 DEF ScopesCombine, names, vendors, steps, providers
<1> QED
  BY <1>1, <1>2, <1>3, PTL DEF EvalSpec

-----------------------------------------------------------------------------
(* The evidence of a stop.                                                 *)

StopInv ==
    job.tool = "stop" =>
        /\ job.stop \in Stops
        /\ run.pc = "answered" =>
              run.found = AssertObservations(job.stop.records, job.stop.ack, job.stop.attempted)

\* What AssertObservations looks at, with its parts named.
RunningAt(r, ack) ==
    CallsOf(r, Own(r, "dispatched", 1..(ack - 1))) \ CallsOf(r, Own(r, "completed", 1..(ack - 1)))
CompletedAfter(r, ack) == CallsOf(r, Own(r, "completed", (ack + 1)..Len(r)))
Convincing(r, ack, attempted) ==
    /\ attempted # {} /\ WellFormed(r) /\ ack # 0
    /\ r[ack].kind = "stop_acknowledged" /\ r[ack].own
    /\ Own(r, "dispatched", (ack + 1)..Len(r)) = {}
    /\ attempted \subseteq CallsOf(r, Own(r, "denied", (ack + 1)..Len(r)))
    /\ CompletedAfter(r, ack) \subseteq RunningAt(r, ack)

LEMMA AnswerIs ==
    ASSUME NEW r, NEW ack, NEW attempted
    PROVE  AssertObservations(r, ack, attempted) =
              IF Convincing(r, ack, attempted)
              THEN [ok |-> TRUE, running |-> RunningAt(r, ack), completed |-> CompletedAfter(r, ack)]
              ELSE [ok |-> FALSE, running |-> {}, completed |-> {}]
  BY DEF AssertObservations, Convincing, RunningAt, CompletedAfter

\* Evidence that is accepted: what a dispatcher that stopped leaves.
LEMMA EvidenceReplayed ==
    ASSUME NEW r \in Seq(Observation), NEW ack \in 0..Len(r), NEW attempted, Convincing(r, ack, attempted)
    PROVE  /\ Running(r, ack) = RunningAt(r, ack)
           /\ \A i \in ack..(Len(r) - 1) : Running(r, i + 1) \subseteq Running(r, i)
           /\ CompletedAfter(r, ack) = RunningAt(r, ack) \ Running(r, Len(r))
           /\ \A c \in attempted : \E i \in ack..Len(r) : r[i].kind = "denied" /\ r[i].own /\ r[i].call = c
<1> DEFINE n == Len(r)
<1>1. /\ n \in Nat /\ ack \in 1..n /\ r[ack].kind = "stop_acknowledged"
      /\ \A i \in (ack + 1)..n : ~(r[i].kind = "dispatched" /\ r[i].own)
  BY LenProperties DEF Convincing, Own
<1> HIDE DEF n
<1>2. Running(r, ack) = RunningAt(r, ack)
  <2>1. \A i \in 1..ack : i \in 1..(ack - 1) \/ i = ack
    BY <1>1
  <2>2. 1..(ack - 1) \subseteq 1..ack
    BY <1>1
  <2>3. \A c : (\E i \in 1..ack : r[i].own /\ r[i].kind = "dispatched" /\ r[i].call = c) <=>
                  c \in CallsOf(r, Own(r, "dispatched", 1..(ack - 1)))
    BY <1>1, <2>1, <2>2 DEF CallsOf, Own
  <2>4. \A c : (\E i \in 1..ack : r[i].own /\ r[i].kind = "completed" /\ r[i].call = c) <=>
                  c \in CallsOf(r, Own(r, "completed", 1..(ack - 1)))
    BY <1>1, <2>1, <2>2 DEF CallsOf, Own
  <2>5. \A c : c \in Running(r, ack) <=>
                  /\ \E i \in 1..ack : r[i].own /\ r[i].kind = "dispatched" /\ r[i].call = c
                  /\ ~\E i \in 1..ack : r[i].own /\ r[i].kind = "completed" /\ r[i].call = c
    BY DEF Running
  <2> QED
    BY <2>3, <2>4, <2>5 DEF RunningAt
<1>3. ASSUME NEW i \in ack..(n - 1) PROVE Running(r, i + 1) \subseteq Running(r, i)
  <2>1. 1..i \subseteq 1..(i + 1) /\ (\A k \in 1..(i + 1) : k \in 1..i \/ k \in (ack + 1)..n)
    BY <1>1
  <2> QED
    BY <1>1, <2>1 DEF Running
<1>4. CompletedAfter(r, ack) = RunningAt(r, ack) \ Running(r, n)
  <2>1. \A i \in 1..n : i \in 1..ack \/ i \in (ack + 1)..n
    BY <1>1
  <2>2. 1..ack \subseteq 1..n /\ (ack + 1)..n \subseteq 1..n
    BY <1>1
  <2>3. CompletedAfter(r, ack) \subseteq RunningAt(r, ack)
    BY DEF Convincing
  <2>4. \A c : c \in CompletedAfter(r, ack) <=>
                  \E i \in (ack + 1)..n : r[i].own /\ r[i].kind = "completed" /\ r[i].call = c
    BY DEF CompletedAfter, CallsOf, Own, n
  <2>5. ASSUME NEW c \in CompletedAfter(r, ack) PROVE c \notin Running(r, n)
    BY <2>2, <2>4 DEF Running
  <2>6. ASSUME NEW c \in RunningAt(r, ack), c \notin Running(r, n) PROVE c \in CompletedAfter(r, ack)
    <3>1. c \in Running(r, ack)
      BY <1>2
    <3>2. PICK k \in 1..ack : r[k].own /\ r[k].kind = "dispatched" /\ r[k].call = c
      BY <3>1 DEF Running
    <3>3. ~\E k2 \in 1..ack : r[k2].own /\ r[k2].kind = "completed" /\ r[k2].call = c
      BY <3>1 DEF Running
    <3>4. \E k2 \in 1..n : r[k2].own /\ r[k2].kind = "completed" /\ r[k2].call = c
      BY <2>2, <2>6, <3>2 DEF Running
    <3> QED
      BY <2>1, <2>4, <3>3, <3>4
  <2> QED
    BY <2>3, <2>5, <2>6
<1>5. ASSUME NEW c \in attempted PROVE \E i \in ack..n : r[i].kind = "denied" /\ r[i].own /\ r[i].call = c
  <2>1. c \in CallsOf(r, Own(r, "denied", (ack + 1)..n))
    BY DEF Convincing, n
  <2>2. (ack + 1)..n \subseteq ack..n
    BY <1>1
  <2> QED
    BY <2>1, <2>2 DEF CallsOf, Own
<1> QED
  BY <1>2, <1>3, <1>4, <1>5 DEF n

\* The calls of the asserted task's records of one kind.
Calls(r, kind, indices) == CallsOf(r, Own(r, kind, indices))

\* The records of r but the one at i: where each of them was, and where it is.
Was(i, k) == IF k < i THEN k ELSE k + 1
Is(i, j) == IF j < i THEN j ELSE j - 1
Thinned(q, r, i) ==
    /\ r \in Seq(Observation) /\ q \in Seq(Observation) /\ i \in 1..Len(r) /\ Len(q) = Len(r) - 1
    /\ \A k \in 1..Len(q) : q[k] = r[Was(i, k)]
    /\ ~r[i].own

LEMMA ThinnedBy ==
    ASSUME NEW r \in Seq(Observation), NEW i \in 1..Len(r), ~r[i].own
    PROVE  Thinned(Without(r, i), r, i)
<1> DEFINE q == Without(r, i)
           n == Len(r)
<1>1. n \in Nat /\ i \in 1..n /\ n - 1 \in Nat
  BY LenProperties
<1>2. q = [k \in 1..(n - 1) |-> r[Was(i, k)]]
  BY DEF Without, Was
<1>3. \A k \in 1..(n - 1) : Was(i, k) \in 1..n
  BY <1>1 DEF Was
<1>4. \A k \in 1..n : r[k] \in Observation
  BY ElementOfSeq
<1> HIDE DEF n, q
<1>5. q \in [1..(n - 1) -> Observation]
  BY <1>2, <1>3, <1>4
<1>6. q \in Seq(Observation)
  BY <1>1, <1>5, SeqDef
<1>7. Len(q) = n - 1
  <2>1. DOMAIN q = 1..(n - 1) /\ DOMAIN q = 1..Len(q) /\ Len(q) \in Nat
    BY <1>2, <1>6, LenProperties
  <2> QED
    BY <1>1, <2>1
<1>8. \A k \in 1..Len(q) : q[k] = r[Was(i, k)]
  BY <1>2, <1>7
<1> QED
  BY <1>6, <1>7, <1>8 DEF Thinned, n, q

Matched(q, r, i, few, all) ==
    /\ few \subseteq 1..Len(q) /\ all \subseteq 1..Len(r)
    /\ \A k \in few : Was(i, k) \in all
    /\ \A j \in all : j # i => Is(i, j) \in few

LEMMA CallsThinned ==
    ASSUME NEW r, NEW q, NEW i, Thinned(q, r, i), NEW kind,
           NEW few, NEW all, Matched(q, r, i, few, all)
    PROVE  Calls(q, kind, few) = Calls(r, kind, all)
<1>0. /\ few \subseteq 1..Len(q) /\ all \subseteq 1..Len(r)
      /\ \A k \in few : Was(i, k) \in all
      /\ \A j \in all : j # i => Is(i, j) \in few
  BY DEF Matched
<1>1. ASSUME NEW k \in few, q[k].own, q[k].kind = kind PROVE q[k].call \in Calls(r, kind, all)
  BY <1>0, <1>1 DEF Thinned, Calls, CallsOf, Own
<1>2. ASSUME NEW j \in all, r[j].own, r[j].kind = kind PROVE r[j].call \in Calls(q, kind, few)
  <2>1. j # i /\ Len(r) \in Nat
    BY <1>2, LenProperties DEF Thinned
  <2>2. PICK k : k = Is(i, j)
    OBVIOUS
  <2>3. k \in few /\ Was(i, k) = j
    BY <1>0, <2>1, <2>2 DEF Thinned, Is, Was
  <2>4. q[k] = r[j]
    BY <1>0, <2>3 DEF Thinned
  <2> QED
    BY <1>2, <2>3, <2>4 DEF Calls, CallsOf, Own
<1>3. Calls(q, kind, few) = {q[k].call : k \in {x \in few : q[x].kind = kind /\ q[x].own}}
  BY DEF Calls, CallsOf, Own
<1>4. Calls(r, kind, all) = {r[k].call : k \in {x \in all : r[x].kind = kind /\ r[x].own}}
  BY DEF Calls, CallsOf, Own
<1> QED
  BY <1>1, <1>2, <1>3, <1>4

LEMMA BeforeThinned ==
    ASSUME NEW r, NEW q, NEW i, Thinned(q, r, i), NEW kind, NEW k \in 1..Len(q)
    PROVE  /\ Calls(q, kind, 1..(k - 1)) = Calls(r, kind, 1..(Was(i, k) - 1))
           /\ Calls(q, kind, (k + 1)..Len(q)) = Calls(r, kind, (Was(i, k) + 1)..Len(r))
<1>1. PICK n \in Nat : n = Len(q) /\ Len(r) = n + 1 /\ i \in 1..(n + 1) /\ k \in 1..n
  BY LenProperties DEF Thinned
<1>2. /\ 1..(k - 1) \subseteq 1..n /\ 1..(Was(i, k) - 1) \subseteq 1..(n + 1)
      /\ (k + 1)..n \subseteq 1..n /\ (Was(i, k) + 1)..(n + 1) \subseteq 1..(n + 1)
  BY <1>1 DEF Was
<1>3. /\ \A m \in 1..(k - 1) : Was(i, m) \in 1..(Was(i, k) - 1)
      /\ \A j \in 1..(Was(i, k) - 1) : j # i => Is(i, j) \in 1..(k - 1)
  BY <1>1 DEF Was, Is
<1>4. /\ \A m \in (k + 1)..n : Was(i, m) \in (Was(i, k) + 1)..(n + 1)
      /\ \A j \in (Was(i, k) + 1)..(n + 1) : j # i => Is(i, j) \in (k + 1)..n
  BY <1>1 DEF Was, Is
<1>5. PICK few, all : few = 1..(k - 1) /\ all = 1..(Was(i, k) - 1)
  OBVIOUS
<1>6. Calls(q, kind, few) = Calls(r, kind, all)
  <2>1. Matched(q, r, i, few, all)
    BY <1>1, <1>2, <1>3, <1>5 DEF Matched
  <2> QED
    BY <2>1, CallsThinned
<1>7. PICK less, rest : less = (k + 1)..Len(q) /\ rest = (Was(i, k) + 1)..Len(r)
  OBVIOUS
<1>8. Calls(q, kind, less) = Calls(r, kind, rest)
  <2>1. Matched(q, r, i, less, rest)
    BY <1>1, <1>2, <1>4, <1>7 DEF Matched
  <2> QED
    BY <2>1, CallsThinned
<1> QED
  BY <1>5, <1>6, <1>7, <1>8

\* The scan of the records, one record at a time.
Scanned(r, k) ==
    /\ r[k].kind = "dispatched" /\ r[k].own => r[k].call \notin Calls(r, "dispatched", 1..(k - 1))
    /\ r[k].kind = "completed" /\ r[k].own => /\ r[k].call \in Calls(r, "dispatched", 1..(k - 1))
                                              /\ r[k].call \notin Calls(r, "completed", 1..(k - 1))

LEMMA ScanIs ==
    ASSUME NEW r \in Seq(Observation)
    PROVE  WellFormed(r) <=> \A k \in 1..Len(r) : Scanned(r, k)
<1> DEFINE Earlier(k, kind) == {j \in Own(r, kind, 1..(k - 1)) : r[j].call = r[k].call}
           Fits(k) == IF r[k].kind = "dispatched" THEN Earlier(k, "dispatched") = {}
                      ELSE Earlier(k, "dispatched") # {} /\ Earlier(k, "completed") = {}
<1>1. DOMAIN r = 1..Len(r)
  BY LenProperties
<1>2. \A k, kind : Earlier(k, kind) # {} <=> r[k].call \in Calls(r, kind, 1..(k - 1))
  BY DEF Calls, CallsOf
<1>3. WellFormed(r) <=> \A k \in Own(r, "dispatched", DOMAIN r) \union Own(r, "completed", DOMAIN r) : Fits(k)
  BY DEF WellFormed
<1> HIDE DEF Earlier
<1>4. \A k \in 1..Len(r) : Scanned(r, k) <=> ((r[k].own /\ r[k].kind \in {"dispatched", "completed"}) => Fits(k))
  BY <1>2 DEF Scanned
<1>5. \A k : k \in Own(r, "dispatched", DOMAIN r) \union Own(r, "completed", DOMAIN r) <=>
              k \in 1..Len(r) /\ r[k].own /\ r[k].kind \in {"dispatched", "completed"}
  BY <1>1 DEF Own
<1> HIDE DEF Fits
<1> QED
  BY <1>3, <1>4, <1>5

LEMMA ScanThinned ==
    ASSUME NEW r, NEW q, NEW i, Thinned(q, r, i)
    PROVE  WellFormed(q) <=> WellFormed(r)
<1>1. \A k \in 1..Len(q) : Scanned(q, k) <=> Scanned(r, Was(i, k))
  <2> SUFFICES ASSUME NEW k \in 1..Len(q) PROVE Scanned(q, k) <=> Scanned(r, Was(i, k))
    OBVIOUS
  <2>1. q[k] = r[Was(i, k)]
    BY DEF Thinned
  <2>2. \A kind : Calls(q, kind, 1..(k - 1)) = Calls(r, kind, 1..(Was(i, k) - 1))
    BY BeforeThinned
  <2> QED
    BY <2>1, <2>2 DEF Scanned
<1>2. \A k \in 1..Len(q) : Was(i, k) \in 1..Len(r)
  BY LenProperties DEF Was, Thinned
<1>3. ASSUME NEW j \in 1..Len(r), j # i PROVE \E k \in 1..Len(q) : j = Was(i, k)
  <2>1. Is(i, j) \in 1..Len(q) /\ j = Was(i, Is(i, j))
    BY <1>3, LenProperties DEF Is, Was, Thinned
  <2> QED
    BY <2>1
<1>4. Scanned(r, i)
  BY DEF Scanned, Thinned
<1>5. r \in Seq(Observation) /\ q \in Seq(Observation)
  BY DEF Thinned
<1> QED
  BY <1>1, <1>2, <1>3, <1>4, <1>5, ScanIs

\* A record of another task makes no difference.
LEMMA AnswerThinned ==
    ASSUME NEW r, NEW q, NEW i, Thinned(q, r, i), NEW ack \in 1..Len(r), ack # i, NEW attempted
    PROVE  AssertObservations(r, ack, attempted) =
               AssertObservations(q, IF i < ack THEN ack - 1 ELSE ack, attempted)
<1>1. PICK k : k = IF i < ack THEN ack - 1 ELSE ack
  OBVIOUS
<1>2. k \in 1..Len(q) /\ Was(i, k) = ack /\ k # 0 /\ ack # 0
  BY <1>1, LenProperties DEF Thinned, Was
<1>3. q[k] = r[ack]
  BY <1>2 DEF Thinned
<1>4. \A kind : /\ Calls(q, kind, 1..(k - 1)) = Calls(r, kind, 1..(ack - 1))
                /\ Calls(q, kind, (k + 1)..Len(q)) = Calls(r, kind, (ack + 1)..Len(r))
  <2> SUFFICES ASSUME NEW kind
               PROVE  /\ Calls(q, kind, 1..(k - 1)) = Calls(r, kind, 1..(ack - 1))
                      /\ Calls(q, kind, (k + 1)..Len(q)) = Calls(r, kind, (ack + 1)..Len(r))
    OBVIOUS
  <2>0. k \in 1..Len(q)
    BY <1>2
  <2>1. /\ Calls(q, kind, 1..(k - 1)) = Calls(r, kind, 1..(Was(i, k) - 1))
        /\ Calls(q, kind, (k + 1)..Len(q)) = Calls(r, kind, (Was(i, k) + 1)..Len(r))
    BY <2>0, BeforeThinned
  <2> QED
    BY <1>2, <2>1
<1>5. RunningAt(q, k) = RunningAt(r, ack) /\ CompletedAfter(q, k) = CompletedAfter(r, ack)
  BY <1>4 DEF RunningAt, CompletedAfter, Calls
<1>6. \A s, indices : Own(s, "dispatched", indices) = {} <=> Calls(s, "dispatched", indices) = {}
  BY DEF Calls, CallsOf
<1>7. WellFormed(q) <=> WellFormed(r)
  BY ScanThinned
<1>8. Convincing(q, k, attempted) <=> Convincing(r, ack, attempted)
  <2>1. \A s, a : Convincing(s, a, attempted) <=>
           /\ attempted # {} /\ WellFormed(s) /\ a # 0
           /\ s[a].kind = "stop_acknowledged" /\ s[a].own
           /\ Calls(s, "dispatched", (a + 1)..Len(s)) = {}
           /\ attempted \subseteq Calls(s, "denied", (a + 1)..Len(s))
           /\ CompletedAfter(s, a) \subseteq RunningAt(s, a)
    BY <1>6 DEF Convincing, Calls
  <2> QED
    BY <1>2, <1>3, <1>4, <1>5, <1>7, <2>1
<1> QED
  BY <1>1, <1>5, <1>8, AnswerIs

LEMMA FieldsAre ==
    \A a, b, c : LET found == [ok |-> a, running |-> b, completed |-> c]
                 IN  found.ok = a /\ found.running = b /\ found.completed = c
  OBVIOUS

\* An answer says yes only to evidence that convinces, and names its calls.
LEMMA AnswerSays ==
    ASSUME NEW r, NEW ack, NEW attempted,
           NEW found, found = AssertObservations(r, ack, attempted), found.ok
    PROVE  Convincing(r, ack, attempted) /\ found.running = RunningAt(r, ack) /\ found.completed = CompletedAfter(r, ack)
<1>1. ASSUME ~Convincing(r, ack, attempted) PROVE FALSE
  <2>1. found = [ok |-> FALSE, running |-> {}, completed |-> {}]
    BY <1>1, AnswerIs
  <2>2. found.ok = FALSE
    BY <2>1
  <2> QED
    BY <2>2
<1>2. found = [ok |-> TRUE, running |-> RunningAt(r, ack), completed |-> CompletedAfter(r, ack)]
  BY <1>1, AnswerIs
<1> QED
  BY <1>1, <1>2, FieldsAre

\* Evidence of a stop is accepted only when a dispatcher that stopped could have left
\* it, whatever other tasks did (Evaluations!StopShown), for all observations.
THEOREM StopShownAlways == EvalSpec => []StopShown
<1>1. EvalInit => StopInv
  <2> SUFFICES ASSUME EvalInit, job.tool = "stop" PROVE job.stop \in Stops /\ run.pc = "asked"
    BY DEF StopInv
  <2>1. job \in [tool : {"stop"}, stop : Stops]
    BY DEF EvalInit
  <2> QED
    BY <2>1 DEF EvalInit
<1>2. StopInv /\ [EvalNext]_toolVars => StopInv'
  <2> SUFFICES ASSUME StopInv, [EvalNext]_toolVars PROVE StopInv'
    OBVIOUS
  <2>1. CASE AssertStop
    <3>1. PICK found : found = AssertObservations(job.stop.records, job.stop.ack, job.stop.attempted)
      OBVIOUS
    <3>2. job' = job /\ job.tool = "stop" /\ run' = [pc |-> "answered", found |-> found]
      BY <2>1, <3>1 DEF AssertStop, Asked
    <3> QED
      BY <3>1, <3>2 DEF StopInv
  <2>2. CASE JudgeReport \/ ScoreMerged \/ CombineScopes
    BY <2>2 DEF JudgeReport, ScoreMerged, CombineScopes, Asked, StopInv
  <2>3. CASE UNCHANGED toolVars
    BY <2>3 DEF toolVars, StopInv
  <2> QED
    BY <2>1, <2>2, <2>3 DEF EvalNext
<1>3. StopInv => StopShown
  <2> SUFFICES ASSUME StopInv, Answered("stop") PROVE StopShown
    BY DEF StopShown
  <2>1. PICK r, ack, attempted : r = job.stop.records /\ ack = job.stop.ack /\ attempted = job.stop.attempted
    OBVIOUS
  <2>2. PICK found : found = run.found
    OBVIOUS
  <2>3. found = AssertObservations(r, ack, attempted) /\ r \in Seq(Observation) /\ ack \in 0..Len(r)
    BY <2>1, <2>2, StopAssumption DEF StopInv, Answered, StopAssumption
  <2>4. found.ok =>
           /\ Running(r, ack) = found.running
           /\ \A i \in ack..(Len(r) - 1) : Running(r, i + 1) \subseteq Running(r, i)
           /\ found.completed = found.running \ Running(r, Len(r))
           /\ \A c \in attempted : \E i \in ack..Len(r) : r[i].kind = "denied" /\ r[i].own /\ r[i].call = c
    <3> SUFFICES ASSUME found.ok
                 PROVE  /\ Running(r, ack) = found.running
                        /\ \A i \in ack..(Len(r) - 1) : Running(r, i + 1) \subseteq Running(r, i)
                        /\ found.completed = found.running \ Running(r, Len(r))
                        /\ \A c \in attempted : \E i \in ack..Len(r) : r[i].kind = "denied" /\ r[i].own /\ r[i].call = c
      OBVIOUS
    <3>1. /\ Convincing(r, ack, attempted)
          /\ found.running = RunningAt(r, ack) /\ found.completed = CompletedAfter(r, ack)
      BY <2>3, AnswerSays
    <3> QED
      BY <2>3, <3>1, EvidenceReplayed
  <2>5. \A i \in 1..Len(r) : (ack # 0 /\ r[ack].own /\ ~r[i].own) =>
           found = AssertObservations(Without(r, i), IF i < ack THEN ack - 1 ELSE ack, attempted)
    <3> SUFFICES ASSUME NEW i \in 1..Len(r), ack # 0, r[ack].own, ~r[i].own
                 PROVE  found = AssertObservations(Without(r, i), IF i < ack THEN ack - 1 ELSE ack, attempted)
      OBVIOUS
    <3>1. ack \in 1..Len(r) /\ ack # i
      BY <2>3, LenProperties
    <3>2. PICK q : q = Without(r, i)
      OBVIOUS
    <3>3. Thinned(q, r, i)
      BY <2>3, <3>2, ThinnedBy
    <3> QED
      BY <2>3, <3>1, <3>2, <3>3, AnswerThinned
  <2> QED
    BY <2>1, <2>2, <2>4, <2>5 DEF StopShown
<1> QED
  BY <1>1, <1>2, <1>3, PTL DEF EvalSpec
-----------------------------------------------------------------------------
(* Sums and quotients.                                                     *)

LEMMA LeastOf ==
    ASSUME NEW T, T \subseteq Nat, T # {} PROVE \E x \in T : \A y \in T : x <= y
<1>1. PICK R : R = OpToRel(<, Nat) /\ IsWellFoundedOn(R, Nat)
  BY NatLessThanWellFounded
<1>2. PICK x \in T : \A y \in T : ~ (<<y, x>> \in R)
  BY <1>1, WFMin
<1>3. \A y \in T : ~ (y < x)
  BY <1>1, <1>2 DEF OpToRel
<1> QED
  BY <1>3

\* What holds of 0, and of a number if of the one before, holds up to n.
LEMMA UpTo ==
    ASSUME NEW n \in Nat, NEW G, G \subseteq 0..n, 0 \in G, \A k \in 1..n : k - 1 \in G => k \in G
    PROVE  G = 0..n
<1>1. PICK T : T = (0..n) \ G
  OBVIOUS
<1>2. ASSUME T # {} PROVE FALSE
  <2>1. T \subseteq Nat
    BY <1>1
  <2>2. PICK x \in T : \A y \in T : x <= y
    BY <1>2, <2>1, LeastOf
  <2>3. x \in 1..n
    BY <1>1
  <2>4. x - 1 \in 0..n /\ ~(x <= x - 1)
    BY <2>3
  <2>5. x - 1 \in G
    BY <1>1, <2>2, <2>4
  <2> QED
    BY <1>1, <2>3, <2>5
<1> QED
  BY <1>1, <1>2

Sums(n, v, g) == g \in [0..n -> Int] /\ g[0] = 0 /\ \A k \in 1..n : g[k] = g[k - 1] + v[k]
Summed(n, v) == \E g : Sums(n, v, g)

LEMMA SumsExist ==
    ASSUME NEW n \in Nat, NEW v \in [1..n -> Int]
    PROVE  Summed(n, v)
<1> DEFINE Good == {m \in 0..n : Summed(m, v)}
<1>1. 0 \in Good
  <2>1. Sums(0, v, [k \in 0..0 |-> 0])
    BY DEF Sums
  <2> QED
    BY <2>1 DEF Summed
<1>2. ASSUME NEW k \in 1..n, k - 1 \in Good PROVE k \in Good
  <2>1. PICK g : Sums(k - 1, v, g)
    BY <1>2 DEF Summed
  <2>2. PICK h : h = [i \in 0..k |-> IF i = k THEN g[k - 1] + v[k] ELSE g[i]]
    OBVIOUS
  <2>3. g \in [0..(k - 1) -> Int] /\ k - 1 \in 0..(k - 1) /\ 0 \in 0..(k - 1) /\ k # 0
    BY <2>1 DEF Sums
  <2>4. g[k - 1] \in Int /\ v[k] \in Int
    BY <2>3
  <2>5. h \in [0..k -> Int]
    <3>1. ASSUME NEW i \in 0..k PROVE h[i] \in Int
      <4>1. CASE i = k
        BY <2>2, <2>4, <4>1
      <4>2. CASE i # k
        <5>1. i \in 0..(k - 1)
          BY <4>2
        <5> QED
          BY <2>2, <2>3, <4>2, <5>1
      <4> QED
        BY <4>1, <4>2
    <3> QED
      BY <2>2, <3>1
  <2>6. h[0] = 0
    BY <2>1, <2>2, <2>3 DEF Sums
  <2>7. ASSUME NEW i \in 1..k PROVE h[i] = h[i - 1] + v[i]
    <3>1. i - 1 \in 0..k /\ i - 1 # k /\ i \in 0..k
      OBVIOUS
    <3>2. CASE i = k
      BY <2>2, <3>1, <3>2
    <3>3. CASE i # k
      <4>1. i \in 1..(k - 1)
        BY <3>3
      <4>2. g[i] = g[i - 1] + v[i]
        BY <2>1, <4>1 DEF Sums
      <4> QED
        BY <2>2, <3>1, <3>3, <4>2
    <3> QED
      BY <3>2, <3>3
  <2>8. Sums(k, v, h)
    BY <2>5, <2>6, <2>7 DEF Sums
  <2>9. Summed(k, v)
    BY <2>8 DEF Summed
  <2> QED
    BY <2>9
<1>3. Good = 0..n
  <2> HIDE DEF Good
  <2>1. Good \subseteq 0..n
    BY DEF Good
  <2> QED
    BY <1>1, <1>2, <2>1, UpTo
<1>4. n \in Good
  BY <1>3
<1> QED
  BY <1>4

\* The sum of a list is the last of its partial sums.
LEMMA TotalIs ==
    ASSUME NEW n \in Nat, NEW v \in [1..n -> Int]
    PROVE  \E g : Sums(n, v, g) /\ Total(v) = g[n]
<1>1. PICK g : Sums(n, v, g)
  BY SumsExist DEF Summed
<1>2. v \in Seq(Int) /\ Len(v) = n
  OBVIOUS
<1> DEFINE sum == CHOOSE s : s = [k \in 0..n |-> IF k = 0 THEN 0 ELSE s[k - 1] + v[k]]
<1>3. g = [k \in 0..n |-> IF k = 0 THEN 0 ELSE g[k - 1] + v[k]]
  <2>1. \A k \in 0..n : g[k] = IF k = 0 THEN 0 ELSE g[k - 1] + v[k]
    BY <1>1 DEF Sums
  <2> QED
    BY <1>1, <2>1 DEF Sums
<1>4. sum = [k \in 0..n |-> IF k = 0 THEN 0 ELSE sum[k - 1] + v[k]]
  BY <1>3
<1>5. Total(v) = sum[n]
  BY <1>2 DEF Total
<1> HIDE DEF sum
<1>6. Sums(n, v, sum)
  <2>1. ASSUME NEW k \in 0..n PROVE sum[k] = g[k]
    <3> DEFINE Same == {m \in 0..n : sum[m] = g[m]}
    <3>1. 0 \in Same
      BY <1>1, <1>4 DEF Sums
    <3>2. ASSUME NEW m \in 1..n, m - 1 \in Same PROVE m \in Same
      <4>1. m \in 0..n /\ m # 0
        OBVIOUS
      <4>2. sum[m] = sum[m - 1] + v[m]
        BY <1>4, <4>1
      <4>3. g[m] = g[m - 1] + v[m]
        BY <1>3, <4>1
      <4> QED
        BY <3>2, <4>1, <4>2, <4>3
    <3>3. Same = 0..n
      <4> HIDE DEF Same
      <4>1. Same \subseteq 0..n
        BY DEF Same
      <4> QED
        BY <3>1, <3>2, <4>1, UpTo
    <3> QED
      BY <3>3
  <2>2. DOMAIN sum = 0..n /\ sum = [k \in 0..n |-> sum[k]]
    BY <1>4
  <2>3. sum = g
    BY <1>1, <2>1, <2>2 DEF Sums
  <2> QED
    BY <1>1, <2>3
<1> QED
  BY <1>5, <1>6
\* Numbers between 0 and a limit at some places, 0 at the others.
LEMMA TotalBound ==
    ASSUME NEW n \in Nat, NEW v \in [1..n -> Int], NEW S, S \subseteq 1..n, NEW limit \in Nat,
           \A i \in 1..n : IF i \in S THEN v[i] \in 0..limit ELSE v[i] = 0
    PROVE  Total(v) \in Nat /\ Cardinality(S) \in Nat /\ Total(v) <= limit * Cardinality(S)
<1>1. PICK g : Sums(n, v, g) /\ Total(v) = g[n]
  BY TotalIs
<1> DEFINE Upto(k) == S \intersect (1..k)
           Good == {k \in 0..n : g[k] >= 0 /\ g[k] <= limit * Cardinality(Upto(k))}
<1>2. ASSUME NEW k \in 0..n PROVE IsFiniteSet(Upto(k)) /\ Cardinality(Upto(k)) \in Nat /\ g[k] \in Int
  <2>1. IsFiniteSet(1..k)
    BY FS_Interval
  <2>2. IsFiniteSet(Upto(k))
    BY <2>1, FS_Subset
  <2> QED
    BY <1>1, <2>2, FS_CardinalityType DEF Sums
<1>3. 0 \in Good
  <2>1. Upto(0) = {} /\ Cardinality(Upto(0)) = 0
    BY FS_EmptySet
  <2>2. limit * 0 = 0
    OBVIOUS
  <2> QED
    BY <1>1, <2>1, <2>2 DEF Sums
<1>4. ASSUME NEW k \in 1..n, k - 1 \in Good PROVE k \in Good
  <2>1. g[k] = g[k - 1] + v[k] /\ k - 1 \in 0..n /\ k \in 0..n /\ v[k] \in Int
    BY <1>1 DEF Sums
  <2>2. g[k - 1] >= 0 /\ g[k - 1] <= limit * Cardinality(Upto(k - 1))
    BY <1>4
  <2>3. CASE k \in S
    <3>1. Upto(k) = Upto(k - 1) \union {k} /\ k \notin Upto(k - 1)
      BY <2>1, <2>3
    <3>2. IsFiniteSet(Upto(k - 1)) /\ Cardinality(Upto(k - 1)) \in Nat /\ g[k - 1] \in Int
      BY <1>2, <2>1
    <3>3. Cardinality(Upto(k)) = Cardinality(Upto(k - 1)) + 1
      <4> HIDE DEF Upto
      <4> QED
        BY <3>1, <3>2, FS_AddElement
    <3>4. PICK c \in Nat : c = Cardinality(Upto(k - 1))
      BY <3>2
    <3>5. limit * (c + 1) = limit * c + limit /\ limit * c \in Nat
      OBVIOUS
    <3>6. v[k] \in 0..limit
      BY <2>3
    <3> HIDE DEF Upto
    <3>7. g[k] >= 0 /\ g[k] <= limit * Cardinality(Upto(k))
      <4>1. g[k] = g[k - 1] + v[k] /\ g[k - 1] >= 0 /\ g[k - 1] <= limit * c
        BY <2>1, <2>2, <3>2, <3>4
      <4>2. g[k - 1] \in Int /\ v[k] \in Int /\ v[k] >= 0 /\ v[k] <= limit
        BY <3>2, <3>6
      <4>3. Cardinality(Upto(k)) = c + 1
        BY <3>3, <3>4
      <4> QED
        BY <3>5, <4>1, <4>2, <4>3
    <3> QED
      BY <2>1, <3>7
  <2>4. CASE k \notin S
    <3>1. Upto(k) = Upto(k - 1)
      BY <2>1, <2>4
    <3>2. v[k] = 0 /\ g[k - 1] \in Int
      BY <1>2, <2>1, <2>4
    <3>3. g[k] = g[k - 1]
      BY <2>1, <3>2
    <3> QED
      BY <2>1, <2>2, <3>1, <3>3
  <2> QED
    BY <2>3, <2>4
<1>5. Good = 0..n
  <2> HIDE DEF Good
  <2>1. Good \subseteq 0..n
    BY DEF Good
  <2> QED
    BY <1>3, <1>4, <2>1, UpTo
<1>6. n \in 0..n /\ n \in Good
  <2> HIDE DEF Good
  <2> QED
    BY <1>5
<1>7. Upto(n) = S
  OBVIOUS
<1>8. g[n] >= 0 /\ g[n] <= limit * Cardinality(Upto(n))
  BY <1>6
<1>9. Cardinality(Upto(n)) \in Nat /\ g[n] \in Int
  BY <1>2, <1>6
<1> HIDE DEF Good, Upto
<1> QED
  BY <1>1, <1>7, <1>8, <1>9

\* A list of numbers that are nowhere greater has no greater sum.
LEMMA TotalGrows ==
    ASSUME NEW n \in Nat, NEW v \in [1..n -> Int], NEW w \in [1..n -> Int],
           \A i \in 1..n : 0 <= v[i] /\ v[i] <= w[i]
    PROVE  Total(v) \in Nat /\ Total(w) \in Nat /\ Total(v) <= Total(w)
<1>1. PICK g : Sums(n, v, g) /\ Total(v) = g[n]
  BY TotalIs
<1>2. PICK h : Sums(n, w, h) /\ Total(w) = h[n]
  BY TotalIs
<1> DEFINE Good == {k \in 0..n : 0 <= g[k] /\ g[k] <= h[k]}
<1>3. 0 \in Good
  BY <1>1, <1>2 DEF Sums
<1>4. ASSUME NEW k \in 1..n, k - 1 \in Good PROVE k \in Good
  <2>1. /\ g[k] = g[k - 1] + v[k] /\ h[k] = h[k - 1] + w[k] /\ k - 1 \in 0..n /\ k \in 0..n
        /\ v[k] \in Int /\ w[k] \in Int
    BY <1>1, <1>2 DEF Sums
  <2>2. g[k - 1] \in Int /\ h[k - 1] \in Int /\ 0 <= g[k - 1] /\ g[k - 1] <= h[k - 1]
    BY <1>1, <1>2, <1>4, <2>1 DEF Sums
  <2>3. 0 <= v[k] /\ v[k] <= w[k]
    OBVIOUS
  <2> QED
    BY <2>1, <2>2, <2>3
<1>5. Good = 0..n
  <2> HIDE DEF Good
  <2>1. Good \subseteq 0..n
    BY DEF Good
  <2> QED
    BY <1>3, <1>4, <2>1, UpTo
<1>6. n \in Good /\ n \in 0..n
  BY <1>5
<1> QED
  BY <1>1, <1>2, <1>6 DEF Sums

LEMMA Quotient ==
    ASSUME NEW a \in Nat, NEW c \in Nat, c > 0, NEW limit \in Nat, a <= limit * c
    PROVE  a \div c \in 0..limit
<1>1. PICK q \in Int, r \in Int : q = a \div c /\ r = a % c /\ a = c * q + r /\ 0 <= r /\ r < c
  OBVIOUS
<1>2. q >= 0
  <2>1. ASSUME q <= -1 PROVE FALSE
    <3>1. c * q <= c * (-1)
      BY <2>1
    <3> QED
      BY <1>1, <3>1
  <2> QED
    BY <2>1
<1>3. q <= limit
  <2>1. ASSUME q >= limit + 1 PROVE FALSE
    <3>1. c * q >= c * (limit + 1) /\ c * (limit + 1) = limit * c + c
      BY <2>1
    <3> QED
      BY <1>1, <3>1
  <2> QED
    BY <2>1
<1> QED
  BY <1>1, <1>2, <1>3

LEMMA RoundBound ==
    ASSUME NEW a \in Nat, NEW c \in Nat, c > 0, NEW limit \in Nat, a <= limit * c
    PROVE  RoundHalfEven(a, c) \in 0..limit
<1>1. PICK q \in 0..limit : q = a \div c
  BY Quotient
<1>2. PICK r \in Int : r = a % c /\ a = c * q + r /\ 0 <= r /\ r < c
  BY <1>1
<1>3. CASE q = limit
  <2>1. c * q = limit * c
    BY <1>3
  <2>2. r = 0
    BY <1>2, <2>1
  <2>3. 2 * (a % c) < c
    BY <1>2, <2>2
  <2> QED
    BY <1>1, <2>3 DEF RoundHalfEven
<1>4. CASE q # limit
  BY <1>1, <1>4 DEF RoundHalfEven
<1> QED
  BY <1>3, <1>4
-----------------------------------------------------------------------------
(* The resilience score of a report.                                       *)

Statuses == {"passed", "failed", "inconclusive"}
Parts == {NoValue} \union 0..One
IsReport(report) ==
    /\ report.events \in Seq([id : Nat, type : {"fault"}, outcome : {"errored", "degraded"}, fidelity : {NoValue}])
    /\ report.probes \in Seq([phase : {"pre", "during", "post"}, passed : BOOLEAN, weight : {1}])
    /\ \E n \in Nat : DOMAIN report.calls = 1..n

LEMMA EventValueIn ==
    ASSUME NEW report, NEW event, event.outcome \in {"errored", "degraded"}, event.fidelity = NoValue
    PROVE  EventValue(report, event) \in Parts
<1>1. PICK verdict : verdict = EventVerdict(report, event)
  OBVIOUS
<1>2. AfterFailure(event, CallSet(report)) \in {"retried", "fallback", "unrecovered"}
  BY DEF AfterFailure
<1>3. verdict \in {"retried", "fallback", "unrecovered", "escaped", "unverified", "tolerated"}
  BY <1>1, <1>2 DEF EventVerdict
<1> QED
  BY <1>1, <1>3 DEF EventValue, Parts, One

LEMMA RecoveryIn == ASSUME NEW report, IsReport(report) PROVE Recovery(report) \in Parts
<1> DEFINE n == Len(report.events)
           value == [i \in DOMAIN report.events |-> EventValue(report, report.events[i])]
           valued == {i \in DOMAIN value : value[i] # NoValue}
<1>0. One \in Nat
  BY DEF One
<1>1. n \in Nat /\ DOMAIN report.events = 1..n
  BY DEF IsReport
<1>2. ASSUME NEW i \in 1..n PROVE value[i] \in Parts
  <2>1. report.events[i] \in [id : Nat, type : {"fault"}, outcome : {"errored", "degraded"}, fidelity : {NoValue}]
    BY <1>1, ElementOfSeq DEF IsReport
  <2>2. value[i] = EventValue(report, report.events[i])
    BY <1>1
  <2> HIDE DEF value
  <2> QED
    BY <2>1, <2>2, EventValueIn
<1>3. DOMAIN value = 1..n /\ valued \subseteq 1..n
  BY <1>1
<1>4. \A i \in 1..n : IF i \in valued THEN value[i] \in 0..One ELSE TRUE
  <2> HIDE DEF value
  <2> QED
    BY <1>2, <1>3 DEF Parts
<1>5. Recovery(report) = IF valued = {} THEN NoValue ELSE Total(Only(value, valued)) \div Cardinality(valued)
  BY DEF Recovery
<1> HIDE DEF value, valued, n
<1>6. PICK only : only = Only(value, valued)
  OBVIOUS
<1>7. only \in [1..n -> Int] /\ \A i \in 1..n : IF i \in valued THEN only[i] \in 0..One ELSE only[i] = 0
  BY <1>3, <1>4, <1>6, SMTT(30) DEF Only, One
<1>8. Total(only) \in Nat /\ Cardinality(valued) \in Nat /\ Total(only) <= One * Cardinality(valued)
  BY <1>0, <1>1, <1>3, <1>7, TotalBound
<1>9. CASE valued # {}
  <2>0. IsFiniteSet(1..n)
    BY <1>1, FS_Interval
  <2>1. IsFiniteSet(valued)
    BY <1>3, <2>0, FS_Subset
  <2>2. Cardinality(valued) > 0
    BY <1>8, <1>9, <2>1, FS_EmptySet
  <2>3. Total(only) \div Cardinality(valued) \in 0..One
    BY <1>0, <1>8, <2>2, Quotient
  <2> QED
    BY <1>5, <1>6, <1>9, <2>3 DEF Parts
<1> QED
  BY <1>5, <1>9 DEF Parts

LEMMA ProbesIn == ASSUME NEW report, IsReport(report) PROVE Probes(report) \in Parts
<1> DEFINE n == Len(report.probes)
           counted == {i \in DOMAIN report.probes : report.probes[i].phase \in {"during", "post"}}
           share == [i \in DOMAIN report.probes |->
                        report.probes[i].weight * (IF report.probes[i].phase = "during" THEN 1 ELSE 2)]
           good == {i \in counted : report.probes[i].passed}
<1>0. One \in Nat
  BY DEF One
<1>1. n \in Nat /\ DOMAIN report.probes = 1..n
  BY DEF IsReport
<1>2. ASSUME NEW i \in 1..n PROVE share[i] \in 1..2
  <2>1. report.probes[i] \in [phase : {"pre", "during", "post"}, passed : BOOLEAN, weight : {1}]
    BY <1>1, ElementOfSeq DEF IsReport
  <2> QED
    BY <1>1, <2>1
<1>3. DOMAIN share = 1..n /\ good \subseteq counted /\ counted \subseteq 1..n
  BY <1>1
<1>4. Probes(report) = IF Total(Only(share, counted)) = 0 THEN NoValue
                       ELSE (One * Total(Only(share, good))) \div Total(Only(share, counted))
  BY DEF Probes
<1> HIDE DEF n, counted, share, good
<1>5. PICK few, all : few = Only(share, good) /\ all = Only(share, counted)
  OBVIOUS
<1>6. /\ few \in [1..n -> Int] /\ all \in [1..n -> Int]
      /\ \A i \in 1..n : 0 <= few[i] /\ few[i] <= all[i]
  BY <1>2, <1>3, <1>5 DEF Only
<1>7. Total(few) \in Nat /\ Total(all) \in Nat /\ Total(few) <= Total(all)
  BY <1>1, <1>6, TotalGrows
<1>8. CASE Total(all) # 0
  <2>1. PICK a \in Nat, c \in Nat : a = Total(few) /\ c = Total(all) /\ a <= c /\ c > 0
    BY <1>7, <1>8
  <2>2. One * a \in Nat /\ One * a <= One * c
    BY <2>1 DEF One
  <2>3. (One * a) \div c \in 0..One
    BY <1>0, <2>1, <2>2, Quotient
  <2> QED
    BY <1>4, <1>5, <1>8, <2>1, <2>3 DEF Parts
<1> QED
  BY <1>4, <1>5, <1>8 DEF Parts
LEMMA ImageFinite ==
    ASSUME NEW S, IsFiniteSet(S), NEW f, NEW T, T = {f[x] : x \in S} PROVE IsFiniteSet(T)
<1>1. PICK g : g = [x \in S |-> f[x]]
  OBVIOUS
<1>2. g \in [S -> T] /\ \A t \in T : \E x \in S : g[x] = t
  BY <1>1
<1>3. g \in Surjection(S, T)
  BY <1>2 DEF Surjection
<1> QED
  BY <1>3, FS_Surjection

LEMMA RetryEfficiencyIn == ASSUME NEW report, IsReport(report) PROVE RetryEfficiency(report) \in Parts
<1>0. One \in Nat
  BY DEF One
<1>1. PICK f : f = Cardinality(InjectedFailures(report))
  OBVIOUS
<1>2. PICK r : r = Cardinality(FindRetries(report))
  OBVIOUS
<1>3. f \in Nat
  <2>1. Len(report.events) \in Nat /\ InjectedFailures(report) \subseteq 1..Len(report.events)
    BY DEF InjectedFailures, IsReport
  <2>2. IsFiniteSet(1..Len(report.events))
    BY <2>1, FS_Interval
  <2>3. IsFiniteSet(InjectedFailures(report))
    BY <2>1, <2>2, FS_Subset
  <2> QED
    BY <1>1, <2>3, FS_CardinalityType
<1>4. r \in Nat
  <2>1. PICK n \in Nat : DOMAIN report.calls = 1..n
    BY DEF IsReport
  <2>2. IsFiniteSet(1..n)
    BY FS_Interval
  <2>3. PICK calls : calls = report.calls
    OBVIOUS
  <2>a. IsFiniteSet({calls[i] : i \in 1..n})
    BY <2>2, ImageFinite
  <2>4. Cardinality(CallSet(report)) \in Nat
    BY <2>1, <2>3, <2>a, FS_CardinalityType DEF CallSet
  <2> DEFINE ordered == OrderedCalls(report)
             retried == {i \in DOMAIN ordered : ordered[i].name # Unnamed /\ StreakBefore(ordered, i) > 0}
             Retry(k) == [step |-> ordered[k].name, at |-> ordered[k].at, streak |-> StreakBefore(ordered, k), n |-> k]
  <2>5. DOMAIN ordered = 1..Cardinality(CallSet(report))
    BY DEF OrderedCalls, InStartOrder
  <2>6. FindRetries(report) = {Retry(k) : k \in retried}
    BY DEF FindRetries
  <2> HIDE DEF ordered
  <2>7. IsFiniteSet(DOMAIN ordered)
    BY <2>4, <2>5, FS_Interval
  <2>8. retried \subseteq DOMAIN ordered
    OBVIOUS
  <2> HIDE DEF retried
  <2>9. IsFiniteSet(retried)
    BY <2>7, <2>8, FS_Subset
  <2>10. PICK made : made = [k \in retried |-> Retry(k)]
    OBVIOUS
  <2> HIDE DEF Retry
  <2>11. FindRetries(report) = {made[k] : k \in retried}
    BY <2>6, <2>10
  <2>12. IsFiniteSet({made[k] : k \in retried})
    BY <2>9, ImageFinite
  <2> QED
    BY <1>2, <2>11, <2>12, FS_CardinalityType
<1>5. RetryEfficiency(report) \in {NoValue, Least(One, (One * f) \div r)}
  BY <1>1, <1>2 DEF RetryEfficiency
<1>6. r # 0 => Least(One, (One * f) \div r) \in 0..One
  <2>1. ASSUME r # 0 PROVE Least(One, (One * f) \div r) \in 0..One
    <3>1. One * f \in Nat /\ r > 0 /\ One * f <= (One * f) * r
      BY <1>0, <1>3, <1>4, <2>1
    <3>2. (One * f) \div r \in 0..(One * f)
      BY <1>4, <3>1, Quotient
    <3>3. PICK q \in Nat : q = (One * f) \div r
      BY <3>2
    <3> QED
      BY <1>0, <3>3 DEF Least
  <2> QED
    BY <2>1
<1>7. r = 0 => RetryEfficiency(report) = NoValue
  BY <1>2 DEF RetryEfficiency
<1> QED
  BY <1>5, <1>6, <1>7 DEF Parts

\* A weight times a part, of those parts that are scored.
LEMMA PartBound ==
    ASSUME NEW w \in Nat, NEW part \in 0..One
    PROVE  w * part \in Nat /\ w * part <= w * One
<1>1. One \in Nat
  BY DEF One
<1> QED
  BY <1>1 DEF One

\* Without a baseline, and with the default weights, a report has a score of
\* 0..100 or none; it has one only if a fault fired in a real run that began in
\* steady state.
LEMMA ScoreIn ==
    ASSUME NEW report, IsReport(report), NEW score, score = ComputeResilience(report, NoReport, DefaultWeights)
    PROVE  /\ score \in {NoValue} \union 0..100
           /\ score # NoValue => report.events # <<>> /\ ~report.dry /\ ~FailedPre(report)
<1> DEFINE parts == Components(report, NoReport)
           weights == DefaultWeights
           scored == {c \in DOMAIN parts : parts[c] # NoValue /\ weights[c] > 0}
           total == OfComponents(Only(weights, scored))
           sum == OfComponents([c \in DOMAIN parts |-> IF c \in scored THEN weights[c] * parts[c] ELSE 0])
           names == {"recovery", "probes", "latency", "retryEfficiency", "cost"}
<1>1. score = IF report.events # <<>> /\ ~report.dry /\ ~FailedPre(report) /\ scored # {}
              THEN RoundHalfEven(100 * sum, total * One) ELSE NoValue
  BY DEF ComputeResilience
<1>2. /\ DOMAIN parts = names /\ parts["latency"] = NoValue /\ parts["cost"] = NoValue
      /\ parts["recovery"] \in Parts /\ parts["probes"] \in Parts /\ parts["retryEfficiency"] \in Parts
  <2>1. parts = [recovery |-> Recovery(report), probes |-> Probes(report), latency |-> Latency(report, NoReport),
                 retryEfficiency |-> RetryEfficiency(report), cost |-> Cost(report, NoReport)]
    BY DEF Components
  <2>2. Latency(report, NoReport) = NoValue /\ Cost(report, NoReport) = NoValue
    BY DEF Latency, Cost
  <2>3. Recovery(report) \in Parts /\ Probes(report) \in Parts /\ RetryEfficiency(report) \in Parts
    BY RecoveryIn, ProbesIn, RetryEfficiencyIn
  <2> HIDE DEF parts
  <2> QED
    BY <2>1, <2>2, <2>3
<1>3. /\ DOMAIN weights = names /\ weights["recovery"] = 35 /\ weights["probes"] = 25
      /\ weights["latency"] = 15 /\ weights["retryEfficiency"] = 15 /\ weights["cost"] = 10
  BY DEF DefaultWeights
<1> HIDE DEF parts, weights
<1>4. scored \subseteq {"recovery", "probes", "retryEfficiency"}
  BY <1>2
<1>5. \A c \in scored : parts[c] \in 0..One
  BY <1>2, <1>4 DEF Parts
<1>6. PICK share : share = [c \in DOMAIN parts |-> IF c \in scored THEN weights[c] * parts[c] ELSE 0]
  OBVIOUS
<1>7. PICK kept : kept = Only(weights, scored)
  OBVIOUS
<1>8. \A c \in names : /\ kept[c] = IF c \in scored THEN weights[c] ELSE 0
                       /\ share[c] = IF c \in scored THEN weights[c] * parts[c] ELSE 0
  BY <1>2, <1>3, <1>6, <1>7 DEF Only
<1>9. total = OfComponents(kept) /\ sum = OfComponents(share)
  BY <1>6, <1>7
<1> HIDE DEF scored
<1>10. ASSUME NEW c \in names
       PROVE  share[c] \in Nat /\ kept[c] \in 0..100 /\ share[c] <= One * kept[c] /\ (c \in scored => kept[c] > 0)
  <2>1. weights[c] \in 1..100
    BY <1>3
  <2>2. CASE c \in scored
    <3>1. PICK w \in Nat, part \in 0..One : w = weights[c] /\ part = parts[c]
      BY <1>5, <2>1, <2>2
    <3>2. w * part \in Nat /\ w * part <= w * One
      BY PartBound
    <3>3. w * One = One * w
      BY DEF One
    <3> QED
      BY <1>8, <2>1, <2>2, <3>1, <3>2, <3>3
  <2>3. CASE c \notin scored
    BY <1>8, <2>3 DEF One
  <2> QED
    BY <2>2, <2>3
<1>11. /\ total = kept["recovery"] + kept["probes"] + kept["latency"] + kept["retryEfficiency"] + kept["cost"]
       /\ sum = share["recovery"] + share["probes"] + share["latency"] + share["retryEfficiency"] + share["cost"]
  BY <1>9 DEF OfComponents
<1> HIDE DEF total, sum
<1>12. total \in Nat /\ sum \in Nat /\ sum <= total * One /\ (scored # {} => total > 0)
  <2>1. PICK r \in 0..100, p \in 0..100, l \in 0..100, e \in 0..100, c \in 0..100 :
           /\ r = kept["recovery"] /\ p = kept["probes"] /\ l = kept["latency"]
           /\ e = kept["retryEfficiency"] /\ c = kept["cost"]
    BY <1>10
  <2>2. ("recovery" \in scored => r > 0) /\ ("probes" \in scored => p > 0) /\ ("retryEfficiency" \in scored => e > 0)
    BY <1>10, <2>1
  <2>3. total = r + p + l + e + c
    BY <1>11, <2>1
  <2>4. scored # {} => r > 0 \/ p > 0 \/ e > 0
    BY <1>4, <2>2
  <2>5. PICK a1 \in Nat, a2 \in Nat, a3 \in Nat, a4 \in Nat, a5 \in Nat :
           /\ a1 = share["recovery"] /\ a2 = share["probes"] /\ a3 = share["latency"]
           /\ a4 = share["retryEfficiency"] /\ a5 = share["cost"]
    BY <1>10
  <2>6. a1 <= One * r /\ a2 <= One * p /\ a3 <= One * l /\ a4 <= One * e /\ a5 <= One * c
    BY <1>10, <2>1, <2>5
  <2>7. sum = a1 + a2 + a3 + a4 + a5
    BY <1>11, <2>5
  <2> QED
    BY <2>3, <2>4, <2>6, <2>7 DEF One
<1>13. scored # {} => RoundHalfEven(100 * sum, total * One) \in 0..100
  <2>1. 100 * sum \in Nat /\ total * One \in Nat /\ 100 * sum <= 100 * (total * One)
    BY <1>12 DEF One
  <2>2. scored # {} => total * One > 0
    BY <1>12 DEF One
  <2> QED
    BY <2>1, <2>2, RoundBound
<1> QED
  BY <1>1, <1>13
-----------------------------------------------------------------------------
(* Runs under chaos.                                                       *)

RunSpec == RunInit /\ [][RunNext]_toolVars

CallForm == [sequence : Nat, kind : {"call"}, name : {"planner", "writer", Unnamed}, ok : BOOLEAN,
             event : Nat, at : Nat, stage : {0}]
EventForm == [id : Nat, type : {"fault"}, outcome : {"errored", "degraded"}, fidelity : {NoValue}]
ProbeForm == [phase : {"pre", "during", "post"}, passed : BOOLEAN, weight : {1}]
StageNames == {"topology", "score", "record", "save", "check"}
RunForm ==
    [pc : {"baseline", "pre", "target", "during", "post", "closing", "end"},
     calls : Seq(CallForm), events : Seq(EventForm), probes : Seq(ProbeForm),
     ended : {"no", "returns", "raises", "carries", "exits"}, cause : Nat, aborted : BOOLEAN, open : BOOLEAN,
     todo : Seq(StageNames), nodes : SUBSET {"planner", "writer"}, score : {NoValue} \union 0..100,
     stored : Nat, saved : BOOLEAN, checked : Seq(Statuses),
     verdict : {"none", "passed", "failed", "broken", "interrupted", "own code", "returned"}]

Left(todo, name) == \E i \in 1..Len(todo) : todo[i] = name
Distinct(todo) == \A i, k \in 1..Len(todo) : i # k => todo[i] # todo[k]

\* The target may run: the system was steady, or the caller asked for it anyway.
Allowed == Steady \/ ~job.requireSteady

\* What a run has done at each point, and what is left to do of its closing.
RunInv ==
    /\ job \in RunJobs /\ run \in RunForm
    /\ run.pc # "end" => run.verdict = "none"
    /\ run.pc \in {"baseline", "pre"} => run.probes = <<>> /\ run.events = <<>> /\ ~run.open
    /\ run.pc \in {"baseline", "pre", "target"} => run.ended = "no"
    /\ run.pc \in {"baseline", "pre", "target", "during", "post"} =>
          run.todo = <<>> /\ run.stored = 0 /\ run.score = NoValue
    /\ run.pc \in {"target", "during", "post"} => Allowed
    /\ run.pc \in {"during", "post"} => run.ended # "no"
    /\ run.events # <<>> \/ run.ended # "no" => Allowed
    /\ run.pc = "closing" =>
          /\ ~run.open /\ Distinct(run.todo)
          /\ job.driver # "api" => run.saved \/ Left(run.todo, "save")
          /\ job.driver # "api" /\ run.ended # "no" =>
                Len(run.checked) = Len(job.contracts) \/ Left(run.todo, "check")
          /\ run.stored = 0 \/ (run.stored = 1 /\ ~Left(run.todo, "record"))
    /\ run.score # NoValue => Steady /\ ~job.dry /\ run.events # <<>>
    /\ run.pc = "end" => GreenIsEarned

LEMMA JobForm ==
    ASSUME job \in RunJobs
    PROVE  /\ job.tool = "run" /\ job.driver \in Drivers /\ job.minimum \in Int \union {NoValue}
           /\ ~job.requireSteady => job.driver = "api"
           /\ Len(job.contracts) \in Nat /\ DOMAIN job.contracts = 1..Len(job.contracts)
           /\ \A i \in DOMAIN job.contracts : job.contracts[i].kind \in ContractKinds
BY RunAssumption DEF RunAssumption

\* A driver's closing names each stage once; a command and a test save, and they
\* check the contracts of a run that had its target.
LEMMA JoinedTo ==
    ASSUME NEW one \in Seq(StageNames), NEW list \in Seq(StageNames), NEW both \in Seq(StageNames), Len(one) = 1,
           Len(both) = Len(list) + 1, both[1] = one[1], \A i \in 1..Len(list) : both[i + 1] = list[i]
    PROVE  one \o list = both
<1>1. PICK joined : joined = one \o list
  OBVIOUS
<1>2. PICK n \in Nat : n = Len(list)
  BY LenProperties
<1>a. one \o list \in Seq(StageNames)
  BY ConcatProperties
<1>b. Len(one \o list) = Len(one) + Len(list)
  BY ConcatProperties
<1>c. \A i \in 1..(Len(one) + Len(list)) : (one \o list)[i] = IF i <= Len(one) THEN one[i] ELSE list[i - Len(one)]
  BY ConcatProperties, Zenon
<1>3. joined \in Seq(StageNames) /\ Len(joined) = 1 + n
  BY <1>1, <1>2, <1>a, <1>b
<1>4. \A i \in 1..(1 + n) : joined[i] = IF i <= 1 THEN one[i] ELSE list[i - 1]
  BY <1>1, <1>2, <1>c
<1>5. ASSUME NEW i \in 1..(1 + n) PROVE joined[i] = both[i]
  <2>1. CASE i = 1
    BY <1>4, <2>1
  <2>2. CASE i # 1
    <3>1. i - 1 \in 1..n /\ (i - 1) + 1 = i
      BY <2>2
    <3>2. both[(i - 1) + 1] = list[i - 1]
      BY <1>2, <3>1
    <3> QED
      BY <1>4, <2>2, <3>1, <3>2
  <2> QED
    BY <2>1, <2>2
<1>6. Len(both) = Len(joined)
  BY <1>2, <1>3
<1> QED
  BY <1>1, <1>3, <1>5, <1>6, SeqEqual

LEMMA Joined ==
    /\ <<"topology">> \o <<"score", "record">> = <<"topology", "score", "record">>
    /\ <<>> \o <<"score", "record">> = <<"score", "record">>
    /\ <<"topology">> \o <<"score", "record", "save", "check">> = <<"topology", "score", "record", "save", "check">>
    /\ <<>> \o <<"score", "save">> = <<"score", "save">>
<1>2. PICK one : one = <<"topology">>
  OBVIOUS
<1>3. one \in Seq(StageNames) /\ Len(one) = 1 /\ one[1] = "topology"
  BY <1>2 DEF StageNames
<1>4. PICK list, both : list = <<"score", "record">> /\ both = <<"topology", "score", "record">>
  OBVIOUS
<1>5. /\ list \in Seq(StageNames) /\ Len(list) = 2 /\ list[1] = "score" /\ list[2] = "record"
      /\ both \in Seq(StageNames) /\ Len(both) = 3 /\ both[1] = "topology" /\ both[2] = "score" /\ both[3] = "record"
  BY <1>4 DEF StageNames
<1>6. one \o list = both
  <2>1. \A i \in 1..Len(list) : both[i + 1] = list[i]
    BY <1>5
  <2>2. Len(both) = Len(list) + 1 /\ both[1] = one[1]
    BY <1>3, <1>5
  <2> QED
    BY <1>3, <1>5, <2>1, <2>2, JoinedTo, Zenon
<1>7. PICK list2, both2 : /\ list2 = <<"score", "record", "save", "check">>
                         /\ both2 = <<"topology", "score", "record", "save", "check">>
  OBVIOUS
<1>8. /\ list2 \in Seq(StageNames) /\ Len(list2) = 4
      /\ list2[1] = "score" /\ list2[2] = "record" /\ list2[3] = "save" /\ list2[4] = "check"
      /\ both2 \in Seq(StageNames) /\ Len(both2) = 5 /\ both2[1] = "topology"
      /\ both2[2] = "score" /\ both2[3] = "record" /\ both2[4] = "save" /\ both2[5] = "check"
  BY <1>7 DEF StageNames
<1>9. one \o list2 = both2
  <2>1. \A i \in 1..Len(list2) : both2[i + 1] = list2[i]
    BY <1>8
  <2>2. Len(both2) = Len(list2) + 1 /\ both2[1] = one[1]
    BY <1>3, <1>8
  <2> QED
    BY <1>3, <1>8, <2>1, <2>2, JoinedTo, Zenon
<1>10. PICK list3 : list3 = <<"score", "save">>
  OBVIOUS
<1>11. list3 \in Seq(StageNames)
  BY <1>10 DEF StageNames
<1>12. <<>> \o list = list /\ <<>> \o list3 = list3
  BY <1>5, <1>11, ConcatEmptySeq
<1> QED
  BY <1>2, <1>4, <1>6, <1>7, <1>9, <1>10, <1>12

LEMMA ClosingHas ==
    ASSUME NEW injected \in BOOLEAN, job.driver \in Drivers, NEW list, list = Closing(injected)
    PROVE  /\ list \in Seq(StageNames) /\ Distinct(list)
           /\ job.driver # "api" => Left(list, "save")
           /\ job.driver # "api" /\ injected => Left(list, "check")
<1>1. job.driver = "api" => list \in {<<"topology", "score", "record">>, <<"score", "record">>}
  BY Joined DEF Closing, ApiClosing
<1>2. job.driver # "api" =>
         \/ list \in {<<"score", "record", "save", "check">>, <<"topology", "score", "record", "save", "check">>,
                      <<"topology", "score", "check", "save">>}
         \/ ~injected /\ list = <<"score", "save">>
  <2>1. CASE job.driver = "command"
    BY <2>1 DEF Closing, CommandClosing
  <2>2. CASE job.driver = "agent"
    BY <2>2, Joined DEF Closing, CommandClosing, AgentClosing
  <2>3. CASE job.driver = "plugin"
    BY <2>3 DEF Closing, PluginClosing, PluginUnsteady
  <2> QED
    BY <2>1, <2>2, <2>3 DEF Drivers
<1>3. CASE list = <<"topology", "score", "record">>
  <2>1. /\ list \in Seq(StageNames) /\ Len(list) = 3
        /\ list[1] = "topology" /\ list[2] = "score" /\ list[3] = "record"
    BY <1>3 DEF StageNames
  <2> QED
    BY <1>2, <1>3, <2>1 DEF Distinct, Left
<1>4. CASE list = <<"score", "record">>
  <2>1. list \in Seq(StageNames) /\ Len(list) = 2 /\ list[1] = "score" /\ list[2] = "record"
    BY <1>4 DEF StageNames
  <2> QED
    BY <1>2, <1>4, <2>1 DEF Distinct, Left
<1>5. CASE list = <<"score", "record", "save", "check">>
  <2>1. /\ list \in Seq(StageNames) /\ Len(list) = 4
        /\ list[1] = "score" /\ list[2] = "record" /\ list[3] = "save" /\ list[4] = "check"
    BY <1>5 DEF StageNames
  <2> QED
    BY <2>1 DEF Distinct, Left
<1>6. CASE list = <<"topology", "score", "record", "save", "check">>
  <2>1. /\ list \in Seq(StageNames) /\ Len(list) = 5
        /\ list[1] = "topology" /\ list[2] = "score" /\ list[3] = "record" /\ list[4] = "save" /\ list[5] = "check"
    BY <1>6 DEF StageNames
  <2> QED
    BY <2>1 DEF Distinct, Left
<1>7. CASE list = <<"topology", "score", "check", "save">>
  <2>1. /\ list \in Seq(StageNames) /\ Len(list) = 4
        /\ list[1] = "topology" /\ list[2] = "score" /\ list[3] = "check" /\ list[4] = "save"
    BY <1>7 DEF StageNames
  <2> QED
    BY <2>1 DEF Distinct, Left
<1>8. CASE ~injected /\ list = <<"score", "save">>
  <2>1. list \in Seq(StageNames) /\ Len(list) = 2 /\ list[1] = "score" /\ list[2] = "save"
    BY <1>8 DEF StageNames
  <2> QED
    BY <1>8, <2>1 DEF Distinct, Left
<1> QED
  BY <1>1, <1>2, <1>3, <1>4, <1>5, <1>6, <1>7, <1>8

\* Taking the first stage leaves the others.
LEMMA Taken ==
    ASSUME NEW todo \in Seq(StageNames), todo # <<>>, Distinct(todo)
    PROVE  /\ Tail(todo) \in Seq(StageNames) /\ Distinct(Tail(todo)) /\ ~Left(Tail(todo), Head(todo))
           /\ \A name : Left(todo, name) => name = Head(todo) \/ Left(Tail(todo), name)
           /\ \A name : Left(Tail(todo), name) => Left(todo, name)
<1>1. PICK n \in Nat : n = Len(todo) /\ n > 0
  BY EmptySeq, LenProperties
<1>2. PICK rest : rest = Tail(todo)
  OBVIOUS
<1>3. rest \in Seq(StageNames) /\ Len(rest) = n - 1 /\ \A i \in 1..(n - 1) : rest[i] = todo[i + 1]
  BY <1>1, <1>2, HeadTailProperties
<1>4. Head(todo) = todo[1]
  BY <1>1
<1>5. Distinct(rest)
  <2>1. ASSUME NEW i \in 1..(n - 1), NEW k \in 1..(n - 1), i # k PROVE rest[i] # rest[k]
    <3>1. i + 1 \in 1..n /\ k + 1 \in 1..n /\ i + 1 # k + 1
      BY <1>1, <2>1
    <3>2. todo[i + 1] # todo[k + 1]
      BY <1>1, <3>1 DEF Distinct
    <3> QED
      BY <1>3, <3>2
  <2> QED
    BY <1>3, <2>1 DEF Distinct
<1>6. ~Left(rest, todo[1])
  <2>1. ASSUME NEW i \in 1..(n - 1) PROVE rest[i] # todo[1]
    <3>1. i + 1 \in 1..n /\ 1 \in 1..n /\ i + 1 # 1
      BY <1>1
    <3>2. todo[i + 1] # todo[1]
      BY <1>1, <3>1 DEF Distinct
    <3> QED
      BY <1>3, <3>2
  <2> QED
    BY <1>3, <2>1 DEF Left
<1>7. ASSUME NEW name, Left(todo, name) PROVE name = todo[1] \/ Left(rest, name)
  <2>1. PICK i \in 1..n : todo[i] = name
    BY <1>1, <1>7 DEF Left
  <2>2. CASE i # 1
    <3>1. i - 1 \in 1..(n - 1) /\ (i - 1) + 1 = i
      BY <1>1, <2>2
    <3>2. rest[i - 1] = name
      BY <1>3, <2>1, <3>1
    <3> QED
      BY <1>3, <3>1, <3>2 DEF Left
  <2> QED
    BY <2>1, <2>2
<1>8. ASSUME NEW name, Left(rest, name) PROVE Left(todo, name)
  <2>1. PICK i \in 1..(n - 1) : rest[i] = name
    BY <1>3, <1>8 DEF Left
  <2>2. i + 1 \in 1..n /\ todo[i + 1] = name
    BY <1>1, <1>3, <2>1
  <2> QED
    BY <1>1, <2>2 DEF Left
<1> QED
  BY <1>2, <1>3, <1>4, <1>5, <1>6, <1>7, <1>8
-----------------------------------------------------------------------------
(* Steps of a run.                                                         *)

SteadyIn(probes) == \A i \in DOMAIN probes : probes[i].phase = "pre" => probes[i].passed

LEMMA StillSteady ==
    ASSUME NEW probes \in Seq(ProbeForm), NEW result \in ProbeForm, result.phase # "pre",
           NEW longer, longer = Append(probes, result)
    PROVE  longer \in Seq(ProbeForm) /\ longer # <<>> /\ (SteadyIn(longer) <=> SteadyIn(probes))
<1>1. PICK n \in Nat : n = Len(probes) /\ DOMAIN probes = 1..n
  BY LenProperties
<1>2. longer \in Seq(ProbeForm) /\ Len(longer) = n + 1
  BY <1>1, AppendProperties
<1>3. DOMAIN longer = 1..(n + 1) /\ longer[n + 1] = result /\ \A i \in 1..n : longer[i] = probes[i]
  BY <1>1, <1>2, AppendProperties
<1>4. longer # <<>>
  BY <1>2
<1>5. SteadyIn(longer) <=> SteadyIn(probes)
  BY <1>1, <1>3 DEF SteadyIn
<1> QED
  BY <1>2, <1>4, <1>5

LEMMA ReportForm == ASSUME run \in RunForm PROVE IsReport(Report) /\ (~FailedPre(Report) <=> Steady)
<1>1. run.events \in Seq(EventForm) /\ run.probes \in Seq(ProbeForm) /\ run.calls \in Seq(CallForm)
  BY DEF RunForm
<1>2. Len(run.calls) \in Nat /\ DOMAIN run.calls = 1..Len(run.calls)
  BY <1>1, LenProperties
<1>3. Report.events = run.events /\ Report.probes = run.probes /\ Report.calls = run.calls
  BY DEF Report
<1>4. IsReport(Report)
  BY <1>1, <1>2, <1>3 DEF IsReport, EventForm, ProbeForm
<1>5. ~FailedPre(Report) <=> Steady
  BY <1>3 DEF FailedPre, Steady
<1> QED
  BY <1>4, <1>5

\* A call adds its record and its event, and changes nothing else.
LEMMA MadeIs ==
    ASSUME run \in RunForm, NEW name \in {"planner", "writer", Unnamed}, NEW ok \in BOOLEAN,
           NEW outcome \in {"none", "errored", "degraded"}, NEW next, next = Made(name, ok, outcome)
    PROVE  /\ next \in RunForm /\ (outcome = "none" => next.events = run.events)
           /\ next.pc = run.pc /\ next.probes = run.probes /\ next.ended = run.ended /\ next.cause = run.cause
           /\ next.aborted = run.aborted /\ next.open = run.open /\ next.todo = run.todo /\ next.nodes = run.nodes
           /\ next.score = run.score /\ next.stored = run.stored /\ next.saved = run.saved
           /\ next.checked = run.checked /\ next.verdict = run.verdict
<1>1. run.calls \in Seq(CallForm) /\ run.events \in Seq(EventForm)
  BY DEF RunForm
<1>2. Len(run.calls) \in Nat /\ Len(run.events) \in Nat
  BY <1>1, LenProperties
<1>3. PICK id \in Nat : id = Len(run.events) + 1
  BY <1>2
<1>4. PICK call : call = NewCall(Len(run.calls) + 1, name, ok, IF outcome = "none" THEN 0 ELSE id)
  OBVIOUS
<1>5. call \in CallForm
  BY <1>2, <1>4 DEF NewCall, CallForm
<1>6. PICK event : event = [id |-> id, type |-> "fault", outcome |-> outcome, fidelity |-> NoValue]
  OBVIOUS
<1>7. outcome # "none" => event \in EventForm
  BY <1>6 DEF EventForm
<1>8. PICK calls : calls = Append(run.calls, call)
  OBVIOUS
<1>9. PICK events : events = IF outcome = "none" THEN run.events ELSE Append(run.events, event)
  OBVIOUS
<1>10. calls \in Seq(CallForm) /\ events \in Seq(EventForm)
  BY <1>1, <1>5, <1>7, <1>8, <1>9, AppendProperties
<1>11. next = [run EXCEPT !.calls = calls, !.events = events]
  BY <1>3, <1>4, <1>6, <1>8, <1>9 DEF Made
<1>12. next \in RunForm
  BY <1>10, <1>11, ZenonT(30) DEF RunForm
<1> QED
  BY <1>9, <1>11, <1>12 DEF RunForm

\* From here on, one lemma per step of the driver: each keeps RunInv.
LEMMA RunStart == ASSUME RunInit PROVE RunInv
<1>1. job \in RunJobs
  BY DEF RunInit
<1>2. /\ run.calls = <<>> /\ run.events = <<>> /\ run.probes = <<>> /\ run.ended = "no" /\ run.cause = 0
      /\ run.pc \in {"baseline", "pre"} /\ run.aborted = FALSE /\ run.open = FALSE /\ run.todo = <<>>
      /\ run.nodes = {} /\ run.score = NoValue /\ run.stored = 0 /\ run.saved = FALSE /\ run.checked = <<>>
      /\ run.verdict = "none"
  BY DEF RunInit
<1>3. run \in RunForm
  <2>1. <<>> \in Seq(CallForm) /\ <<>> \in Seq(EventForm) /\ <<>> \in Seq(ProbeForm)
        /\ <<>> \in Seq(StageNames) /\ <<>> \in Seq(Statuses)
    OBVIOUS
  <2> QED
    BY <2>1 DEF RunInit, RunForm
<1> QED
  BY <1>1, <1>2, <1>3 DEF RunInv

\* A run that ends with no verdict of its own before its probes, or is broken
\* or interrupted, has nothing to show for it.
LEMMA EndsBare ==
    ASSUME RunInv, job' = job, NEW verdict \in {"failed", "broken", "interrupted"}, NEW open \in BOOLEAN,
           run' = [run EXCEPT !.pc = "end", !.open = open, !.verdict = verdict],
           verdict = "failed" => run.probes = <<>>, run.stored \in {0, 1}
    PROVE  RunInv'
<1>1. /\ run'.pc = "end" /\ run'.verdict = verdict
      /\ run'.calls = run.calls /\ run'.events = run.events /\ run'.probes = run.probes
      /\ run'.ended = run.ended /\ run'.cause = run.cause /\ run'.aborted = run.aborted
      /\ run'.todo = run.todo /\ run'.nodes = run.nodes /\ run'.score = run.score /\ run'.stored = run.stored
      /\ run'.saved = run.saved /\ run'.checked = run.checked
  BY DEF RunInv, RunForm
<1>2. run' \in RunForm
  BY ZenonT(30) DEF RunInv, RunForm
<1>3. (Steady' <=> Steady) /\ (Allowed' <=> Allowed)
  BY <1>1 DEF Steady, Allowed
<1>4. GreenIsEarned'
  <2>1. run'.verdict # "passed"
    BY <1>1
  <2>2. ~(run'.verdict \in {"passed", "failed", "own code"} /\ run'.probes # <<>>)
    BY <1>1
  <2>3. run'.stored <= 1
    BY <1>1
  <2> QED
    BY <2>1, <2>2, <2>3 DEF GreenIsEarned
<1> QED
  BY <1>1, <1>2, <1>3, <1>4 DEF RunInv

LEMMA RefuseStep ==
    ASSUME RunInv, RefuseArguments \/ RefuseOptions \/ RefuseMarker \/ (Baseline /\ run'.pc = "end")
    PROVE  RunInv'
<1>1. job' = job /\ run.pc \in {"baseline", "pre"}
  BY DEF RefuseArguments, RefuseOptions, RefuseMarker, Baseline, At
<1>2. run.probes = <<>> /\ run.stored = 0 /\ run.open = FALSE /\ run \in RunForm
  BY <1>1 DEF RunInv, RunForm
<1>3. \E verdict \in {"failed", "broken"} : run' = [run EXCEPT !.pc = "end", !.verdict = verdict]
  BY <1>2 DEF RefuseArguments, RefuseOptions, RefuseMarker, Baseline, RunForm
<1>4. PICK verdict \in {"failed", "broken"} : run' = [run EXCEPT !.pc = "end", !.verdict = verdict]
  BY <1>3
<1>5. run' = [run EXCEPT !.pc = "end", !.open = FALSE, !.verdict = verdict]
  BY <1>2, <1>4 DEF RunForm
<1> QED
  BY <1>1, <1>2, <1>5, EndsBare

LEMMA BaselineStep == ASSUME RunInv, Baseline, run'.pc # "end" PROVE RunInv'
<1>1. job' = job /\ run.pc = "baseline" /\ run' = [run EXCEPT !.pc = "pre"]
  BY DEF Baseline, At, RunInv, RunForm
<1>2. /\ run'.pc = "pre"
      /\ run'.calls = run.calls /\ run'.events = run.events /\ run'.probes = run.probes
      /\ run'.ended = run.ended /\ run'.cause = run.cause /\ run'.aborted = run.aborted
      /\ run'.open = run.open /\ run'.todo = run.todo /\ run'.nodes = run.nodes /\ run'.score = run.score
      /\ run'.stored = run.stored /\ run'.saved = run.saved /\ run'.checked = run.checked
      /\ run'.verdict = run.verdict
  BY <1>1 DEF RunInv, RunForm
<1>3. run' \in RunForm
  BY <1>1 DEF RunInv, RunForm
<1>4. (Steady' <=> Steady) /\ (Allowed' <=> Allowed)
  BY <1>1, <1>2 DEF Steady, Allowed
<1> QED
  BY <1>1, <1>2, <1>3, <1>4 DEF RunInv
LEMMA PreProbesStep == ASSUME RunInv, PreProbes PROVE RunInv'
<1>1. job' = job /\ run.pc = "pre" /\ run \in RunForm
  BY DEF PreProbes, At, RunInv
<1>2. PICK passed \in BOOLEAN :
         run' = [run EXCEPT !.probes = <<Result("pre", passed)>>,
                            !.pc = IF passed \/ ~job.requireSteady THEN "target" ELSE "closing",
                            !.open = passed \/ ~job.requireSteady,
                            !.todo = IF passed \/ ~job.requireSteady THEN @ ELSE Closing(FALSE)]
  BY DEF PreProbes
<1>3. PICK go \in BOOLEAN : go = (passed \/ ~job.requireSteady)
  OBVIOUS
<1>4. PICK list : list = Closing(FALSE)
  OBVIOUS
<1>5. job.driver \in Drivers /\ list \in Seq(StageNames) /\ Distinct(list) /\ (job.driver # "api" => Left(list, "save"))
  BY <1>4, JobForm, ClosingHas DEF RunInv
<1>6. PICK probes : probes = <<Result("pre", passed)>>
  OBVIOUS
<1>7. run' = [run EXCEPT !.probes = probes, !.pc = IF go THEN "target" ELSE "closing", !.open = go,
                         !.todo = IF go THEN @ ELSE list]
  BY <1>2, <1>3, <1>4, <1>6
<1>8. probes \in Seq(ProbeForm) /\ (SteadyIn(probes) <=> passed)
  <2>1. PICK one : one = Result("pre", passed)
    OBVIOUS
  <2>2. one \in ProbeForm /\ one.phase = "pre" /\ one.passed = passed
    BY <2>1 DEF Result, ProbeForm
  <2>3. probes \in Seq(ProbeForm) /\ DOMAIN probes = 1..1 /\ probes[1] = one
    BY <1>6, <2>1, <2>2
  <2> QED
    BY <2>2, <2>3 DEF SteadyIn
<1>9. /\ run'.probes = probes /\ run'.pc = (IF go THEN "target" ELSE "closing") /\ run'.open = go
      /\ run'.todo = (IF go THEN run.todo ELSE list)
      /\ run'.calls = run.calls /\ run'.events = run.events /\ run'.ended = run.ended
      /\ run'.cause = run.cause /\ run'.aborted = run.aborted /\ run'.nodes = run.nodes
      /\ run'.score = run.score /\ run'.stored = run.stored /\ run'.saved = run.saved
      /\ run'.checked = run.checked /\ run'.verdict = run.verdict
  BY <1>1, <1>7 DEF RunForm
<1>10. run' \in RunForm
  BY <1>1, <1>5, <1>7, <1>8, ZenonT(30) DEF RunForm
<1>11. Steady' <=> passed
  BY <1>8, <1>9 DEF Steady, SteadyIn
<1>12. go => Allowed'
  BY <1>1, <1>3, <1>11 DEF Allowed
<1>13. /\ run.events = <<>> /\ run.ended = "no" /\ run.todo = <<>> /\ run.stored = 0 /\ run.score = NoValue
       /\ run.verdict = "none"
  BY <1>1 DEF RunInv
<1>14. job' \in RunJobs
  BY <1>1 DEF RunInv
<1>15. CASE go
  BY <1>1, <1>9, <1>10, <1>12, <1>13, <1>14, <1>15 DEF RunInv
<1>16. CASE ~go
  BY <1>1, <1>5, <1>9, <1>10, <1>13, <1>14, <1>16 DEF RunInv
<1> QED
  BY <1>15, <1>16

\* The steps of the target and of the probes inside the session: what they
\* leave alone keeps the rest of the invariant.
LEMMA InsideStep ==
    ASSUME RunInv, job' = job, run' \in RunForm, run.pc \in {"target", "during", "post"},
           run'.pc \in {"target", "during", "post"}, run'.pc = "target" => run'.ended = "no",
           run'.pc # "target" => run'.ended # "no", Steady' <=> Steady,
           run'.todo = run.todo, run'.stored = run.stored, run'.score = run.score, run'.verdict = run.verdict
    PROVE  RunInv'
<1>1. Allowed' <=> Allowed
  BY DEF Allowed
<1>2. Allowed /\ job \in RunJobs /\ run.verdict = "none"
  BY DEF RunInv
<1>3. run.todo = <<>> /\ run.stored = 0 /\ run.score = NoValue
  BY DEF RunInv
<1> QED
  BY <1>1, <1>2, <1>3 DEF RunInv

LEMMA TargetCallsStep == ASSUME RunInv, TargetCalls PROVE RunInv'
<1>1. job' = job /\ run.pc = "target" /\ run \in RunForm
  BY DEF TargetCalls, At, RunInv
<1>2. \E name \in {"planner", "writer"}, ok \in BOOLEAN, outcome \in {"none", "errored", "degraded"} :
         run' = Made(name, ok, outcome)
  <2>1. PICK name \in {"planner", "writer"} :
           \/ \E ok \in BOOLEAN : run' = Made(name, ok, "none")
           \/ \E outcome \in {"errored", "degraded"} : run' = Made(name, outcome # "errored", outcome)
    BY DEF TargetCalls
  <2>2. CASE \E ok \in BOOLEAN : run' = Made(name, ok, "none")
    BY <2>2
  <2>3. CASE \E outcome \in {"errored", "degraded"} : run' = Made(name, outcome # "errored", outcome)
    <3>1. PICK outcome \in {"errored", "degraded"} : run' = Made(name, outcome # "errored", outcome)
      BY <2>3
    <3>2. PICK ok \in BOOLEAN : ok = (outcome # "errored")
      OBVIOUS
    <3>3. run' = Made(name, ok, outcome)
      BY <3>1, <3>2
    <3> QED
      BY <3>3
  <2> QED
    BY <2>1, <2>2, <2>3
<1>3. PICK name \in {"planner", "writer"}, ok \in BOOLEAN, outcome \in {"none", "errored", "degraded"} :
         run' = Made(name, ok, outcome)
  BY <1>2
<1>4. PICK next : next = Made(name, ok, outcome)
  OBVIOUS
<1>5. /\ next \in RunForm
      /\ next.pc = run.pc /\ next.probes = run.probes /\ next.ended = run.ended /\ next.cause = run.cause
      /\ next.aborted = run.aborted /\ next.open = run.open /\ next.todo = run.todo /\ next.nodes = run.nodes
      /\ next.score = run.score /\ next.stored = run.stored /\ next.saved = run.saved
      /\ next.checked = run.checked /\ next.verdict = run.verdict
  BY <1>1, <1>4, MadeIs
<1>6. run' = next
  BY <1>3, <1>4
<1>7. Steady' <=> Steady
  BY <1>5, <1>6 DEF Steady
<1>8. run.ended = "no"
  BY <1>1 DEF RunInv
<1> QED
  BY <1>1, <1>5, <1>6, <1>7, <1>8, InsideStep

LEMMA AbortsStep == ASSUME RunInv, Aborts PROVE RunInv'
<1>1. job' = job /\ run.pc = "target" /\ run \in RunForm /\ run' = [run EXCEPT !.aborted = TRUE]
  BY DEF Aborts, At, RunInv
<1>2. /\ run' \in RunForm
      /\ run'.pc = run.pc /\ run'.calls = run.calls /\ run'.events = run.events /\ run'.probes = run.probes
      /\ run'.ended = run.ended /\ run'.cause = run.cause /\ run'.open = run.open /\ run'.todo = run.todo
      /\ run'.nodes = run.nodes /\ run'.score = run.score /\ run'.stored = run.stored
      /\ run'.saved = run.saved /\ run'.checked = run.checked /\ run'.verdict = run.verdict
  BY <1>1 DEF RunForm
<1>3. Steady' <=> Steady
  BY <1>2 DEF Steady
<1>4. run.ended = "no"
  BY <1>1 DEF RunInv
<1> QED
  BY <1>1, <1>2, <1>3, <1>4, InsideStep

LEMMA TargetEndsStep == ASSUME RunInv, TargetEnds PROVE RunInv'
<1>1. job' = job /\ run.pc = "target" /\ run \in RunForm
  BY DEF TargetEnds, At, RunInv
<1>2. run.events \in Seq(EventForm) /\ Len(run.events) \in Nat /\ DOMAIN run.events = 1..Len(run.events)
  BY <1>1, LenProperties DEF RunForm
<1>3. \/ run' = [run EXCEPT !.pc = "end", !.open = FALSE, !.verdict = "interrupted"]
      \/ \E how \in {"returns", "raises", "carries", "exits"}, cause \in Nat :
            run' = [run EXCEPT !.pc = "during", !.ended = how, !.cause = cause]
  <2>1. PICK how \in {"returns", "raises", "carries", "exits", "interrupted"},
             cause \in DOMAIN run.events \union {0} :
                run' = IF how = "interrupted"
                       THEN [run EXCEPT !.pc = "end", !.open = FALSE, !.verdict = "interrupted"]
                       ELSE [run EXCEPT !.pc = "during", !.ended = how, !.cause = cause]
    <3>1. PICK how \in {"returns", "raises", "carries", "exits", "interrupted"} :
             \E cause \in IF how = "carries"
                          THEN {i \in DOMAIN run.events : run.events[i].outcome = "errored"} ELSE {0} :
                run' = IF how = "interrupted"
                       THEN [run EXCEPT !.pc = "end", !.open = FALSE, !.verdict = "interrupted"]
                       ELSE [run EXCEPT !.pc = "during", !.ended = how, !.cause = cause]
      BY DEF TargetEnds
    <3>2. (IF how = "carries" THEN {i \in DOMAIN run.events : run.events[i].outcome = "errored"} ELSE {0})
             \subseteq DOMAIN run.events \union {0}
      OBVIOUS
    <3> QED
      BY <3>1, <3>2
  <2>2. cause \in Nat
    BY <1>2
  <2> QED
    BY <2>1, <2>2
<1>4. CASE run' = [run EXCEPT !.pc = "end", !.open = FALSE, !.verdict = "interrupted"]
  <2>1. run.stored = 0
    BY <1>1 DEF RunInv
  <2> QED
    BY <1>1, <1>4, <2>1, EndsBare
<1>5. CASE \E how \in {"returns", "raises", "carries", "exits"}, cause \in Nat :
              run' = [run EXCEPT !.pc = "during", !.ended = how, !.cause = cause]
  <2>1. PICK how \in {"returns", "raises", "carries", "exits"}, cause \in Nat :
           run' = [run EXCEPT !.pc = "during", !.ended = how, !.cause = cause]
    BY <1>5
  <2>2. /\ run' \in RunForm /\ run'.pc = "during" /\ run'.ended = how
        /\ run'.calls = run.calls /\ run'.events = run.events /\ run'.probes = run.probes
        /\ run'.aborted = run.aborted /\ run'.open = run.open /\ run'.todo = run.todo /\ run'.nodes = run.nodes
        /\ run'.score = run.score /\ run'.stored = run.stored /\ run'.saved = run.saved
        /\ run'.checked = run.checked /\ run'.verdict = run.verdict
    BY <1>1, <2>1 DEF RunForm
  <2>3. Steady' <=> Steady
    BY <2>2 DEF Steady
  <2> QED
    BY <1>1, <2>2, <2>3, InsideStep
<1> QED
  BY <1>3, <1>4, <1>5

LEMMA DuringProbesStep == ASSUME RunInv, DuringProbes PROVE RunInv'
<1>1. job' = job /\ run.pc = "during" /\ run \in RunForm /\ run.ended # "no"
  BY DEF DuringProbes, At, RunInv
<1>2. PICK passed \in BOOLEAN, hit \in BOOLEAN :
         LET after == IF hit THEN Made(Unnamed, FALSE, "errored") ELSE run
         IN  run' = [after EXCEPT !.probes = Append(@, Result("during", passed)), !.pc = "post"]
  BY DEF DuringProbes
<1>3. PICK after : after = IF hit THEN Made(Unnamed, FALSE, "errored") ELSE run
  OBVIOUS
<1>4. /\ after \in RunForm
      /\ after.pc = run.pc /\ after.probes = run.probes /\ after.ended = run.ended /\ after.cause = run.cause
      /\ after.aborted = run.aborted /\ after.open = run.open /\ after.todo = run.todo
      /\ after.nodes = run.nodes /\ after.score = run.score /\ after.stored = run.stored
      /\ after.saved = run.saved /\ after.checked = run.checked /\ after.verdict = run.verdict
  <2>1. PICK made : made = Made(Unnamed, FALSE, "errored")
    OBVIOUS
  <2>2. /\ made \in RunForm
        /\ made.pc = run.pc /\ made.probes = run.probes /\ made.ended = run.ended /\ made.cause = run.cause
        /\ made.aborted = run.aborted /\ made.open = run.open /\ made.todo = run.todo /\ made.nodes = run.nodes
        /\ made.score = run.score /\ made.stored = run.stored /\ made.saved = run.saved
        /\ made.checked = run.checked /\ made.verdict = run.verdict
    <3>1. /\ run \in RunForm /\ Unnamed \in {"planner", "writer", Unnamed} /\ FALSE \in BOOLEAN
          /\ "errored" \in {"none", "errored", "degraded"}
      BY <1>1
    <3> QED
      BY <2>1, <3>1, MadeIs, ZenonT(30)
  <2> QED
    BY <1>1, <1>3, <2>1, <2>2
<1>5. PICK result : result = Result("during", passed)
  OBVIOUS
<1>6. result \in ProbeForm /\ result.phase # "pre"
  BY <1>5 DEF Result, ProbeForm
<1>7. PICK probes : probes = Append(run.probes, result)
  OBVIOUS
<1>8. run.probes \in Seq(ProbeForm)
  BY <1>1 DEF RunForm
<1>9. probes \in Seq(ProbeForm) /\ (SteadyIn(probes) <=> SteadyIn(run.probes))
  BY <1>6, <1>7, <1>8, StillSteady
<1>10. run' = [after EXCEPT !.probes = probes, !.pc = "post"]
  BY <1>2, <1>3, <1>4, <1>5, <1>7
<1>11. /\ run' \in RunForm /\ run'.pc = "post" /\ run'.probes = probes
       /\ run'.ended = after.ended /\ run'.cause = after.cause /\ run'.aborted = after.aborted
       /\ run'.open = after.open /\ run'.todo = after.todo /\ run'.nodes = after.nodes
       /\ run'.score = after.score /\ run'.stored = after.stored /\ run'.saved = after.saved
       /\ run'.checked = after.checked /\ run'.verdict = after.verdict
  BY <1>4, <1>9, <1>10 DEF RunForm
<1>12. Steady' <=> Steady
  BY <1>9, <1>11 DEF Steady, SteadyIn
<1> QED
  BY <1>1, <1>4, <1>11, <1>12, InsideStep

LEMMA PostProbesStep == ASSUME RunInv, PostProbes PROVE RunInv'
<1>1. job' = job /\ run.pc = "post" /\ run \in RunForm /\ job \in RunJobs
  BY DEF PostProbes, At, RunInv
<1>2. PICK passed \in BOOLEAN :
         run' = [run EXCEPT !.open = FALSE, !.probes = Append(@, Result("post", passed)),
                            !.pc = "closing", !.todo = Closing(TRUE)]
  BY DEF PostProbes
<1>3. PICK list : list = Closing(TRUE)
  OBVIOUS
<1>4. /\ list \in Seq(StageNames) /\ Distinct(list)
      /\ job.driver # "api" => Left(list, "save") /\ Left(list, "check")
  BY <1>1, <1>3, JobForm, ClosingHas
<1>5. PICK result : result = Result("post", passed)
  OBVIOUS
<1>6. result \in ProbeForm /\ result.phase # "pre"
  BY <1>5 DEF Result, ProbeForm
<1>7. PICK probes : probes = Append(run.probes, result)
  OBVIOUS
<1>8. run.probes \in Seq(ProbeForm)
  BY <1>1 DEF RunForm
<1>9. probes \in Seq(ProbeForm) /\ (SteadyIn(probes) <=> SteadyIn(run.probes))
  BY <1>6, <1>7, <1>8, StillSteady
<1>10. run' = [run EXCEPT !.open = FALSE, !.probes = probes, !.pc = "closing", !.todo = list]
  BY <1>2, <1>3, <1>5, <1>7
<1>11. /\ run' \in RunForm /\ run'.pc = "closing" /\ run'.probes = probes /\ run'.open = FALSE /\ run'.todo = list
       /\ run'.calls = run.calls /\ run'.events = run.events /\ run'.ended = run.ended
       /\ run'.cause = run.cause /\ run'.aborted = run.aborted /\ run'.nodes = run.nodes
       /\ run'.score = run.score /\ run'.stored = run.stored /\ run'.saved = run.saved
       /\ run'.checked = run.checked /\ run'.verdict = run.verdict
  BY <1>1, <1>4, <1>9, <1>10 DEF RunForm
<1>12. (Steady' <=> Steady) /\ (Allowed' <=> Allowed)
  BY <1>1, <1>9, <1>11 DEF Steady, SteadyIn, Allowed
<1>13. Allowed /\ run.stored = 0 /\ run.score = NoValue /\ run.verdict = "none"
  BY <1>1 DEF RunInv
<1> QED
  BY <1>1, <1>4, <1>11, <1>12, <1>13 DEF RunInv
-----------------------------------------------------------------------------
(* Its closing.                                                            *)

LEMMA CheckIn ==
    ASSUME NEW contract, contract.kind \in ContractKinds, NEW report, NEW baseline
    PROVE  Check(contract, report, baseline) \in Statuses
<1>1. \A passes \in BOOLEAN : Verdict(passes) \in Statuses
  BY DEF Verdict, Statuses
<1>2. CASE contract.kind = "completes_within"
  BY <1>2, <1>1 DEF Check, CompletesWithin, Verdict, Statuses
<1>3. CASE contract.kind = "no_unhandled_error"
  BY <1>3 DEF Check, NoUnhandledError, Verdict, Statuses
<1>4. CASE contract.kind = "max_retries"
  BY <1>4 DEF Check, MaxRetries, Verdict, Statuses
<1>5. CASE contract.kind = "recovered_after_failure"
  <2>1. PICK stepSuccess : stepSuccess = contract.stepSuccess
    OBVIOUS
  <2>2. RecoveredAfterFailure(report, stepSuccess) \in Statuses
    BY DEF RecoveredAfterFailure, Statuses
  <2> QED
    BY <1>5, <2>1, <2>2 DEF Check
<1>6. CASE contract.kind = "max_cost_impact"
  <2>1. \A value, metric, num, den : MaxCostImpact(report, baseline, value, metric, num, den) \in Statuses
    BY DEF MaxCostImpact, Verdict, Statuses
  <2> QED
    BY <1>6, <2>1 DEF Check
<1>7. CASE contract.kind = "no_retry_storm"
  BY <1>7 DEF Check, NoRetryStorm, Verdict, Statuses
<1>8. CASE contract.kind = "full_topology_traversal"
  BY <1>8 DEF Check, FullTopologyTraversal, Verdict, Statuses
<1> QED
  BY <1>2, <1>3, <1>4, <1>5, <1>6, <1>7, <1>8 DEF ContractKinds

\* A stage that leaves the evidence of the run alone keeps the invariant, if
\* what it was to do is done.
LEMMA StageKeeps ==
    ASSUME RunInv, job' = job, run' \in RunForm, run.pc = "closing", run'.pc = "closing", run.todo # <<>>,
           run'.todo = Tail(run.todo), run'.events = run.events, run'.probes = run.probes,
           run'.ended = run.ended, run'.open = run.open, run'.verdict = run.verdict,
           Head(run.todo) = "save" => run'.saved, Head(run.todo) # "save" => run'.saved = run.saved,
           Head(run.todo) = "check" => Len(run'.checked) = Len(job.contracts),
           Head(run.todo) # "check" => run'.checked = run.checked,
           Head(run.todo) = "record" => run'.stored \in {run.stored, run.stored + 1},
           Head(run.todo) # "record" => run'.stored = run.stored,
           run'.score # NoValue => Steady /\ ~job.dry /\ run.events # <<>>
    PROVE  RunInv'
<1>1. PICK first, rest : first = Head(run.todo) /\ rest = Tail(run.todo)
  OBVIOUS
<1>2. run.todo \in Seq(StageNames) /\ Distinct(run.todo)
  BY DEF RunInv, RunForm
<1>3. /\ Distinct(rest) /\ ~Left(rest, first)
      /\ \A name : Left(run.todo, name) => name = first \/ Left(rest, name)
      /\ \A name : Left(rest, name) => Left(run.todo, name)
  BY <1>1, <1>2, Taken
<1>4. (Steady' <=> Steady) /\ (Allowed' <=> Allowed)
  BY DEF Steady, Allowed
<1>5. /\ ~run.open /\ run.verdict = "none" /\ job \in RunJobs
      /\ run.events # <<>> \/ run.ended # "no" => Allowed
      /\ job.driver # "api" => run.saved \/ Left(run.todo, "save")
      /\ job.driver # "api" /\ run.ended # "no" => Len(run.checked) = Len(job.contracts) \/ Left(run.todo, "check")
      /\ run.stored = 0 \/ (run.stored = 1 /\ ~Left(run.todo, "record"))
  BY DEF RunInv
<1>6. job.driver # "api" => run'.saved \/ Left(rest, "save")
  BY <1>1, <1>3, <1>5
<1>7. job.driver # "api" /\ run'.ended # "no" => Len(run'.checked) = Len(job.contracts) \/ Left(rest, "check")
  BY <1>1, <1>3, <1>5
<1>8. run'.stored = 0 \/ (run'.stored = 1 /\ ~Left(rest, "record"))
  <2>1. CASE first = "record"
    <3>1. Left(run.todo, "record")
      <4>1. 1 \in 1..Len(run.todo) /\ run.todo[1] = "record"
        BY <1>1, <1>2, <2>1, EmptySeq, LenProperties
      <4> QED
        BY <4>1 DEF Left
    <3>2. run.stored = 0
      BY <1>5, <3>1
    <3> QED
      BY <1>1, <1>3, <2>1, <3>2
  <2>2. CASE first # "record"
    BY <1>1, <1>3, <1>5, <2>2
  <2> QED
    BY <2>1, <2>2
<1> QED
  BY <1>1, <1>3, <1>4, <1>5, <1>6, <1>7, <1>8 DEF RunInv

LEMMA Closing0 ==
    ASSUME RunInv, NEW name, Stage(name)
    PROVE  /\ run.pc = "closing" /\ run.todo # <<>> /\ Head(run.todo) = name /\ run \in RunForm /\ job \in RunJobs
           /\ Tail(run.todo) \in Seq(StageNames)
           /\ run.score # NoValue => Steady /\ ~job.dry /\ run.events # <<>>
<1>1. run.pc = "closing" /\ run.todo # <<>> /\ Head(run.todo) = name /\ run \in RunForm /\ job \in RunJobs
  BY DEF Stage, At, RunInv
<1>2. run.todo \in Seq(StageNames) /\ Distinct(run.todo)
  BY <1>1 DEF RunInv, RunForm
<1> QED
  BY <1>1, <1>2, Taken DEF RunInv

LEMMA TopologyStep == ASSUME RunInv, TakeTopology PROVE RunInv'
<1>1. Stage("topology")
  BY DEF TakeTopology
<1>2. PICK rest : rest = Tail(run.todo)
  OBVIOUS
<1>a. run \in RunForm /\ rest \in Seq(StageNames)
  BY <1>1, <1>2, Closing0
<1>3. PICK nodes \in SUBSET {"planner", "writer"} : run' = [run EXCEPT !.nodes = nodes, !.todo = rest] /\ job' = job
  BY <1>1, <1>2, Closing0 DEF TakeTopology, Then, RunForm
<1>4. /\ run' \in RunForm /\ run'.todo = rest
      /\ run'.pc = run.pc /\ run'.calls = run.calls /\ run'.events = run.events /\ run'.probes = run.probes
      /\ run'.ended = run.ended /\ run'.cause = run.cause /\ run'.aborted = run.aborted
      /\ run'.open = run.open /\ run'.score = run.score /\ run'.stored = run.stored /\ run'.saved = run.saved
      /\ run'.checked = run.checked /\ run'.verdict = run.verdict
  BY <1>a, <1>3 DEF RunForm
<1> QED
  BY <1>1, <1>2, <1>3, <1>4, Closing0, StageKeeps

LEMMA ScoreStep == ASSUME RunInv, ScoreRun PROVE RunInv'
<1>1. Stage("score")
  BY DEF ScoreRun
<1>2. PICK rest : rest = Tail(run.todo)
  OBVIOUS
<1>a. run \in RunForm /\ rest \in Seq(StageNames)
  BY <1>1, <1>2, Closing0
<1>3. PICK score : score = ComputeResilience(Report, NoReport, DefaultWeights)
  OBVIOUS
<1>4. run' = [run EXCEPT !.score = score, !.todo = rest] /\ job' = job
  BY <1>1, <1>2, <1>3, Closing0 DEF ScoreRun, Then, RunForm
<1>5. /\ score \in {NoValue} \union 0..100
      /\ score # NoValue => Steady /\ ~job.dry /\ run.events # <<>>
  <2>1. PICK report : report = Report
    OBVIOUS
  <2>2. IsReport(report) /\ (~FailedPre(report) <=> Steady)
    BY <1>1, <2>1, Closing0, ReportForm
  <2>3. report.events = run.events /\ report.dry = job.dry
    BY <2>1 DEF Report
  <2> QED
    BY <1>3, <2>1, <2>2, <2>3, ScoreIn
<1>6. /\ run' \in RunForm /\ run'.todo = rest /\ run'.score = score
      /\ run'.pc = run.pc /\ run'.calls = run.calls /\ run'.events = run.events /\ run'.probes = run.probes
      /\ run'.ended = run.ended /\ run'.cause = run.cause /\ run'.aborted = run.aborted
      /\ run'.open = run.open /\ run'.nodes = run.nodes /\ run'.stored = run.stored /\ run'.saved = run.saved
      /\ run'.checked = run.checked /\ run'.verdict = run.verdict
  BY <1>a, <1>4, <1>5 DEF RunForm
<1> QED
  BY <1>1, <1>2, <1>4, <1>5, <1>6, Closing0, StageKeeps

LEMMA RecordStep == ASSUME RunInv, RecordRun PROVE RunInv'
<1>1. Stage("record")
  BY DEF RecordRun
<1>2. PICK rest : rest = Tail(run.todo)
  OBVIOUS
<1>a. run \in RunForm /\ rest \in Seq(StageNames)
  BY <1>1, <1>2, Closing0
<1>3. run.stored \in Nat
  BY <1>1, Closing0 DEF RunForm
<1>4. PICK stored \in {run.stored, run.stored + 1} : run' = [run EXCEPT !.stored = stored, !.todo = rest] /\ job' = job
  <2>1. CASE job.history
    BY <1>1, <1>2, <2>1, Closing0 DEF RecordRun, Then, RunForm
  <2>2. CASE ~job.history
    BY <1>1, <1>2, <2>2, Closing0 DEF RecordRun, Then, RunForm
  <2> QED
    BY <2>1, <2>2
<1>5. /\ run' \in RunForm /\ run'.todo = rest /\ run'.stored = stored
      /\ run'.pc = run.pc /\ run'.calls = run.calls /\ run'.events = run.events /\ run'.probes = run.probes
      /\ run'.ended = run.ended /\ run'.cause = run.cause /\ run'.aborted = run.aborted
      /\ run'.open = run.open /\ run'.nodes = run.nodes /\ run'.score = run.score /\ run'.saved = run.saved
      /\ run'.checked = run.checked /\ run'.verdict = run.verdict
  <2>1. stored \in Nat
    BY <1>3, <1>4
  <2> QED
    BY <1>a, <1>4, <2>1 DEF RunForm
<1> QED
  BY <1>1, <1>2, <1>4, <1>5, Closing0, StageKeeps

LEMMA SaveStep == ASSUME RunInv, SaveRun PROVE RunInv'
<1>1. Stage("save")
  BY DEF SaveRun
<1>2. PICK rest : rest = Tail(run.todo)
  OBVIOUS
<1>a. run \in RunForm /\ rest \in Seq(StageNames)
  BY <1>1, <1>2, Closing0
<1>3. run' = [run EXCEPT !.saved = TRUE, !.todo = rest] /\ job' = job
  BY <1>1, <1>2, Closing0 DEF SaveRun, Then, RunForm
<1>4. /\ run' \in RunForm /\ run'.todo = rest /\ run'.saved = TRUE
      /\ run'.pc = run.pc /\ run'.calls = run.calls /\ run'.events = run.events /\ run'.probes = run.probes
      /\ run'.ended = run.ended /\ run'.cause = run.cause /\ run'.aborted = run.aborted
      /\ run'.open = run.open /\ run'.nodes = run.nodes /\ run'.score = run.score /\ run'.stored = run.stored
      /\ run'.checked = run.checked /\ run'.verdict = run.verdict
  BY <1>a, <1>3 DEF RunForm
<1>5. /\ run.pc = "closing" /\ run.todo # <<>> /\ Head(run.todo) = "save" /\ run'.todo = Tail(run.todo)
      /\ run'.score # NoValue => Steady /\ ~job.dry /\ run.events # <<>>
  BY <1>1, <1>2, <1>4, Closing0
<1> QED
  BY <1>3, <1>4, <1>5, StageKeeps

LEMMA CheckStep == ASSUME RunInv, CheckRun PROVE RunInv'
<1>1. Stage("check")
  BY DEF CheckRun
<1>2. PICK rest : rest = Tail(run.todo)
  OBVIOUS
<1>a. run \in RunForm /\ rest \in Seq(StageNames)
  BY <1>1, <1>2, Closing0
<1>3. PICK checked : checked = CheckContracts(job.contracts, Report, NoReport)
  OBVIOUS
<1>4. run' = [run EXCEPT !.checked = checked, !.todo = rest] /\ job' = job
  BY <1>1, <1>2, <1>3, Closing0 DEF CheckRun, Then, RunForm
<1>5. checked \in Seq(Statuses) /\ Len(checked) = Len(job.contracts)
  <2>1. PICK n \in Nat : n = Len(job.contracts) /\ DOMAIN job.contracts = 1..n
    BY <1>1, Closing0, JobForm
  <2>2. PICK report : report = Report
    OBVIOUS
  <2>3. checked = [i \in 1..n |-> Check(job.contracts[i], report, NoReport)]
    BY <1>3, <2>1, <2>2 DEF CheckContracts
  <2>4. \A i \in 1..n : Check(job.contracts[i], report, NoReport) \in Statuses
    BY <1>1, <2>1, Closing0, JobForm, CheckIn
  <2>5. checked \in [1..n -> Statuses]
    BY <2>3, <2>4
  <2> QED
    BY <2>1, <2>5
<1>6. /\ run' \in RunForm /\ run'.todo = rest /\ run'.checked = checked
      /\ run'.pc = run.pc /\ run'.calls = run.calls /\ run'.events = run.events /\ run'.probes = run.probes
      /\ run'.ended = run.ended /\ run'.cause = run.cause /\ run'.aborted = run.aborted
      /\ run'.open = run.open /\ run'.nodes = run.nodes /\ run'.score = run.score /\ run'.stored = run.stored
      /\ run'.saved = run.saved /\ run'.verdict = run.verdict
  BY <1>a, <1>4, <1>5 DEF RunForm
<1> QED
  BY <1>1, <1>2, <1>4, <1>5, <1>6, Closing0, StageKeeps

LEMMA RecordFailsStep == ASSUME RunInv, RecordFails PROVE RunInv'
<1>1. Stage("record") /\ job' = job /\ run' = [run EXCEPT !.pc = "end", !.verdict = "broken"]
  BY DEF RecordFails
<1>2. run.pc = "closing" /\ run \in RunForm
  BY <1>1, Closing0
<1>3. run.stored \in {0, 1} /\ run.open = FALSE
  BY <1>2 DEF RunInv, RunForm
<1>4. run' = [run EXCEPT !.pc = "end", !.open = FALSE, !.verdict = "broken"]
  BY <1>1, <1>2, <1>3 DEF RunForm
<1> QED
  BY <1>1, <1>3, <1>4, EndsBare

\* The verdict is green only in a test or a command whose target returned, when
\* every contract passed and the score is high enough.
LEMMA VerdictIs ==
    ASSUME run \in RunForm
    PROVE  /\ FinalVerdict \in {"returned", "own code", "failed", "passed"}
           /\ FinalVerdict # "returned" => job.driver # "api"
           /\ FinalVerdict = "passed" =>
                 /\ run.ended = "returns" /\ AllPassed(run.checked) /\ (job.driver \in Commands => ~run.aborted)
                 /\ job.minimum # NoValue => Meets(run.score, job.minimum)
<1>a. PICK verdict : verdict = FinalVerdict
  OBVIOUS
<1>1. run.ended \in {"no", "returns", "raises", "carries", "exits"}
  BY DEF RunForm
<1>2. job.driver = "api" => verdict = "returned"
  BY <1>a DEF FinalVerdict
<1>3. job.driver # "api" /\ run.ended = "exits" => verdict = "own code"
  BY <1>a DEF FinalVerdict
<1>4. job.driver # "api" /\ run.ended \in {"no", "raises", "carries"} => verdict = "failed"
  BY <1>a DEF FinalVerdict
<1>5. ASSUME job.driver # "api", run.ended = "returns"
      PROVE  verdict = IF \/ run.aborted /\ job.driver \in Commands
                          \/ ~AllPassed(run.checked)
                          \/ job.minimum # NoValue /\ ~Meets(run.score, job.minimum)
                       THEN "failed" ELSE "passed"
  BY <1>5, <1>a DEF FinalVerdict
<1>6. CASE job.driver # "api" /\ run.ended = "returns"
  <2>1. verdict \in {"failed", "passed"}
    BY <1>5, <1>6
  <2>2. ASSUME verdict = "passed"
        PROVE  /\ AllPassed(run.checked) /\ (job.driver \in Commands => ~run.aborted)
               /\ job.minimum # NoValue => Meets(run.score, job.minimum)
    BY <1>5, <1>6, <2>2
  <2> QED
    BY <1>a, <1>6, <2>1, <2>2
<1>7. CASE job.driver = "api"
  BY <1>a, <1>2, <1>7
<1>8. CASE job.driver # "api" /\ run.ended # "returns"
  BY <1>a, <1>1, <1>3, <1>4, <1>8
<1> QED
  BY <1>a, <1>6, <1>7, <1>8

LEMMA ConcludeStep == ASSUME RunInv, Conclude PROVE RunInv'
<1>1. job' = job /\ run.pc = "closing" /\ run.todo = <<>> /\ run \in RunForm /\ job \in RunJobs
  BY DEF Conclude, At, RunInv
<1>2. PICK verdict : verdict = FinalVerdict
  OBVIOUS
<1>3. run' = [run EXCEPT !.pc = "end", !.verdict = verdict]
  BY <1>2 DEF Conclude
<1>4. /\ verdict \in {"returned", "own code", "failed", "passed"}
      /\ verdict # "returned" => job.driver # "api"
      /\ verdict = "passed" =>
            /\ run.ended = "returns" /\ AllPassed(run.checked) /\ (job.driver \in Commands => ~run.aborted)
            /\ job.minimum # NoValue => Meets(run.score, job.minimum)
  BY <1>1, <1>2, VerdictIs
<1>5. /\ run' \in RunForm /\ run'.pc = "end" /\ run'.verdict = verdict
      /\ run'.calls = run.calls /\ run'.events = run.events /\ run'.probes = run.probes
      /\ run'.ended = run.ended /\ run'.cause = run.cause /\ run'.aborted = run.aborted
      /\ run'.open = run.open /\ run'.todo = run.todo /\ run'.nodes = run.nodes /\ run'.score = run.score
      /\ run'.stored = run.stored /\ run'.saved = run.saved /\ run'.checked = run.checked
  BY <1>1, <1>3, <1>4 DEF RunForm
<1>6. (Steady' <=> Steady) /\ (Allowed' <=> Allowed)
  BY <1>1, <1>5 DEF Steady, Allowed
<1>7. \A name : ~Left(run.todo, name)
  BY <1>1 DEF Left
<1>8. /\ job.driver # "api" => run.saved
      /\ job.driver # "api" /\ run.ended # "no" => Len(run.checked) = Len(job.contracts)
      /\ run.stored \in {0, 1} /\ (run.ended # "no" => Allowed)
  BY <1>1, <1>7 DEF RunInv
<1>9. run'.verdict = "passed" =>
         /\ run'.ended = "returns" /\ Steady' /\ Len(run'.checked) = Len(job.contracts) /\ AllPassed(run'.checked)
         /\ job.minimum # NoValue => run'.score \in job.minimum..100
         /\ job.driver \in Commands => ~run'.aborted
  <2> SUFFICES ASSUME verdict = "passed"
               PROVE  /\ run'.ended = "returns" /\ Steady' /\ Len(run'.checked) = Len(job.contracts)
                      /\ AllPassed(run'.checked)
                      /\ job.minimum # NoValue => run'.score \in job.minimum..100
                      /\ job.driver \in Commands => ~run'.aborted
    BY <1>5
  <2>1. Steady
    BY <1>1, <1>4, <1>8, JobForm DEF Allowed
  <2>2. job.minimum # NoValue => run.score \in job.minimum..100
    <3>1. run.score \in {NoValue} \union 0..100 /\ job.minimum \in Int \union {NoValue}
      BY <1>1, JobForm DEF RunForm
    <3> QED
      BY <1>4, <3>1 DEF Meets
  <2> QED
    BY <1>4, <1>5, <1>6, <1>8, <2>1, <2>2
<1>10. run'.verdict \in {"passed", "failed", "own code"} /\ run'.probes # <<>> => run'.saved
  BY <1>4, <1>5, <1>8
<1>11. run'.stored <= 1
  BY <1>5, <1>8
<1>12. GreenIsEarned'
  BY <1>1, <1>9, <1>10, <1>11 DEF GreenIsEarned
<1>13. run.score # NoValue => Steady /\ ~job.dry /\ run.events # <<>>
  BY DEF RunInv
<1>14. run.events # <<>> \/ run.ended # "no" => Allowed
  BY DEF RunInv
<1>15. run'.score # NoValue => Steady' /\ ~job'.dry /\ run'.events # <<>>
  BY <1>1, <1>5, <1>6, <1>13
<1>16. run'.events # <<>> \/ run'.ended # "no" => Allowed'
  BY <1>5, <1>6, <1>14
<1>17. job' \in RunJobs /\ run' \in RunForm /\ run'.pc = "end"
  BY <1>1, <1>5
<1>18. /\ run'.pc \notin {"baseline", "pre"} /\ run'.pc \notin {"baseline", "pre", "target"}
       /\ run'.pc \notin {"baseline", "pre", "target", "during", "post"}
       /\ run'.pc \notin {"target", "during", "post"} /\ run'.pc \notin {"during", "post"}
       /\ run'.pc # "closing"
  BY <1>17
<1> QED
  BY <1>12, <1>15, <1>16, <1>17, <1>18 DEF RunInv

LEMMA RunStep == ASSUME RunInv, [RunNext]_toolVars PROVE RunInv'
<1>1. CASE UNCHANGED toolVars
  <2>1. job' = job /\ run' = run
    BY <1>1 DEF toolVars
  <2>2. Steady' <=> Steady
    BY <2>1 DEF Steady
  <2>3. (Allowed' <=> Allowed) /\ (GreenIsEarned' <=> GreenIsEarned)
    BY <2>1, <2>2 DEF Allowed, GreenIsEarned
  <2> QED
    BY <2>1, <2>2, <2>3, Zenon DEF RunInv
<1>2. CASE RunNext
  <2>1. CASE RefuseArguments \/ RefuseOptions \/ RefuseMarker
    BY <2>1, RefuseStep
  <2>2. CASE Baseline
    BY <2>2, RefuseStep, BaselineStep
  <2>3. CASE PreProbes \/ TargetCalls \/ Aborts \/ TargetEnds \/ DuringProbes \/ PostProbes
    BY <2>3, PreProbesStep, TargetCallsStep, AbortsStep, TargetEndsStep, DuringProbesStep, PostProbesStep
  <2>4. CASE TakeTopology \/ ScoreRun \/ RecordRun \/ SaveRun \/ CheckRun
    BY <2>4, TopologyStep, ScoreStep, RecordStep, SaveStep, CheckStep
  <2>5. CASE RecordFails \/ Conclude
    BY <2>5, RecordFailsStep, ConcludeStep
  <2> QED
    BY <1>2, <2>1, <2>2, <2>3, <2>4, <2>5 DEF RunNext
<1> QED
  BY <1>1, <1>2

\* What a driver has done so far of its run, as RunInv says, holds at every step of it.
THEOREM RunInvHolds == RunSpec => []RunInv
<1>1. RunInit => RunInv
  BY RunStart
<1>2. RunInv /\ [RunNext]_toolVars => RunInv'
  BY RunStep
<1> QED
  BY <1>1, <1>2, PTL DEF RunSpec

\* A green verdict of any driver is earned, whatever the target, the probes and
\* the contracts do, and the report of a judged run was saved first.
THEOREM GreenIsEarnedAlways == RunSpec => []GreenIsEarned
<1>1. RunInv => GreenIsEarned
  <2> SUFFICES ASSUME RunInv, run.pc # "end" PROVE GreenIsEarned
    BY DEF RunInv
  <2>1. run.verdict = "none" /\ run \in RunForm
    BY DEF RunInv
  <2>2. run.stored <= 1
    <3>1. run.pc \in {"baseline", "pre", "target", "during", "post", "closing"}
      BY <2>1 DEF RunForm
    <3>2. run.stored = 0 \/ run.stored = 1
      BY <3>1 DEF RunInv
    <3> QED
      BY <3>2
  <2> QED
    BY <2>1, <2>2 DEF GreenIsEarned
<1> QED
  BY <1>1, RunInvHolds, PTL

\* Nothing is injected into a system that was not steady unless the caller
\* asked for it; a score is a number of 0..100 and needs a steady system, a
\* real run and a fault that fired.
THEOREM ScoreIsMeaningfulAlways == RunSpec => []ScoreIsMeaningful
<1>1. RunInv => ScoreIsMeaningful
  <2> SUFFICES ASSUME RunInv PROVE ScoreIsMeaningful
    OBVIOUS
  <2>1. run.score \in {NoValue} \union 0..100
    BY DEF RunInv, RunForm
  <2> QED
    BY <2>1 DEF RunInv, ScoreIsMeaningful, Allowed
<1> QED
  BY <1>1, RunInvHolds, PTL

-----------------------------------------------------------------------------
(* Calls in the order of their start (Contracts).                          *)

Numbered(S) == \E n \in Nat : /\ \A c \in S : c.sequence \in 1..n
                              /\ \A c, d \in S : c.sequence = d.sequence => c = d
Rank(S, c) == Cardinality({d \in S : d.sequence <= c.sequence})

LEMMA NumberedFinite ==
    ASSUME NEW S, Numbered(S)
    PROVE  /\ IsFiniteSet(S) /\ Cardinality(S) \in Nat /\ \A c \in S : c.sequence \in Nat
           /\ \A T \in SUBSET S : IsFiniteSet(T) /\ Cardinality(T) \in 0..Cardinality(S)
<1>1. PICK n \in Nat : /\ \A c \in S : c.sequence \in 1..n
                       /\ \A c, d \in S : c.sequence = d.sequence => c = d
  BY DEF Numbered
<1>2. PICK f : f = [c \in S |-> c.sequence]
  OBVIOUS
<1>3. f \in Injection(S, 1..n)
  BY <1>1, <1>2 DEF Injection, IsInjective
<1>4. IsFiniteSet(S)
  BY <1>3, FS_Interval, FS_Injection
<1>5. Cardinality(S) \in Nat
  BY <1>4, FS_CardinalityType
<1>6. ASSUME NEW T \in SUBSET S PROVE IsFiniteSet(T) /\ Cardinality(T) \in 0..Cardinality(S)
  <2>1. IsFiniteSet(T) /\ Cardinality(T) <= Cardinality(S)
    BY <1>4, FS_Subset
  <2>2. Cardinality(T) \in Nat
    BY <2>1, FS_CardinalityType
  <2> QED
    BY <1>5, <2>1, <2>2
<1> QED
  BY <1>1, <1>4, <1>5, <1>6

LEMMA RankGrows ==
    ASSUME NEW S, Numbered(S)
    PROVE  /\ \A c \in S : Rank(S, c) \in 1..Cardinality(S)
           /\ \A c, d \in S : c.sequence < d.sequence => Rank(S, c) < Rank(S, d)
<1> DEFINE Upto(c) == {e \in S : e.sequence <= c.sequence}
<1>1. \A c \in S : Upto(c) \in SUBSET S /\ IsFiniteSet(Upto(c)) /\ Cardinality(Upto(c)) \in 0..Cardinality(S)
  BY NumberedFinite
<1>2. Cardinality(S) \in Nat /\ \A c \in S : c.sequence \in Nat
  BY NumberedFinite
<1>3. ASSUME NEW c \in S PROVE Cardinality(Upto(c)) \in 1..Cardinality(S)
  <2>1. c \in Upto(c)
    BY <1>2
  <2>2. Cardinality(Upto(c)) # 0
    BY <1>1, <2>1, FS_EmptySet
  <2>3. Cardinality(Upto(c)) \in 0..Cardinality(S)
    BY <1>1
  <2> HIDE DEF Upto
  <2> QED
    BY <1>2, <2>2, <2>3
<1>4. ASSUME NEW c \in S, NEW d \in S, c.sequence < d.sequence PROVE Cardinality(Upto(c)) < Cardinality(Upto(d))
  <2>1. Upto(c) \in SUBSET Upto(d) /\ d \in Upto(d) /\ d \notin Upto(c)
    <3>1. c.sequence \in Nat /\ d.sequence \in Nat /\ ~(d.sequence <= c.sequence) /\ d.sequence <= d.sequence
      BY <1>2, <1>4
    <3>2. \A e \in S : e.sequence <= c.sequence => e.sequence <= d.sequence
      BY <1>2, <1>4, <3>1
    <3> QED
      BY <3>1, <3>2
  <2>2. Cardinality(Upto(c)) <= Cardinality(Upto(d)) /\ Cardinality(Upto(d)) # Cardinality(Upto(c))
    BY <1>1, <2>1, FS_Subset
  <2> QED
    BY <1>1, <1>2, <2>2
<1> QED
  BY <1>3, <1>4 DEF Rank

\* The calls in order are all of them, each at the place that is its rank.
LEMMA StartOrder ==
    ASSUME NEW S, Numbered(S), NEW p, p = InStartOrder(S), NEW m, m = Cardinality(S)
    PROVE  /\ m \in Nat /\ DOMAIN p = 1..m /\ p \in [1..m -> S] /\ Len(p) = m
           /\ \A k \in 1..m : p[k] \in S /\ Rank(S, p[k]) = k
           /\ \A c \in S : Rank(S, c) \in 1..m /\ p[Rank(S, c)] = c
<1>1. m \in Nat /\ IsFiniteSet(S)
  BY NumberedFinite
<1>2. (\A c \in S : Rank(S, c) \in 1..m) /\ \A c, d \in S : c.sequence < d.sequence => Rank(S, c) < Rank(S, d)
  BY RankGrows
<1>3. PICK f : f = [c \in S |-> Rank(S, c)]
  OBVIOUS
<1>4. \A c, d \in S : f[c] = f[d] => c = d
  <2> SUFFICES ASSUME NEW c \in S, NEW d \in S, c # d PROVE f[c] # f[d]
    OBVIOUS
  <2>1. c.sequence \in Nat /\ d.sequence \in Nat /\ c.sequence # d.sequence
    BY NumberedFinite DEF Numbered
  <2>2. c.sequence < d.sequence \/ d.sequence < c.sequence
    BY <2>1
  <2>3. Rank(S, c) \in 1..m /\ Rank(S, d) \in 1..m /\ (Rank(S, c) < Rank(S, d) \/ Rank(S, d) < Rank(S, c))
    BY <1>2, <2>2
  <2> QED
    BY <1>1, <1>3, <2>3
<1>5. f \in Injection(S, 1..m)
  <2>1. f \in [S -> 1..m]
    BY <1>2, <1>3
  <2> QED
    BY <1>4, <2>1 DEF Injection, IsInjective
<1>6. IsFiniteSet(1..m) /\ Cardinality(1..m) = m
  BY <1>1, FS_Interval
<1>7. f \in Surjection(S, 1..m)
  BY <1>5, <1>6, FS_Injection
<1>8. \A r \in 1..m : \E c \in S : Rank(S, c) = r
  BY <1>3, <1>7 DEF Surjection
<1>9. ASSUME NEW r \in 1..m PROVE p[r] \in S /\ Rank(S, p[r]) = r
  <2>1. p[r] = CHOOSE c \in S : Rank(S, c) = r
    BY DEF InStartOrder, Rank
  <2> QED
    BY <1>8, <2>1
<1>10. DOMAIN p = 1..m /\ p = [r \in 1..m |-> p[r]]
  <2>1. PICK q : q = [r \in 1..m |-> CHOOSE c \in S : Rank(S, c) = r]
    OBVIOUS
  <2>2. p = q
    BY <2>1 DEF InStartOrder, Rank
  <2>3. DOMAIN q = 1..m /\ q = [r \in 1..m |-> q[r]]
    BY <2>1
  <2> QED
    BY <2>2, <2>3
<1>11. p \in [1..m -> S]
  BY <1>9, <1>10
<1>12. Len(p) = m
  BY <1>1, <1>11
<1>13. ASSUME NEW c \in S PROVE p[Rank(S, c)] = c
  <2>1. PICK r : r = Rank(S, c)
    OBVIOUS
  <2>2. p[r] \in S /\ Rank(S, p[r]) = r
    BY <1>2, <1>9, <2>1
  <2>3. f[p[r]] = f[c]
    BY <1>3, <2>1, <2>2
  <2> QED
    BY <1>4, <2>1, <2>2, <2>3
<1> QED
  BY <1>1, <1>2, <1>9, <1>10, <1>11, <1>12, <1>13

\* Calls that are numbered as they stand are in order.
Listed(report, n) == n \in Nat /\ Len(report.calls) = n /\ DOMAIN report.calls = 1..n
                     /\ \A i \in 1..n : report.calls[i].sequence = i

LEMMA ListedIsOrdered ==
    ASSUME NEW report, NEW n, Listed(report, n)
    PROVE  OrderedCalls(report) = [i \in 1..n |-> report.calls[i]]
<1>1. PICK S : S = CallSet(report)
  OBVIOUS
<1>2. n \in Nat /\ (\A i \in 1..n : report.calls[i].sequence = i) /\ S = {report.calls[i] : i \in 1..n}
  BY <1>1 DEF Listed, CallSet
<1>3. Numbered(S)
  <2>1. \A c \in S : c.sequence \in 1..n /\ c = report.calls[c.sequence]
    BY <1>2
  <2> QED
    BY <1>2, <2>1 DEF Numbered
<1>4. PICK p, m : p = InStartOrder(S) /\ m = Cardinality(S)
  OBVIOUS
<1>5. /\ m \in Nat /\ p \in [1..m -> S]
      /\ (\A k \in 1..m : p[k] \in S /\ Rank(S, p[k]) = k)
      /\ \A c \in S : Rank(S, c) \in 1..m /\ p[Rank(S, c)] = c
  BY <1>3, <1>4, StartOrder
<1>6. ASSUME NEW i \in 1..n PROVE Rank(S, report.calls[i]) = i
  <2>1. PICK T : T = {d \in S : d.sequence <= report.calls[i].sequence}
    OBVIOUS
  <2>2. T = {report.calls[j] : j \in 1..i}
    <3>1. \A j \in 1..n : report.calls[j].sequence <= report.calls[i].sequence <=> j \in 1..i
      BY <1>2
    <3>2. \A j \in 1..i : j \in 1..n
      BY <1>2
    <3> QED
      BY <1>2, <2>1, <3>1, <3>2
  <2>3. PICK g : g = [j \in 1..i |-> report.calls[j]]
    OBVIOUS
  <2>4. g \in Bijection(1..i, T)
    <3>1. \A j \in 1..i : g[j].sequence = j /\ g[j] \in T
      BY <1>2, <2>2, <2>3
    <3>2. \A j, k \in 1..i : g[j] = g[k] => j = k
      BY <3>1
    <3>3. \A t \in T : \E j \in 1..i : g[j] = t
      BY <2>2, <2>3
    <3> QED
      BY <2>3, <3>1, <3>2, <3>3 DEF Bijection, Injection, IsInjective, Surjection
  <2>5. IsFiniteSet(1..i) /\ Cardinality(1..i) = i
    BY <1>2, FS_Interval
  <2>6. Cardinality(T) = i
    BY <2>4, <2>5, FS_Bijection DEF ExistsBijection
  <2> QED
    BY <2>1, <2>6 DEF Rank
<1>7. m = n
  <2>1. ASSUME NEW i \in 1..n PROVE i \in 1..m
    <3>1. report.calls[i] \in S /\ Rank(S, report.calls[i]) = i
      BY <1>2, <1>6
    <3> QED
      BY <1>5, <3>1
  <2>2. ASSUME NEW k \in 1..m PROVE k \in 1..n
    <3>1. PICK i \in 1..n : p[k] = report.calls[i]
      BY <1>2, <1>5
    <3>2. Rank(S, p[k]) = k /\ Rank(S, report.calls[i]) = i
      BY <1>5, <1>6
    <3> QED
      BY <3>1, <3>2
  <2>3. m \in Nat /\ n \in Nat
    BY <1>2, <1>5
  <2>4. n # 0 => n <= m
    BY <2>1, <2>3
  <2>5. m # 0 => m <= n
    BY <2>2, <2>3
  <2> QED
    BY <2>3, <2>4, <2>5
<1>8. \A i \in 1..n : p[i] = report.calls[i]
  <2> TAKE i \in 1..n
  <2>1. report.calls[i] \in S /\ Rank(S, report.calls[i]) = i
    BY <1>2, <1>6
  <2> QED
    BY <1>5, <2>1
<1>9. p = [i \in 1..n |-> report.calls[i]]
  BY <1>5, <1>7, <1>8
<1> QED
  BY <1>1, <1>4, <1>9 DEF OrderedCalls

-----------------------------------------------------------------------------
(* The report of a run, from its log.                                      *)

\* A complete log: its report lists the calls as they started, and its events are
\* those of the calls that were hit.
IsLog(log) ==
    /\ IsList(log)
    /\ \A i \in 1..Len(log) :
          /\ log[i].ok \in BOOLEAN /\ log[i].event \in Nat
          /\ \A k \in 1..Len(log) : log[k].event = log[i].event => log[i].event = 0 \/ k = i
EventOf(record) ==
    [id |-> record.event, type |-> "fault", fidelity |-> NoValue,
     outcome |-> IF record.ok THEN "degraded" ELSE "errored"]

LEMMA CountUpTo == \A k \in Nat : IsFiniteSet(1..k) /\ Cardinality(1..k) = k
BY FS_Interval

LEMMA FieldsOfCall ==
    ASSUME NEW log, NEW i
    PROVE  /\ CallOf(log, i).sequence = i /\ CallOf(log, i).kind = log[i].kind /\ CallOf(log, i).name = log[i].name
           /\ CallOf(log, i).ok = log[i].ok /\ CallOf(log, i).event = log[i].event /\ CallOf(log, i).stage = 0
BY DEF CallOf

LEMMA SomeNumbered ==
    ASSUME NEW log, NEW n \in Nat, NEW kept, kept \subseteq 1..n, NEW S, S = {CallOf(log, i) : i \in kept}
    PROVE  Numbered(S) /\ Cardinality(S) = Cardinality(kept) /\ Cardinality(S) \in 0..n
<1>1. \A i \in kept : CallOf(log, i).sequence = i
  BY FieldsOfCall
<1>2. \A c \in S : c.sequence \in kept /\ c = CallOf(log, c.sequence)
  BY <1>1
<1>3. Numbered(S)
  BY <1>2 DEF Numbered
<1>4. PICK f : f = [i \in kept |-> CallOf(log, i)]
  OBVIOUS
<1>5. f \in Bijection(kept, S)
  BY <1>1, <1>4 DEF Bijection, Injection, IsInjective, Surjection
<1>6. IsFiniteSet(1..n) /\ Cardinality(1..n) = n
  BY FS_Interval
<1>7. IsFiniteSet(kept) /\ Cardinality(kept) <= n
  BY <1>6, FS_Subset
<1>8. Cardinality(kept) \in Nat
  BY <1>7, FS_CardinalityType
<1>9. Cardinality(S) = Cardinality(kept)
  BY <1>5, <1>7, FS_Bijection DEF ExistsBijection
<1> QED
  BY <1>3, <1>7, <1>8, <1>9

LEMMA ReportedFields ==
    ASSUME NEW log, NEW kept, NEW raised, NEW r, r = Reported(log, kept, raised)
    PROVE  /\ r.calls = InStartOrder({CallOf(log, i) : i \in kept})
           /\ r.dropped = Len(log) - Cardinality(kept) /\ r.recorded = {"calls", "unhandled_error"}
           /\ r.events = Whole(log, raised).events
           /\ r.raised = raised /\ r.carries = 0 /\ r.aborted = FALSE
           /\ r.elapsed = NoValue /\ r.cost = 0 /\ r.nodes = {}
BY DEF Reported, Whole

LEMMA WholeListed ==
    ASSUME NEW log, IsLog(log), NEW raised, NEW w, w = Whole(log, raised), NEW n, n = Len(log)
    PROVE  Listed(w, n) /\ (\A i \in 1..n : w.calls[i] = CallOf(log, i)) /\ w.dropped = 0 /\ DOMAIN log = 1..n
<1>1. n \in Nat /\ DOMAIN log = 1..n
  BY DEF IsLog, IsList
<1>2. PICK r : r = [calls |-> [i \in 1..n |-> CallOf(log, i)]]
  OBVIOUS
<1>3. Listed(r, n) /\ \A i \in 1..n : r.calls[i] = CallOf(log, i)
  <2>1. DOMAIN r.calls = 1..n /\ Len(r.calls) = n /\ \A i \in 1..n : r.calls[i] = CallOf(log, i)
    BY <1>1, <1>2
  <2>2. \A i \in 1..n : r.calls[i].sequence = i
    BY <2>1, FieldsOfCall
  <2> QED
    BY <1>1, <2>1, <2>2 DEF Listed
<1>4. OrderedCalls(r) = [i \in 1..n |-> r.calls[i]]
  BY <1>3, ListedIsOrdered
<1>5. CallSet(r) = {CallOf(log, i) : i \in 1..n}
  BY <1>3 DEF CallSet, Listed
<1>6. w.calls = [i \in 1..n |-> r.calls[i]] /\ w.dropped = Len(log) - Cardinality(1..n)
  <2>1. w = Reported(log, 1..n, raised)
    BY <1>1 DEF Whole
  <2>2. PICK kept : kept = 1..n
    OBVIOUS
  <2>3. w = Reported(log, kept, raised)
    BY <2>1, <2>2
  <2>4. w.calls = InStartOrder({CallOf(log, i) : i \in kept}) /\ w.dropped = Len(log) - Cardinality(kept)
    <3>1. PICK x : x = Reported(log, kept, raised)
      OBVIOUS
    <3>2. x.calls = InStartOrder({CallOf(log, i) : i \in kept}) /\ x.dropped = Len(log) - Cardinality(kept)
      BY <3>1 DEF Reported
    <3> QED
      BY <2>3, <3>1, <3>2
  <2>5. {CallOf(log, i) : i \in kept} = CallSet(r)
    BY <1>5, <2>2
  <2>6. w.calls = OrderedCalls(r)
    BY <2>4, <2>5 DEF OrderedCalls
  <2> QED
    BY <1>4, <2>2, <2>4, <2>6
<1>7. DOMAIN w.calls = 1..n /\ Len(w.calls) = n /\ \A i \in 1..n : w.calls[i] = CallOf(log, i)
  BY <1>1, <1>3, <1>6
<1>8. \A i \in 1..n : w.calls[i].sequence = i
  BY <1>7, FieldsOfCall
<1>9. w.dropped = 0
  <2>1. Cardinality(1..n) = n
    BY <1>1, CountUpTo
  <2> QED
    BY <1>1, <1>6, <2>1
<1> QED
  BY <1>1, <1>7, <1>8, <1>9 DEF Listed

EventsOf(log, events, m) ==
    /\ DOMAIN events = 1..m
    /\ \A k \in 1..m : \E i \in 1..Len(log) : log[i].event # 0 /\ events[k] = EventOf(log[i])
    /\ \A i \in 1..Len(log) : log[i].event # 0 => \E k \in 1..m : events[k] = EventOf(log[i])

LEMMA WholeEvents ==
    ASSUME NEW log, IsLog(log), NEW raised, NEW events, events = Whole(log, raised).events, NEW n, n = Len(log)
    PROVE  \E m \in Nat : EventsOf(log, events, m)
<1>1. n \in Nat /\ DOMAIN log = 1..n
  BY DEF IsLog, IsList
<1>2. PICK kept : kept = {i \in 1..n : log[i].event # 0}
  OBVIOUS
<1>3. PICK H : H = {CallOf(log, i) : i \in kept}
  OBVIOUS
<1>4. Numbered(H)
  BY <1>1, <1>2, <1>3, SomeNumbered
<1>5. PICK hits, m : hits = InStartOrder(H) /\ m = Cardinality(H)
  OBVIOUS
<1>6. /\ m \in Nat /\ DOMAIN hits = 1..m /\ (\A k \in 1..m : hits[k] \in H)
      /\ \A c \in H : Rank(H, c) \in 1..m /\ hits[Rank(H, c)] = c
  BY <1>4, <1>5, StartOrder
<1>7. PICK own : own = [k \in DOMAIN hits |-> [id |-> hits[k].event, type |-> "fault", fidelity |-> NoValue,
                                                outcome |-> IF hits[k].ok THEN "degraded" ELSE "errored"]]
  OBVIOUS
<1>8. events = own
  <2>1. H = {CallOf(log, i) : i \in {k \in DOMAIN log : log[k].event # 0}}
    BY <1>1, <1>2, <1>3
  <2>2. hits = InStartOrder({CallOf(log, i) : i \in {k \in DOMAIN log : log[k].event # 0}})
    BY <1>5, <2>1
  <2> QED
    BY <1>7, <2>2 DEF Whole, Reported
<1>9. \A i \in 1..n, k \in 1..m : hits[k] = CallOf(log, i) => events[k] = EventOf(log[i])
  <2> TAKE i \in 1..n, k \in 1..m
  <2> HAVE hits[k] = CallOf(log, i)
  <2>1. hits[k].event = log[i].event /\ hits[k].ok = log[i].ok
    BY FieldsOfCall
  <2> QED
    BY <1>6, <1>7, <1>8, <2>1 DEF EventOf
<1>10. \A k \in 1..m : \E i \in 1..n : log[i].event # 0 /\ events[k] = EventOf(log[i])
  <2> TAKE k \in 1..m
  <2>1. PICK i \in kept : hits[k] = CallOf(log, i)
    BY <1>3, <1>6
  <2>2. i \in 1..n /\ log[i].event # 0
    BY <1>2
  <2> QED
    BY <1>9, <2>1, <2>2
<1>11. ASSUME NEW i \in 1..n, log[i].event # 0 PROVE \E k \in 1..m : events[k] = EventOf(log[i])
  <2>1. CallOf(log, i) \in H
    BY <1>2, <1>3, <1>11
  <2>2. PICK k \in 1..m : hits[k] = CallOf(log, i)
    BY <1>6, <2>1
  <2> QED
    BY <1>9, <2>2
<1> QED
  BY <1>6, <1>7, <1>8, <1>10, <1>11 DEF EventsOf

-----------------------------------------------------------------------------
(* Contracts on a log that was cut short.                                  *)

\* A contract on the report of a log that was cut short.
LEMMA CutHonest ==
    ASSUME NEW log, IsLog(log), NEW kept \in SUBSET (DOMAIN log), NEW raised \in BOOLEAN, NEW q,
           q.kind \in ContractKinds, q.kind = "recovered_after_failure" => q.stepSuccess \in BOOLEAN,
           NEW c, c = Check(q, Reported(log, kept, raised), NoValue),
           NEW w, w = Check(q, Whole(log, raised), NoValue)
    PROVE  \/ c \in {"inconclusive", w}
           \/ q.kind = "recovered_after_failure" /\ q.stepSuccess /\ c = "passed" /\ kept # DOMAIN log
<1>1. CASE kept = DOMAIN log
  BY <1>1 DEF Whole
<1>2. CASE kept # DOMAIN log
  <2>1. PICK r, t, n : r = Reported(log, kept, raised) /\ t = Whole(log, raised) /\ n = Len(log)
    OBVIOUS
  <2>2. Listed(t, n) /\ (\A i \in 1..n : t.calls[i] = CallOf(log, i)) /\ t.dropped = 0 /\ DOMAIN log = 1..n
    BY <2>1, WholeListed
  <2>3. n \in Nat /\ DOMAIN t.calls = 1..n /\ Len(t.calls) = n
    BY <2>2 DEF Listed
  <2>4. PICK S : S = {CallOf(log, i) : i \in kept}
    OBVIOUS
  <2>5. Numbered(S) /\ Cardinality(S) = Cardinality(kept) /\ Cardinality(S) \in 0..n
    <3>1. n \in Nat /\ kept \subseteq 1..n /\ S = {CallOf(log, i) : i \in kept}
      BY <2>2, <2>3, <2>4
    <3> QED
      BY ONLY <3>1, SomeNumbered
  <2>6. /\ r.calls = InStartOrder(S) /\ r.dropped = n - Cardinality(kept) /\ r.recorded = {"calls", "unhandled_error"}
        /\ r.raised = raised /\ r.aborted = FALSE /\ r.elapsed = NoValue /\ r.cost = 0 /\ r.nodes = {}
    BY <2>1, <2>4 DEF Reported
  <2>7. /\ t.recorded = {"calls", "unhandled_error"}
        /\ t.raised = raised /\ t.aborted = FALSE /\ t.elapsed = NoValue /\ t.cost = 0 /\ t.nodes = {}
    BY <2>1 DEF Whole, Reported
  <2>8. r.events = t.events
    BY <2>1 DEF Whole, Reported
  <2>9. PICK p, m : p = InStartOrder(S) /\ m = Cardinality(S)
    OBVIOUS
  <2>10. m \in Nat /\ DOMAIN p = 1..m /\ Len(p) = m /\ \A k \in 1..m : p[k] \in S
    BY <2>5, <2>9, StartOrder
  <2>11. r.calls = p /\ r.dropped = n - m /\ m \in 0..n
    BY <2>5, <2>6, <2>9
  <2>12. m # n
    <3>1. IsFiniteSet(1..n) /\ Cardinality(1..n) = n
      BY <2>3, CountUpTo
    <3>2. kept # 1..n /\ kept \in SUBSET (1..n)
      BY <1>2, <2>2
    <3>3. Cardinality(kept) # Cardinality(1..n)
      BY <3>1, <3>2, FS_Subset
    <3> QED
      BY <2>5, <2>9, <3>1, <3>3
  <2>13. r.dropped > 0 /\ LogUnusable(r) /\ ~LogUnusable(t) /\ ~Missing(r, "calls") /\ ~Missing(t, "calls")
         /\ ~Missing(r, "unhandled_error") /\ ~Missing(t, "unhandled_error")
    BY <2>2, <2>3, <2>6, <2>7, <2>11, <2>12 DEF LogUnusable, Missing
  <2>14. c = Check(q, r, NoValue) /\ w = Check(q, t, NoValue)
    BY <2>1
  <2>15. CASE q.kind = "completes_within"
    BY <2>6, <2>14, <2>15 DEF Check, CompletesWithin
  <2>16. CASE q.kind = "no_unhandled_error"
    BY <2>6, <2>7, <2>13, <2>14, <2>16 DEF Check, NoUnhandledError
  <2>17. CASE q.kind = "max_retries"
    BY <2>13, <2>14, <2>17 DEF Check, MaxRetries
  <2>18. CASE q.kind = "recovered_after_failure"
    <3>1. InjectedFailures(r) = InjectedFailures(t)
      BY <2>8 DEF InjectedFailures
    <3>2. c = RecoveredAfterFailure(r, q.stepSuccess) /\ w = RecoveredAfterFailure(t, q.stepSuccess)
      BY <2>14, <2>18 DEF Check
    <3>3. CASE InjectedFailures(r) = {}
      BY <3>2, <3>3 DEF RecoveredAfterFailure
    <3>4. CASE InjectedFailures(r) # {} /\ raised
      BY <2>6, <2>7, <3>1, <3>2, <3>4 DEF RecoveredAfterFailure
    <3>5. CASE InjectedFailures(r) # {} /\ ~raised
      <4>1. c = IF q.stepSuccess /\ UnrecoveredSteps(r) # {} THEN "inconclusive" ELSE "passed"
        BY <2>6, <2>13, <3>2, <3>5 DEF RecoveredAfterFailure
      <4>2. ~q.stepSuccess => w = "passed"
        BY <2>7, <2>13, <3>1, <3>2, <3>5 DEF RecoveredAfterFailure
      <4> QED
        BY <1>2, <2>18, <4>1, <4>2
    <3> QED
      BY <3>3, <3>4, <3>5
  <2>19. CASE q.kind = "max_cost_impact"
    <3>1. Len(r.calls) + r.dropped = n /\ Len(t.calls) + t.dropped = n
      BY <2>2, <2>3, <2>10, <2>11
    <3>2. c = MaxCostImpact(r, NoValue, q.step, q.metric, q.n, 1) /\ w = MaxCostImpact(t, NoValue, q.step, q.metric, q.n, 1)
      BY <2>14, <2>19 DEF Check
    <3>3. CASE q.metric = "calls"
      BY <2>13, <3>1, <3>2, <3>3 DEF MaxCostImpact
    <3>4. CASE q.metric # "calls"
      BY <2>6, <2>7, <3>2, <3>4 DEF MaxCostImpact
    <3> QED
      BY <3>3, <3>4
  <2>20. CASE q.kind = "no_retry_storm"
    BY <2>13, <2>14, <2>20 DEF Check, NoRetryStorm
  <2>21. CASE q.kind = "full_topology_traversal"
    <3>1. CallSet(r) \subseteq CallSet(t)
      <4>1. \A x \in CallSet(r) : x \in S
        BY <2>10, <2>11 DEF CallSet
      <4>2. \A x \in S : x \in CallSet(t)
        BY <2>2, <2>3, <2>4 DEF CallSet
      <4> QED
        BY <4>1, <4>2
    <3>2. VisitedNodes(r) \subseteq VisitedNodes(t)
      BY <2>6, <2>7, <3>1 DEF VisitedNodes
    <3>3. /\ c = FullTopologyTraversal(r, NoValue, q.step, {})
          /\ w = FullTopologyTraversal(t, NoValue, q.step, {})
      BY <2>14, <2>21 DEF Check
    <3>4. PICK wanted : wanted = (IF q.step # NoValue THEN q.step ELSE {})
      OBVIOUS
    <3>5. /\ c = IF wanted = {} THEN "inconclusive" ELSE IF wanted \subseteq VisitedNodes(r) THEN "passed" ELSE "inconclusive"
          /\ wanted \subseteq VisitedNodes(t) => w = IF wanted = {} THEN "inconclusive" ELSE "passed"
      BY <2>13, <3>3, <3>4 DEF FullTopologyTraversal
    <3> QED
      BY <3>2, <3>5
  <2> QED
    BY <2>15, <2>16, <2>17, <2>18, <2>19, <2>20, <2>21 DEF ContractKinds
<1> QED
  BY <1>1, <1>2

-----------------------------------------------------------------------------
(* What became of a failed call.                                           *)

LEMMA GreatestOf ==
    ASSUME NEW n \in Nat, NEW T, T \subseteq 1..n, T # {} PROVE \E x \in T : \A y \in T : y <= x
<1>1. PICK D : D = {n - y : y \in T}
  OBVIOUS
<1>2. D \subseteq Nat /\ D # {}
  <2>1. \A y \in T : n - y \in Nat
    BY n \in Nat
  <2> QED
    BY <1>1, <2>1
<1>3. PICK d \in D : \A c \in D : d <= c
  BY <1>2, LeastOf
<1>4. PICK x \in T : d = n - x
  BY <1>1
<1>5. ASSUME NEW y \in T PROVE y <= x
  <2>1. n - y \in D /\ x \in 1..n /\ y \in 1..n
    BY <1>1
  <2>2. n - x <= n - y
    BY <1>3, <1>4, <2>1
  <2> QED
    BY <2>1, <2>2
<1> QED
  BY <1>5

\* What the score says of a failed call at place l of a report.
After(report, n, l) ==
    LET later == {j \in 1..n : j > l /\ StageStep(report.calls[j]) = StageStep(report.calls[l])}
    IN  IF report.calls[l].name = Unnamed \/ later = {} THEN "fallback"
        ELSE IF \E j \in later : report.calls[j].ok THEN "retried" ELSE "unrecovered"

LEMMA AfterFailureIs ==
    ASSUME NEW r, NEW n, Listed(r, n), NEW e, NEW hits \in SUBSET (1..n),
           \A i \in 1..n : i \in hits <=> r.calls[i].event = e.id,
           NEW v, v = AfterFailure(e, CallSet(r))
    PROVE  /\ hits = {} => v = "fallback"
           /\ \A l \in hits : (\A h \in hits : h <= l) => v = After(r, n, l)
<1>1. PICK C, H : C = CallSet(r) /\ H = {c \in C : c.event = e.id}
  OBVIOUS
<1>2. n \in Nat /\ (\A i \in 1..n : r.calls[i].sequence = i) /\ C = {r.calls[i] : i \in 1..n}
  BY <1>1 DEF Listed, CallSet
<1>3. (\A i \in hits : r.calls[i] \in H /\ i \in 1..n) /\ \A c \in H : \E i \in hits : c = r.calls[i]
  BY <1>1, <1>2
<1>4. hits = {} => v = "fallback"
  BY <1>1, <1>3 DEF AfterFailure
<1>5. ASSUME NEW l \in hits, \A h \in hits : h <= l PROVE v = After(r, n, l)
  <2>1. PICK a : a = r.calls[l]
    OBVIOUS
  <2>2. a \in H /\ \A d \in H : d.sequence <= a.sequence
    BY <1>2, <1>3, <1>5, <2>1
  <2>3. \A c \in H : (\A d \in H : d.sequence <= c.sequence) => c = a
    <3> TAKE c \in H
    <3> HAVE \A d \in H : d.sequence <= c.sequence
    <3>1. PICK i \in hits : c = r.calls[i]
      BY <1>3
    <3>2. a.sequence <= c.sequence /\ a.sequence = l /\ c.sequence = i /\ i <= l /\ i \in Int /\ l \in Int
      BY <1>2, <1>3, <1>5, <2>1, <2>2, <3>1
    <3> QED
      BY <2>1, <3>1, <3>2
  <2>4. a = CHOOSE c \in H : \A d \in H : d.sequence <= c.sequence
    BY <2>2, <2>3
  <2>5. PICK later : later = {c \in C : c.sequence > a.sequence /\ StageStep(c) = StageStep(a)}
    OBVIOUS
  <2>6. v = IF a.name = Unnamed \/ later = {} THEN "fallback"
            ELSE IF \E c \in later : c.ok THEN "retried" ELSE "unrecovered"
    <3>1. v = LET last == CHOOSE c \in H : \A d \in H : d.sequence <= c.sequence
                  then == {c \in C : c.sequence > last.sequence /\ StageStep(c) = StageStep(last)}
              IN  IF H = {} THEN "fallback"
                  ELSE IF last.name = Unnamed \/ then = {} THEN "fallback"
                  ELSE IF \E c \in then : c.ok THEN "retried" ELSE "unrecovered"
      BY <1>1 DEF AfterFailure
    <3> QED
      BY <2>2, <2>4, <2>5, <3>1
  <2>7. PICK places : places = {j \in 1..n : j > l /\ StageStep(r.calls[j]) = StageStep(r.calls[l])}
    OBVIOUS
  <2>8. (\A j \in places : r.calls[j] \in later) /\ \A c \in later : \E j \in places : c = r.calls[j]
    <3>1. a.sequence = l
      BY <1>2, <1>3, <2>1
    <3> QED
      BY <1>2, <2>1, <2>5, <2>7, <3>1
  <2>9. (later = {} <=> places = {}) /\ ((\E c \in later : c.ok) <=> \E j \in places : r.calls[j].ok)
    BY <2>8
  <2>10. After(r, n, l) = IF a.name = Unnamed \/ places = {} THEN "fallback"
                          ELSE IF \E j \in places : r.calls[j].ok THEN "retried" ELSE "unrecovered"
    BY <2>1, <2>7 DEF After
  <2> QED
    BY <2>6, <2>9, <2>10
<1> QED
  BY <1>4, <1>5

LaterCalls(log, i) == {j \in 1..Len(log) : j > i /\ log[j].kind = log[i].kind /\ log[j].name = log[i].name}
Fate(log, i) == IF log[i].name = Unnamed \/ LaterCalls(log, i) = {} THEN "fallback"
                ELSE IF \E j \in LaterCalls(log, i) : log[j].ok THEN "retried" ELSE "unrecovered"

\* In a report of one run a hit call is the only one of its event.
LEMMA AfterFailureOf ==
    ASSUME NEW log, IsLog(log), NEW raised \in BOOLEAN, NEW w, w = Whole(log, raised), NEW n, n = Len(log),
           NEW i \in 1..n, log[i].event # 0
    PROVE  AfterFailure(EventOf(log[i]), CallSet(w)) = Fate(log, i)
<1>0. PICK later : later = {j \in 1..n : j > i /\ log[j].kind = log[i].kind /\ log[j].name = log[i].name}
  OBVIOUS
<1>1. Listed(w, n) /\ \A j \in 1..n : w.calls[j] = CallOf(log, j)
  BY WholeListed
<1>2. \A j \in 1..n : /\ w.calls[j].kind = log[j].kind /\ w.calls[j].name = log[j].name
                      /\ w.calls[j].ok = log[j].ok /\ w.calls[j].event = log[j].event /\ w.calls[j].stage = 0
  BY <1>1, FieldsOfCall
<1>3. PICK e, hits : e = EventOf(log[i]) /\ hits = {j \in 1..n : w.calls[j].event = e.id}
  OBVIOUS
<1>4. e.id = log[i].event
  BY <1>3 DEF EventOf
<1>5. hits = {i}
  <2>1. \A j \in 1..n : log[j].event = log[i].event => j = i
    BY DEF IsLog
  <2> QED
    BY <1>2, <1>3, <1>4, <2>1
<1>6. AfterFailure(e, CallSet(w)) = After(w, n, i)
  <2>1. i \in hits /\ \A h \in hits : h <= i
    BY <1>5
  <2>2. PICK v : v = AfterFailure(e, CallSet(w))
    OBVIOUS
  <2>3. v = After(w, n, i)
    <3>1. hits \in SUBSET (1..n) /\ \A j \in 1..n : j \in hits <=> w.calls[j].event = e.id
      BY <1>3
    <3>2. \A l \in hits : (\A h \in hits : h <= l) => v = After(w, n, l)
      <4>1. Listed(w, n)
        BY <1>1
      <4> QED
        BY ONLY <2>2, <3>1, <4>1, AfterFailureIs
    <3> QED
      BY <2>1, <3>2
  <2> QED
    BY <2>2, <2>3
<1>7. \A j \in 1..n : StageStep(w.calls[j]) = StageStep(w.calls[i]) <=>
                         log[j].kind = log[i].kind /\ log[j].name = log[i].name
  BY <1>2 DEF StageStep, StepKey
<1>8. PICK places : places = {j \in 1..n : j > i /\ StageStep(w.calls[j]) = StageStep(w.calls[i])}
  OBVIOUS
<1>9. places = later
  BY <1>0, <1>7, <1>8
<1>10. After(w, n, i) = IF w.calls[i].name = Unnamed \/ places = {} THEN "fallback"
                        ELSE IF \E j \in places : w.calls[j].ok THEN "retried" ELSE "unrecovered"
  BY <1>8 DEF After
<1>11. (\E j \in places : w.calls[j].ok) <=> \E j \in later : log[j].ok
  BY <1>2, <1>8, <1>9
<1> QED
  <2>1. LaterCalls(log, i) = later
    BY <1>0 DEF LaterCalls
  <2>2. Fate(log, i) = IF log[i].name = Unnamed \/ later = {} THEN "fallback"
                       ELSE IF \E j \in later : log[j].ok THEN "retried" ELSE "unrecovered"
    BY <2>1 DEF Fate
  <2> QED
    BY <1>2, <1>3, <1>6, <1>9, <1>10, <1>11, <2>2

LEMMA UnrecoveredIs ==
    ASSUME NEW log, IsLog(log), NEW raised \in BOOLEAN, NEW w, w = Whole(log, raised), NEW n, n = Len(log)
    PROVE  UnrecoveredSteps(w) = {log[i].name : i \in {k \in 1..n :
               /\ log[k].name # Unnamed /\ ~log[k].ok /\ log[k].event # 0
               /\ \A j \in (k + 1)..n : ~(log[j].ok /\ log[j].name = log[k].name)}}
<1>1. Listed(w, n) /\ \A j \in 1..n : w.calls[j] = CallOf(log, j)
  BY WholeListed
<1>2. PICK calls : calls = OrderedCalls(w)
  OBVIOUS
<1>3. n \in Nat /\ calls = [j \in 1..n |-> w.calls[j]]
  <2>1. n \in Nat
    BY <1>1 DEF Listed
  <2>2. OrderedCalls(w) = [j \in 1..n |-> w.calls[j]]
    BY <1>1, ListedIsOrdered
  <2> QED
    BY <1>2, <2>1, <2>2
<1>4. DOMAIN calls = 1..n /\ Len(calls) = n
      /\ \A j \in 1..n : /\ calls[j].name = log[j].name /\ calls[j].ok = log[j].ok /\ calls[j].event = log[j].event
  BY <1>1, <1>3, FieldsOfCall
<1>5. \A k \in 1..n : (\A j \in (k + 1)..n : ~(calls[j].ok /\ calls[j].name = calls[k].name)) <=>
                      (\A j \in (k + 1)..n : ~(log[j].ok /\ log[j].name = log[k].name))
  <2>1. \A k \in 1..n : \A j \in (k + 1)..n : j \in 1..n
    BY <1>3
  <2> HIDE DEF Listed
  <2> QED
    BY <1>4, <2>1
<1>6. PICK U, V :
        /\ U = {k \in 1..n : /\ calls[k].name # Unnamed /\ ~calls[k].ok /\ calls[k].event # 0
                             /\ \A j \in (k + 1)..n : ~(calls[j].ok /\ calls[j].name = calls[k].name)}
        /\ V = {k \in 1..n : /\ log[k].name # Unnamed /\ ~log[k].ok /\ log[k].event # 0
                             /\ \A j \in (k + 1)..n : ~(log[j].ok /\ log[j].name = log[k].name)}
  OBVIOUS
<1>7. U = V
  BY <1>4, <1>5, <1>6
<1>8. UnrecoveredSteps(w) = {calls[i].name : i \in U}
  BY <1>2, <1>4, <1>6 DEF UnrecoveredSteps
<1>9. {calls[i].name : i \in U} = {log[i].name : i \in V}
  BY <1>4, <1>6, <1>7
<1> QED
  BY <1>6, <1>8, <1>9

\* A step that the complete log shows unrecovered is so in the cut one, when the record
\* of its failed call was kept: what is dropped can only be a call behind it.
LEMMA UnrecoveredKept ==
    ASSUME NEW log, IsLog(log), NEW kept \in SUBSET (DOMAIN log), NEW raised \in BOOLEAN,
           \A i \in DOMAIN log \ kept : ~Hit(log[i]),
           UnrecoveredSteps(Whole(log, raised)) # {}
    PROVE  UnrecoveredSteps(Reported(log, kept, raised)) # {}
<1>1. PICK r, n : r = Reported(log, kept, raised) /\ n = Len(log)
  OBVIOUS
<1>2. n \in Nat /\ DOMAIN log = 1..n /\ kept \subseteq 1..n
  BY <1>1 DEF IsLog, IsList
<1>3. PICK i \in 1..n : /\ log[i].name # Unnamed /\ ~log[i].ok /\ log[i].event # 0
                        /\ \A j \in (i + 1)..n : ~(log[j].ok /\ log[j].name = log[i].name)
  BY <1>1, UnrecoveredIs
<1>4. i \in kept
  BY <1>2, <1>3 DEF Hit
<1>5. PICK S, m, p : S = {CallOf(log, j) : j \in kept} /\ m = Cardinality(S) /\ p = InStartOrder(S)
  OBVIOUS
<1>6. Numbered(S)
  <2>1. n \in Nat /\ kept \subseteq 1..n /\ S = {CallOf(log, j) : j \in kept}
    BY <1>2, <1>5
  <2> QED
    BY ONLY <2>1, SomeNumbered
<1>7. /\ m \in Nat /\ DOMAIN p = 1..m /\ p \in [1..m -> S] /\ Len(p) = m
      /\ \A k \in 1..m : p[k] \in S /\ Rank(S, p[k]) = k
      /\ \A c \in S : Rank(S, c) \in 1..m /\ p[Rank(S, c)] = c
  <2>1. Numbered(S) /\ p = InStartOrder(S) /\ m = Cardinality(S)
    BY <1>5, <1>6
  <2> QED
    BY ONLY <2>1, StartOrder
<1>8. OrderedCalls(r) = p
  <2>1. r.calls = p
    BY <1>1, <1>5 DEF Reported
  <2>2. CallSet(r) = S
    BY <1>7, <2>1 DEF CallSet
  <2> QED
    BY <1>5, <2>2 DEF OrderedCalls
<1>9. PICK c, k : c = CallOf(log, i) /\ k = Rank(S, c)
  OBVIOUS
<1>10. c \in S /\ k \in 1..m /\ p[k] = c
  BY <1>4, <1>5, <1>7, <1>9
<1>11. \A j \in 1..n : /\ CallOf(log, j).sequence = j /\ CallOf(log, j).name = log[j].name
                       /\ CallOf(log, j).ok = log[j].ok /\ CallOf(log, j).event = log[j].event
  BY DEF CallOf
<1>12. ASSUME NEW j \in (k + 1)..m
       PROVE  ~(p[j].ok /\ p[j].name = p[k].name)
  <2>1. j \in 1..m /\ j > k
    BY <1>7, <1>10
  <2>2. PICK x \in kept : p[j] = CallOf(log, x)
    BY <1>5, <1>7, <2>1
  <2>3. Rank(S, p[j]) = j
    BY <1>7, <2>1
  <2>4. x # i
    BY <1>9, <1>10, <2>1, <2>2, <2>3
  <2>5. ~(x < i)
    <3>1. SUFFICES ASSUME x < i PROVE FALSE
      OBVIOUS
    <3>2. p[j].sequence < c.sequence
      BY <1>2, <1>9, <1>11, <2>2, <3>1
    <3>3. p[j] \in S /\ c \in S
      BY <1>7, <1>10, <2>1
    <3>4. Rank(S, p[j]) < Rank(S, c)
      BY <1>6, <3>2, <3>3, RankGrows
    <3> QED
      BY <1>9, <1>10, <2>1, <2>3, <3>4
  <2>6. x \in (i + 1)..n
    BY <1>2, <2>4, <2>5
  <2> QED
    BY <1>2, <1>3, <1>9, <1>10, <1>11, <2>2, <2>6
<1>13. p[k].name # Unnamed /\ ~p[k].ok /\ p[k].event # 0
  BY <1>3, <1>9, <1>10, <1>11
<1>14. p[k].name \in UnrecoveredSteps(r)
  BY <1>7, <1>8, <1>10, <1>12, <1>13 DEF UnrecoveredSteps
<1> QED
  BY <1>1, <1>14

\* So strict recovery passes a cut log wrongly only if it lost such a record.
LEMMA StrictOnCut ==
    ASSUME NEW log, IsLog(log), NEW kept \in SUBSET (DOMAIN log), NEW raised \in BOOLEAN, NEW q,
           q.kind = "recovered_after_failure", q.stepSuccess = TRUE,
           Check(q, Reported(log, kept, raised), NoValue) = "passed",
           \A i \in DOMAIN log \ kept : ~Hit(log[i])
    PROVE  Check(q, Whole(log, raised), NoValue) = "passed"
<1>1. PICK r, t : r = Reported(log, kept, raised) /\ t = Whole(log, raised)
  OBVIOUS
<1>2. /\ r.events = t.events /\ r.raised = t.raised /\ r.aborted = t.aborted
      /\ r.recorded = t.recorded
  BY <1>1 DEF Whole, Reported
<1>3. RecoveredAfterFailure(r, TRUE) = "passed"
  BY <1>1 DEF Check
<1>4. /\ InjectedFailures(r) # {} /\ ~(r.raised \/ r.aborted)
      /\ ~(Missing(r, "unhandled_error") \/ Missing(r, "calls"))
      /\ UnrecoveredSteps(r) = {}
  BY <1>3 DEF RecoveredAfterFailure
<1>5. UnrecoveredSteps(t) = {}
  BY <1>1, <1>4, UnrecoveredKept
<1>6. InjectedFailures(t) # {} /\ ~(Missing(t, "unhandled_error") \/ Missing(t, "calls"))
  BY <1>2, <1>4 DEF InjectedFailures, Missing
<1>7. RecoveredAfterFailure(t, TRUE) = "passed"
  BY <1>2, <1>4, <1>5, <1>6 DEF RecoveredAfterFailure
<1> QED
  BY <1>1, <1>7 DEF Check

-----------------------------------------------------------------------------
(* Merged reports.                                                         *)

Appended(s, k, t, l, u) ==
    /\ DOMAIN u = 1..(k + l) /\ Len(u) = k + l
    /\ \A i \in 1..k : i \in 1..(k + l) /\ u[i] = s[i]
    /\ \A j \in 1..l : k + j \in 1..(k + l) /\ u[k + j] = t[j]
    /\ \A i \in 1..(k + l) : i \in 1..k \/ \E j \in 1..l : i = k + j

LEMMA ConcatIs ==
    ASSUME NEW k \in Nat, NEW l \in Nat, NEW s, NEW t, s = [i \in 1..k |-> s[i]], t = [i \in 1..l |-> t[i]],
           NEW u, u = s \o t
    PROVE  Appended(s, k, t, l, u)
<1>1. PICK S : S = {s[i] : i \in 1..k} \union {t[i] : i \in 1..l}
  OBVIOUS
<1>2. s \in [1..k -> S] /\ t \in [1..l -> S]
  BY <1>1
<1>3. s \in Seq(S) /\ t \in Seq(S) /\ Len(s) = k /\ Len(t) = l
  BY <1>2
<1>4. u \in Seq(S) /\ Len(u) = k + l /\ \A i \in 1..(k + l) : u[i] = IF i <= k THEN s[i] ELSE t[i - k]
  <2>1. s \o t \in Seq(S)
    BY <1>3, ConcatProperties
  <2>2. Len(s \o t) = Len(s) + Len(t)
    BY <1>3, ConcatProperties
  <2>3. \A i \in 1..(Len(s) + Len(t)) : (s \o t)[i] = IF i <= Len(s) THEN s[i] ELSE t[i - Len(s)]
    BY <1>3, ConcatProperties, Zenon
  <2> QED
    BY <1>3, <2>1, <2>2, <2>3
<1>5. DOMAIN u = 1..(k + l)
  BY <1>4
<1>6. \A i \in 1..k : i \in 1..(k + l) /\ u[i] = s[i]
  BY <1>4
<1>7. ASSUME NEW j \in 1..l PROVE k + j \in 1..(k + l) /\ u[k + j] = t[j]
  <2>1. k + j \in 1..(k + l) /\ ~(k + j <= k) /\ (k + j) - k = j
    OBVIOUS
  <2> QED
    BY <1>4, <2>1
<1>8. ASSUME NEW i \in 1..(k + l), i \notin 1..k PROVE \E j \in 1..l : i = k + j
  <2>1. i - k \in 1..l /\ i = k + (i - k)
    BY <1>8
  <2> QED
    BY <2>1
<1> QED
  BY <1>4, <1>5, <1>6, <1>7, <1>8 DEF Appended

SameCall(c, d) == c.kind = d.kind /\ c.name = d.name /\ c.ok = d.ok /\ c.event = d.event

\* A merge renumbers the calls of the steps and keeps what they say.
MergedOf(m, a, b, k, l) ==
    /\ Listed(m, k + l) /\ k \in Nat /\ l \in Nat
    /\ \A i \in 1..k : i \in 1..(k + l) /\ SameCall(m.calls[i], a.calls[i]) /\ m.calls[i].stage = 1
    /\ \A j \in 1..l : k + j \in 1..(k + l) /\ SameCall(m.calls[k + j], b.calls[j]) /\ m.calls[k + j].stage = 2
    /\ \A i \in 1..(k + l) : i \in 1..k \/ \E j \in 1..l : i = k + j

\* The calls of a merged report are those of the steps, one after the other.
LEMMA MergedCalls ==
    ASSUME NEW a, NEW b, NEW k, NEW l, Listed(a, k), Listed(b, l), NEW m, m = Merged(a, b)
    PROVE  MergedOf(m, a, b, k, l)
<1>0. PICK n : n = k + l
  OBVIOUS
<1>1. k \in Nat /\ l \in Nat /\ Len(a.calls) = k /\ Len(b.calls) = l
  BY DEF Listed
<1>2. PICK s, t : s = Restaged(a.calls, 1, 0) /\ t = Restaged(b.calls, 2, k)
  OBVIOUS
<1>3. /\ DOMAIN s = 1..k /\ s = [i \in 1..k |-> s[i]]
      /\ \A i \in 1..k : s[i].sequence = 0 + i /\ s[i].stage = 1 /\ SameCall(s[i], a.calls[i])
  BY <1>1, <1>2 DEF Restaged, SameCall
<1>4. /\ DOMAIN t = 1..l /\ t = [i \in 1..l |-> t[i]]
      /\ \A i \in 1..l : t[i].sequence = k + i /\ t[i].stage = 2 /\ SameCall(t[i], b.calls[i])
  BY <1>1, <1>2 DEF Restaged, SameCall
<1>5. m.calls = s \o t
  BY <1>1, <1>2 DEF Merged
<1>6. PICK u : u = s \o t
  OBVIOUS
<1>7. /\ DOMAIN u = 1..n /\ Len(u) = n
      /\ \A i \in 1..k : i \in 1..n /\ u[i] = s[i]
      /\ \A j \in 1..l : k + j \in 1..n /\ u[k + j] = t[j]
      /\ \A i \in 1..n : i \in 1..k \/ \E j \in 1..l : i = k + j
  <2>1. s = [i \in 1..k |-> s[i]] /\ t = [i \in 1..l |-> t[i]] /\ k \in Nat /\ l \in Nat
    BY <1>1, <1>3, <1>4
  <2> HIDE DEF Listed
  <2>2. Appended(s, k, t, l, u)
    BY <2>1, <1>6, ConcatIs
  <2> QED
    BY <1>0, <2>2 DEF Appended
<1>8. \A i \in 1..n : u[i].sequence = i
  <2>1. \A i \in 1..k : u[i].sequence = i
    BY <1>1, <1>3, <1>7
  <2>2. \A j \in 1..l : u[k + j].sequence = k + j
    BY <1>4, <1>7
  <2> QED
    BY <1>7, <2>1, <2>2
<1>9. n \in Nat
  BY <1>0, <1>1
<1>10. Listed(m, n)
  BY <1>5, <1>6, <1>7, <1>8, <1>9 DEF Listed
<1> QED
  BY <1>0, <1>1, <1>3, <1>4, <1>5, <1>6, <1>7, <1>10 DEF MergedOf

-----------------------------------------------------------------------------
(* Retries, counted.                                                       *)

AfterStreak(r, i) ==
    \E j \in 1..(i - 1) :
        /\ StepKey(r.calls[j]) = StepKey(r.calls[i])
        /\ \A h \in 1..(i - 1) : StepKey(r.calls[h]) = StepKey(r.calls[i]) /\ r.calls[h].ok => j > h
RetriedAt(r, n) == {i \in 1..n : r.calls[i].name # Unnamed /\ AfterStreak(r, i)}

LEMMA StreakIs ==
    ASSUME NEW r, NEW n, Listed(r, n), NEW calls, calls = [i \in 1..n |-> r.calls[i]], NEW i \in 1..n
    PROVE  StreakBefore(calls, i) > 0 <=> AfterStreak(r, i)
<1>1. n \in Nat
  BY DEF Listed
<1>2. PICK E : E = {j \in 1..(i - 1) : StepKey(calls[j]) = StepKey(calls[i])}
  OBVIOUS
<1>3. PICK K : K = {j \in E : calls[j].ok}
  OBVIOUS
<1>4. PICK B : B = {j \in E : \A h \in K : j > h}
  OBVIOUS
<1>5. StreakBefore(calls, i) = Cardinality(B)
  BY <1>2, <1>3, <1>4 DEF StreakBefore
<1>6. \A j \in 1..(i - 1) : j \in 1..n
  BY <1>1
<1>7. calls[i] = r.calls[i] /\ \A j \in 1..(i - 1) : calls[j] = r.calls[j]
  BY <1>6
<1>8. \A j \in 1..(i - 1) : j \in B <=>
        /\ StepKey(r.calls[j]) = StepKey(r.calls[i])
        /\ \A h \in 1..(i - 1) : StepKey(r.calls[h]) = StepKey(r.calls[i]) /\ r.calls[h].ok => j > h
  BY <1>2, <1>3, <1>4, <1>7
<1>9. B \in SUBSET (1..(i - 1))
  BY <1>2, <1>4
<1>10. IsFiniteSet(B) /\ Cardinality(B) \in Nat /\ (Cardinality(B) = 0 <=> B = {})
  <2>1. i - 1 \in Nat
    BY <1>1
  <2>2. IsFiniteSet(1..(i - 1))
    BY <2>1, CountUpTo
  <2>3. IsFiniteSet(B)
    BY <1>9, <2>2, FS_Subset
  <2> QED
    BY <2>3, FS_CardinalityType, FS_EmptySet
<1>11. AfterStreak(r, i) <=> B # {}
  BY <1>8, <1>9 DEF AfterStreak
<1> QED
  BY <1>5, <1>10, <1>11

LEMMA RetriesCounted ==
    ASSUME NEW r, NEW n, Listed(r, n)
    PROVE  Cardinality(FindRetries(r)) = Cardinality(RetriedAt(r, n)) /\ IsFiniteSet(RetriedAt(r, n))
           /\ Cardinality(RetriedAt(r, n)) \in Nat
<1>1. PICK calls : calls = OrderedCalls(r)
  OBVIOUS
<1>2. n \in Nat /\ calls = [i \in 1..n |-> r.calls[i]]
  BY <1>1, ListedIsOrdered DEF Listed
<1>3. PICK R : R = RetriedAt(r, n)
  OBVIOUS
<1>4. DOMAIN calls = 1..n /\ \A i \in 1..n : calls[i].name # Unnamed /\ StreakBefore(calls, i) > 0 <=> i \in R
  BY <1>2, <1>3, StreakIs DEF RetriedAt
<1>5. R \in SUBSET (1..n)
  BY <1>3 DEF RetriedAt
<1>6. R = {i \in DOMAIN calls : calls[i].name # Unnamed /\ StreakBefore(calls, i) > 0}
  BY <1>4, <1>5
<1>7. PICK f : f = [i \in R |-> [step |-> calls[i].name, at |-> calls[i].at, streak |-> StreakBefore(calls, i), n |-> i]]
  OBVIOUS
<1>8. PICK F : F = FindRetries(r)
  OBVIOUS
<1>9. F = {f[i] : i \in R}
  BY <1>1, <1>6, <1>7, <1>8 DEF FindRetries
<1>10. \A i \in R : f[i].n = i
  BY <1>7
<1>11. f \in Bijection(R, F)
  BY <1>7, <1>9, <1>10 DEF Bijection, Injection, IsInjective, Surjection
<1>12. IsFiniteSet(1..n)
  BY <1>2, CountUpTo
<1>13. IsFiniteSet(R)
  BY <1>5, <1>12, FS_Subset
<1>14. Cardinality(R) \in Nat
  BY <1>13, FS_CardinalityType
<1>15. Cardinality(F) = Cardinality(R)
  BY <1>11, <1>13, FS_Bijection DEF ExistsBijection
<1> QED
  BY <1>3, <1>8, <1>13, <1>14, <1>15

LEMMA StepKeys ==
    ASSUME NEW m, NEW a, NEW b, NEW k, NEW l, MergedOf(m, a, b, k, l)
    PROVE  /\ \A i, j \in 1..k : StepKey(m.calls[i]) = StepKey(m.calls[j]) <=> StepKey(a.calls[i]) = StepKey(a.calls[j])
           /\ \A i, j \in 1..l : StepKey(m.calls[k + i]) = StepKey(m.calls[k + j])
                                    <=> StepKey(b.calls[i]) = StepKey(b.calls[j])
           /\ \A i \in 1..k, j \in 1..l : a.calls[i].name # b.calls[j].name =>
                                             StepKey(m.calls[i]) # StepKey(m.calls[k + j])
           /\ \A i \in 1..k : m.calls[i].name = a.calls[i].name /\ m.calls[i].ok = a.calls[i].ok
           /\ \A j \in 1..l : m.calls[k + j].name = b.calls[j].name /\ m.calls[k + j].ok = b.calls[j].ok
<1>1. \A i \in 1..k : SameCall(m.calls[i], a.calls[i])
  BY DEF MergedOf
<1>2. \A j \in 1..l : SameCall(m.calls[k + j], b.calls[j])
  BY DEF MergedOf
<1> QED
  BY <1>1, <1>2 DEF SameCall, StepKey

\* Retries of the first step stay; those of the second stay, and may grow in number.
LEMMA RetriesKept ==
    ASSUME NEW m, NEW a, NEW b, NEW k, NEW l, MergedOf(m, a, b, k, l)
    PROVE  /\ \A i \in 1..k : AfterStreak(m, i) <=> AfterStreak(a, i)
           /\ \A j \in 1..l : AfterStreak(b, j) => AfterStreak(m, k + j)
           /\ (\A i \in 1..k, j \in 1..l : a.calls[i].name # b.calls[j].name) =>
                 \A j \in 1..l : AfterStreak(m, k + j) => AfterStreak(b, j)
<1>1. k \in Nat /\ l \in Nat
  BY DEF MergedOf
<1>2. /\ \A i, j \in 1..k : StepKey(m.calls[i]) = StepKey(m.calls[j]) <=> StepKey(a.calls[i]) = StepKey(a.calls[j])
      /\ \A i, j \in 1..l : StepKey(m.calls[k + i]) = StepKey(m.calls[k + j])
                               <=> StepKey(b.calls[i]) = StepKey(b.calls[j])
      /\ \A i \in 1..k : m.calls[i].ok = a.calls[i].ok
      /\ \A j \in 1..l : m.calls[k + j].ok = b.calls[j].ok
  BY StepKeys
<1>3. ASSUME NEW i \in 1..k PROVE AfterStreak(m, i) <=> AfterStreak(a, i)
  <2>1. \A j \in 1..(i - 1) : j \in 1..k
    BY <1>1
  <2>2. \A j \in 1..(i - 1) : /\ StepKey(m.calls[j]) = StepKey(m.calls[i]) <=> StepKey(a.calls[j]) = StepKey(a.calls[i])
                              /\ m.calls[j].ok = a.calls[j].ok
    BY <1>2, <2>1
  <2> QED
    BY <2>2 DEF AfterStreak
<1>4. ASSUME NEW j \in 1..l, AfterStreak(b, j) PROVE AfterStreak(m, k + j)
  <2>1. PICK h \in 1..(j - 1) :
          /\ StepKey(b.calls[h]) = StepKey(b.calls[j])
          /\ \A g \in 1..(j - 1) : StepKey(b.calls[g]) = StepKey(b.calls[j]) /\ b.calls[g].ok => h > g
    BY <1>4 DEF AfterStreak
  <2>2. k + h \in 1..((k + j) - 1) /\ h \in 1..l
    BY <1>1
  <2>3. StepKey(m.calls[k + h]) = StepKey(m.calls[k + j])
    BY <1>2, <2>1, <2>2
  <2>4. ASSUME NEW g \in 1..((k + j) - 1), StepKey(m.calls[g]) = StepKey(m.calls[k + j]), m.calls[g].ok
        PROVE  k + h > g
    <3>1. CASE g <= k
      BY <1>1, <3>1
    <3>2. CASE ~(g <= k)
      <4>1. g - k \in 1..(j - 1) /\ g - k \in 1..l /\ k + (g - k) = g
        BY <1>1, <3>2
      <4>2. StepKey(b.calls[g - k]) = StepKey(b.calls[j]) /\ b.calls[g - k].ok
        BY <1>2, <2>4, <4>1
      <4>3. h > g - k
        BY <2>1, <4>1, <4>2
      <4> QED
        BY <1>1, <4>3
    <3> QED
      BY <3>1, <3>2
  <2> QED
    BY <2>2, <2>3, <2>4 DEF AfterStreak
<1>5. ASSUME \A i \in 1..k, j \in 1..l : a.calls[i].name # b.calls[j].name,
             NEW j \in 1..l, AfterStreak(m, k + j)
      PROVE  AfterStreak(b, j)
  <2>1. PICK f \in 1..((k + j) - 1) :
          /\ StepKey(m.calls[f]) = StepKey(m.calls[k + j])
          /\ \A g \in 1..((k + j) - 1) : StepKey(m.calls[g]) = StepKey(m.calls[k + j]) /\ m.calls[g].ok => f > g
    BY <1>5 DEF AfterStreak
  <2>2. \A i \in 1..k : StepKey(m.calls[i]) # StepKey(m.calls[k + j])
    BY <1>5, StepKeys
  <2>3. f \notin 1..k
    BY <2>1, <2>2
  <2>4. PICK h : h = f - k
    OBVIOUS
  <2>5. h \in 1..(j - 1) /\ h \in 1..l /\ f = k + h
    BY <1>1, <2>3, <2>4
  <2>6. StepKey(b.calls[h]) = StepKey(b.calls[j])
    BY <1>2, <2>1, <2>5
  <2>7. ASSUME NEW g \in 1..(j - 1), StepKey(b.calls[g]) = StepKey(b.calls[j]), b.calls[g].ok PROVE h > g
    <3>1. k + g \in 1..((k + j) - 1) /\ g \in 1..l
      BY <1>1
    <3>2. StepKey(m.calls[k + g]) = StepKey(m.calls[k + j]) /\ m.calls[k + g].ok
      BY <1>2, <2>7, <3>1
    <3>3. k + h > k + g
      BY <2>1, <2>5, <3>1, <3>2
    <3> QED
      BY <1>1, <2>5, <3>3
  <2> QED
    BY <2>5, <2>6, <2>7 DEF AfterStreak
<1> QED
  BY <1>3, <1>4, <1>5

LEMMA RetriesMerged ==
    ASSUME NEW m, NEW a, NEW b, NEW k, NEW l, MergedOf(m, a, b, k, l), Listed(a, k), Listed(b, l),
           NEW x, NEW y, NEW z, x = Cardinality(FindRetries(a)), y = Cardinality(FindRetries(b)),
           z = Cardinality(FindRetries(m))
    PROVE  z >= x + y /\ ((\A i \in 1..k, j \in 1..l : a.calls[i].name # b.calls[j].name) => z = x + y)
<1>1. k \in Nat /\ l \in Nat /\ Listed(m, k + l)
      /\ \A i \in 1..(k + l) : i \in 1..k \/ \E j \in 1..l : i = k + j
  BY DEF MergedOf
<1>2. PICK P, Q, R : P = RetriedAt(a, k) /\ Q = RetriedAt(b, l) /\ R = RetriedAt(m, k + l)
  OBVIOUS
<1>3. /\ IsFiniteSet(P) /\ IsFiniteSet(Q) /\ IsFiniteSet(R) /\ x \in Nat /\ y \in Nat /\ z \in Nat
      /\ x = Cardinality(P) /\ y = Cardinality(Q) /\ z = Cardinality(R)
  BY <1>1, <1>2, RetriesCounted
<1>4. PICK T : T = {k + j : j \in Q}
  OBVIOUS
<1>5. P \subseteq 1..k /\ Q \subseteq 1..l /\ R \subseteq 1..(k + l)
  BY <1>2 DEF RetriedAt
<1>6. IsFiniteSet(T) /\ Cardinality(T) = y
  <2>1. PICK f : f = [j \in Q |-> k + j]
    OBVIOUS
  <2>2. \A i, j \in Q : f[i] = f[j] => i = j
    BY <1>1, <1>5, <2>1
  <2>3. f \in Bijection(Q, T)
    BY <1>4, <2>1, <2>2 DEF Bijection, Injection, IsInjective, Surjection
  <2> QED
    BY <1>3, <2>3, FS_Bijection DEF ExistsBijection
<1>7. P \intersect T = {}
  BY <1>1, <1>4, <1>5
<1>8. IsFiniteSet(P \union T) /\ Cardinality(P \union T) = x + y
  <2>1. IsFiniteSet(P \union T) /\ Cardinality(P \union T) = Cardinality(P) + Cardinality(T) - Cardinality(P \intersect T)
    BY <1>3, <1>6, FS_Union
  <2>2. Cardinality(P \intersect T) = 0
    BY <1>7, FS_EmptySet
  <2> QED
    BY <1>3, <1>6, <2>1, <2>2
<1>9. \A i \in 1..k : i \in 1..(k + l) /\ (i \in R <=> i \in P)
  <2>1. \A i \in 1..k : i \in 1..(k + l) /\ m.calls[i].name = a.calls[i].name /\ (AfterStreak(m, i) <=> AfterStreak(a, i))
    BY <1>1, StepKeys, RetriesKept
  <2> QED
    BY <1>2, <2>1 DEF RetriedAt
<1>10. \A j \in 1..l : k + j \in 1..(k + l) /\ (j \in Q => k + j \in R)
  <2>1. \A j \in 1..l : /\ k + j \in 1..(k + l) /\ m.calls[k + j].name = b.calls[j].name
                        /\ AfterStreak(b, j) => AfterStreak(m, k + j)
    BY <1>1, StepKeys, RetriesKept
  <2> QED
    BY <1>2, <2>1 DEF RetriedAt
<1>11. P \union T \in SUBSET R
  BY <1>4, <1>5, <1>9, <1>10
<1>12. z >= x + y
  <2>1. Cardinality(P \union T) <= Cardinality(R)
    BY <1>3, <1>11, FS_Subset
  <2> QED
    BY <1>3, <1>8, <2>1
<1>13. ASSUME \A i \in 1..k, j \in 1..l : a.calls[i].name # b.calls[j].name PROVE z = x + y
  <2>1. ASSUME NEW i \in R PROVE i \in P \union T
    <3>1. CASE i \in 1..k
      BY <1>9, <2>1, <3>1
    <3>2. CASE i \notin 1..k
      <4>1. PICK j \in 1..l : i = k + j
        BY <1>1, <1>5, <2>1, <3>2
      <4>2. m.calls[k + j].name # Unnamed /\ AfterStreak(m, k + j)
        BY <1>2, <2>1, <4>1 DEF RetriedAt
      <4>3. b.calls[j].name # Unnamed /\ AfterStreak(b, j)
        BY <1>13, <4>2, StepKeys, RetriesKept
      <4>4. j \in Q
        BY <1>2, <4>3 DEF RetriedAt
      <4> QED
        BY <1>4, <4>1, <4>4
    <3> QED
      BY <3>1, <3>2
  <2>2. P \union T = R
    BY <1>11, <2>1
  <2> QED
    BY <1>3, <1>8, <2>2
<1> QED
  BY <1>12, <1>13

-----------------------------------------------------------------------------
(* Contracts and the score.                                                *)
LOCAL INSTANCE FiniteSetsExt

Blameless(events, n) == \A i \in 1..n : events[i].outcome = "degraded"
LastBlamed(events, n, l) ==
    /\ l \in 1..n /\ events[l].outcome # "degraded"
    /\ \A i \in 1..n : events[i].outcome # "degraded" => i <= l

\* The event an error that escaped is traced to.
LEMMA EscapedIs ==
    ASSUME NEW r, NEW n \in Nat, DOMAIN r.events = 1..n, NEW x, x = EscapedEventId(r)
    PROVE  /\ ~r.raised => x = 0
           /\ r.raised /\ r.carries # 0 => x = r.carries
           /\ r.raised /\ r.carries = 0 /\ Blameless(r.events, n) => x = 0
           /\ \A l : r.raised /\ r.carries = 0 /\ LastBlamed(r.events, n, l) => x = r.events[l].id
<1>1. PICK B : B = {i \in DOMAIN r.events : r.events[i].outcome # "degraded"}
  OBVIOUS
<1>2. B = {i \in 1..n : r.events[i].outcome # "degraded"} /\ (Blameless(r.events, n) => B = {})
  BY <1>1 DEF Blameless
<1>3. x = CASE ~r.raised -> 0
            [] r.raised /\ r.carries # 0 -> r.carries
            [] OTHER -> IF B = {} THEN 0 ELSE r.events[Max(B)].id
  BY <1>1 DEF EscapedEventId
<1>4. ~r.raised => x = 0
  BY <1>3
<1>5. r.raised /\ r.carries # 0 => x = r.carries
  BY <1>3
<1>6. r.raised /\ r.carries = 0 => x = IF B = {} THEN 0 ELSE r.events[Max(B)].id
  BY <1>3
<1>7. ASSUME NEW l, LastBlamed(r.events, n, l) PROVE Max(B) = l
  <2>1. \A k \in B : (\A i \in B : i <= k) => k = l
    BY <1>2, <1>7 DEF LastBlamed
  <2>2. l \in B /\ \A i \in B : i <= l
    BY <1>2, <1>7 DEF LastBlamed
  <2>3. Max(B) = CHOOSE k \in B : \A i \in B : k >= i
    BY DEF Max
  <2> QED
    BY <2>1, <2>2, <2>3
<1>8. ASSUME NEW l, r.raised, r.carries = 0, LastBlamed(r.events, n, l) PROVE x = r.events[l].id
  <2>1. B # {}
    BY <1>2, <1>8 DEF LastBlamed
  <2> QED
    BY <1>6, <1>7, <1>8, <2>1
<1> QED
  BY <1>2, <1>4, <1>5, <1>6, <1>8

VerdictSet(report) == {EventVerdict(report, report.events[i]) : i \in DOMAIN report.events}
OneKind(log) == \A i, k \in 1..Len(log) : log[i].name = log[k].name => log[i].kind = log[k].kind
Concurs(log, status, verdicts) ==
    /\ OneKind(log) /\ status = "passed" => verdicts \intersect {"escaped", "unrecovered"} = {}
    /\ status = "failed" => verdicts \intersect {"escaped", "unrecovered", "fallback"} # {}

\* A contract and the score on the same complete log.
LEMMA ScoreConcurs ==
    ASSUME NEW log, IsLog(log), NEW raised \in BOOLEAN, NEW w, w = Whole(log, raised), NEW n, n = Len(log),
           NEW status, status = RecoveredAfterFailure(w, TRUE),
           NEW verdicts, verdicts = VerdictSet(w)
    PROVE  Concurs(log, status, verdicts)
<1>1. PICK m \in Nat :
        /\ DOMAIN w.events = 1..m
        /\ \A k \in 1..m : \E i \in 1..n : log[i].event # 0 /\ w.events[k] = EventOf(log[i])
        /\ \A i \in 1..n : log[i].event # 0 => \E k \in 1..m : w.events[k] = EventOf(log[i])
  <2>1. PICK events : events = Whole(log, raised).events
    OBVIOUS
  <2>2. PICK m \in Nat : EventsOf(log, events, m)
    BY <2>1, WholeEvents
  <2>3. events = w.events
    BY <2>1
  <2> QED
    BY <2>2, <2>3 DEF EventsOf
<1>2. n \in Nat /\ \A i \in 1..n : log[i].ok \in BOOLEAN /\ log[i].event \in Nat
  BY DEF IsLog, IsList
<1>3. /\ w.recorded = {"calls", "unhandled_error"} /\ w.raised = raised /\ w.carries = 0 /\ w.aborted = FALSE
      /\ w.dropped = 0
  <2>1. w.dropped = 0
    BY WholeListed
  <2> QED
    BY <2>1 DEF Whole, Reported
<1>4. PICK bad, x, U : /\ bad = InjectedFailures(w) /\ x = EscapedEventId(w)
                       /\ U = UnrecoveredSteps(w)
  OBVIOUS
<1>5. /\ bad = {} => status = "inconclusive"
      /\ bad # {} /\ raised => status = "failed"
      /\ bad # {} /\ ~raised => status = IF U # {} THEN "failed" ELSE "passed"
  <2>1. CASE bad = {}
    BY <1>4, <2>1 DEF RecoveredAfterFailure
  <2>2. CASE bad # {} /\ raised
    BY <1>3, <1>4, <2>2 DEF RecoveredAfterFailure
  <2>3. CASE bad # {} /\ ~raised
    <3>1. ~Missing(w, "calls") /\ ~Missing(w, "unhandled_error") /\ ~(w.dropped > 0) /\ ~w.raised /\ ~w.aborted
      BY <1>3, <2>3 DEF Missing
    <3> QED
      BY <1>4, <2>3, <3>1 DEF RecoveredAfterFailure
  <2> QED
    BY <2>1, <2>2, <2>3
<1>6. bad = {k \in 1..m : w.events[k].outcome = "errored"} /\ \A k \in bad : w.events[k].outcome # "degraded"
  BY <1>1, <1>4 DEF InjectedFailures
<1>7. U = {log[i].name : i \in {k \in 1..n :
               /\ log[k].name # Unnamed /\ ~log[k].ok /\ log[k].event # 0
               /\ \A j \in (k + 1)..n : ~(log[j].ok /\ log[j].name = log[k].name)}}
  BY <1>4, UnrecoveredIs
<1>8. \A i \in 1..n : /\ EventOf(log[i]).id = log[i].event /\ EventOf(log[i]).fidelity = NoValue
                      /\ EventOf(log[i]).outcome = IF log[i].ok THEN "degraded" ELSE "errored"
  BY DEF EventOf
<1>9. ASSUME NEW i \in 1..n, log[i].event # 0, log[i].event # x, ~log[i].ok
      PROVE  EventVerdict(w, EventOf(log[i])) = AfterFailure(EventOf(log[i]), CallSet(w))
  BY <1>4, <1>8, <1>9 DEF EventVerdict
<1>10. ASSUME NEW i \in 1..n, log[i].event = x PROVE EventVerdict(w, EventOf(log[i])) = "escaped"
  BY <1>4, <1>8, <1>10 DEF EventVerdict
<1>11. ASSUME NEW i \in 1..n, log[i].event # x, log[i].ok PROVE EventVerdict(w, EventOf(log[i])) = "unverified"
  BY <1>4, <1>8, <1>11 DEF EventVerdict
<1>a. verdicts = {EventVerdict(w, w.events[i]) : i \in 1..m}
  BY <1>1 DEF VerdictSet
<1>12. ASSUME status = "passed", OneKind(log),
              NEW v \in verdicts
       PROVE  v \notin {"escaped", "unrecovered"}
  <2>1. ~raised /\ U = {}
    BY <1>5, <1>12
  <2>2. x = 0
    BY <1>3, <1>4, <2>1 DEF EscapedEventId
  <2>3. PICK k \in 1..m : v = EventVerdict(w, w.events[k])
    BY <1>12, <1>a
  <2>4. PICK i \in 1..n : log[i].event # 0 /\ w.events[k] = EventOf(log[i])
    BY <1>1
  <2>5. CASE log[i].ok
    BY <1>11, <2>2, <2>3, <2>4, <2>5
  <2>6. CASE ~log[i].ok
    <3>1. v = AfterFailure(EventOf(log[i]), CallSet(w))
      BY <1>9, <2>2, <2>3, <2>4, <2>6
    <3>2. PICK later : later = {j \in 1..n : j > i /\ log[j].kind = log[i].kind /\ log[j].name = log[i].name}
      OBVIOUS
    <3>3. v = IF log[i].name = Unnamed \/ later = {} THEN "fallback"
              ELSE IF \E j \in later : log[j].ok THEN "retried" ELSE "unrecovered"
      BY <2>4, <3>1, <3>2, AfterFailureOf DEF Fate, LaterCalls
    <3>4. CASE log[i].name = Unnamed
      BY <3>3, <3>4
    <3>5. CASE log[i].name # Unnamed
      <4>1. PICK j \in (i + 1)..n : log[j].ok /\ log[j].name = log[i].name
        <5>1. SUFFICES ASSUME \A j \in (i + 1)..n : ~(log[j].ok /\ log[j].name = log[i].name) PROVE FALSE
          OBVIOUS
        <5>2. log[i].name \in U
          BY <1>7, <2>4, <2>6, <3>5, <5>1
        <5> QED
          BY <2>1, <5>2
      <4>2. j \in 1..n /\ j > i
        BY <1>2
      <4>3. j \in later /\ log[j].ok
        BY <1>12, <3>2, <4>1, <4>2 DEF OneKind
      <4> QED
        BY <3>3, <3>5, <4>3
    <3> QED
      BY <3>4, <3>5
  <2> QED
    BY <2>5, <2>6
<1>13. ASSUME status = "failed" PROVE \E v \in verdicts : v \in {"escaped", "unrecovered", "fallback"}
  <2>1. CASE raised
    <3>1. bad # {}
      BY <1>5, <1>13
    <3>2. PICK blamed : blamed = {k \in 1..m : w.events[k].outcome # "degraded"}
      OBVIOUS
    <3>3. blamed # {} /\ blamed \subseteq 1..m
      BY <1>6, <3>1, <3>2
    <3>4. PICK l \in blamed : \A k \in blamed : k <= l
      BY <3>3, GreatestOf
    <3>5. x = w.events[l].id
      <4>1. LastBlamed(w.events, m, l)
        BY <3>2, <3>4 DEF LastBlamed
      <4>2. x = w.events[l].id \/ ~(w.raised /\ w.carries = 0)
        <5>1. m \in Nat /\ DOMAIN w.events = 1..m /\ x = EscapedEventId(w)
          BY <1>1, <1>4
        <5> QED
          BY ONLY <4>1, <5>1, EscapedIs
      <4> QED
        BY <1>3, <2>1, <4>2
    <3>6. l \in 1..m
      BY <3>3
    <3>7. PICK i \in 1..n : log[i].event # 0 /\ w.events[l] = EventOf(log[i])
      BY <1>1, <3>6
    <3>8. EventVerdict(w, w.events[l]) = "escaped"
      BY <1>8, <1>10, <3>5, <3>7
    <3> QED
      BY <1>a, <3>6, <3>8
  <2>2. CASE ~raised
    <3>1. PICK i \in 1..n : /\ log[i].name # Unnamed /\ ~log[i].ok /\ log[i].event # 0
                            /\ \A j \in (i + 1)..n : ~(log[j].ok /\ log[j].name = log[i].name)
      BY <1>5, <1>7, <1>13, <2>2
    <3>2. PICK k \in 1..m : w.events[k] = EventOf(log[i])
      BY <1>1, <3>1
    <3>3. PICK later : later = {j \in 1..n : j > i /\ log[j].kind = log[i].kind /\ log[j].name = log[i].name}
      OBVIOUS
    <3>4. AfterFailure(EventOf(log[i]), CallSet(w)) =
              IF log[i].name = Unnamed \/ later = {} THEN "fallback"
              ELSE IF \E j \in later : log[j].ok THEN "retried" ELSE "unrecovered"
      BY <3>1, <3>3, AfterFailureOf DEF Fate, LaterCalls
    <3>5. ~\E j \in later : log[j].ok
      <4>1. \A j \in 1..n : j > i => j \in (i + 1)..n
        BY <1>2
      <4> QED
        BY <3>1, <3>3, <4>1
    <3>6. EventVerdict(w, EventOf(log[i])) \in {"escaped", "unrecovered", "fallback"}
      BY <1>9, <1>10, <3>1, <3>4, <3>5
    <3> QED
      BY <1>a, <3>2, <3>6
  <2> QED
    BY <2>1, <2>2
<1> QED
  BY <1>12, <1>13 DEF Concurs

-----------------------------------------------------------------------------
(* The score of a merged report.                                           *)

LEMMA StageForm ==
    ASSUME NEW r, StageReport(r), NEW k, k = Len(r.calls), NEW p, p = Len(r.events)
    PROVE  /\ Listed(r, k) /\ k \in Nat /\ p \in Nat
           /\ DOMAIN r.events = 1..p /\ r.events = [i \in 1..p |-> r.events[i]]
           /\ Ids(r) \subseteq Nat \ {0} /\ 0 \notin Ids(r) /\ \A i \in 1..p : r.events[i].id \in Ids(r)
           /\ r.raised \in BOOLEAN /\ r.carries \in {0} \union Ids(r)
           /\ \A i \in 1..k : r.calls[i].stage = 0 /\ r.calls[i].event \in {0} \union Ids(r)
<1>1. IsList(r.calls) /\ IsList(r.events) /\ Ids(r) \subseteq Nat \ {0}
      /\ r.raised \in BOOLEAN /\ r.carries \in {0} \union Ids(r)
      /\ \A i \in 1..k : r.calls[i].sequence = i /\ r.calls[i].stage = 0 /\ r.calls[i].event \in {0} \union Ids(r)
  BY DEF StageReport
<1>2. k \in Nat /\ DOMAIN r.calls = 1..k /\ p \in Nat /\ DOMAIN r.events = 1..p
      /\ r.events = [i \in 1..p |-> r.events[i]]
  BY <1>1 DEF IsList
<1>3. \A i \in 1..p : r.events[i].id \in Ids(r)
  BY DEF Ids
<1> QED
  BY <1>1, <1>2, <1>3 DEF Listed

\* What became of a failed call is the same in the merged report.
LEMMA FirstAfter ==
    ASSUME NEW a, NEW b, NEW k, NEW l, NEW m, MergedOf(m, a, b, k, l), Listed(a, k),
           NEW e, \A j \in 1..l : b.calls[j].event # e.id, \A i \in 1..k : a.calls[i].stage = 0
    PROVE  AfterFailure(e, CallSet(m)) = AfterFailure(e, CallSet(a))
<1>1. k \in Nat /\ l \in Nat /\ Listed(m, k + l)
      /\ (\A i \in 1..k : i \in 1..(k + l) /\ SameCall(m.calls[i], a.calls[i]) /\ m.calls[i].stage = 1)
      /\ (\A j \in 1..l : k + j \in 1..(k + l) /\ SameCall(m.calls[k + j], b.calls[j]) /\ m.calls[k + j].stage = 2)
      /\ (\A i \in 1..(k + l) : i \in 1..k \/ \E j \in 1..l : i = k + j)
  BY DEF MergedOf
<1>2. PICK n, v, w, hits : /\ n = k + l /\ v = AfterFailure(e, CallSet(m)) /\ w = AfterFailure(e, CallSet(a))
                           /\ hits = {i \in 1..k : a.calls[i].event = e.id}
  OBVIOUS
<1>3. hits \in SUBSET (1..k) /\ \A i \in 1..k : i \in hits <=> a.calls[i].event = e.id
  BY <1>2
<1>4. hits \in SUBSET (1..n) /\ \A i \in 1..n : i \in hits <=> m.calls[i].event = e.id
  <2>1. \A i \in 1..k : m.calls[i].event = a.calls[i].event
    BY <1>1 DEF SameCall
  <2>2. \A j \in 1..l : m.calls[k + j].event # e.id /\ k + j \notin 1..k
    BY <1>1 DEF SameCall
  <2> QED
    BY <1>1, <1>2, <1>3, <2>1, <2>2
<1>5. CASE hits = {}
  <2>1. w = "fallback"
    BY <1>2, <1>3, <1>5, AfterFailureIs
  <2>2. v = "fallback"
    BY <1>1, <1>2, <1>4, <1>5, AfterFailureIs
  <2> QED
    BY <1>2, <2>1, <2>2
<1>6. CASE hits # {}
  <2>1. PICK h \in hits : \A i \in hits : i <= h
    BY <1>1, <1>3, <1>6, GreatestOf
  <2>2. w = After(a, k, h)
    BY <1>2, <1>3, <2>1, AfterFailureIs
  <2>3. Listed(m, n)
    BY <1>1, <1>2
  <2>4. v = After(m, n, h)
    BY <1>2, <1>4, <2>1, <2>3, AfterFailureIs
  <2>5. h \in 1..k
    BY <1>3
  <2>6. PICK S, T : /\ S = {j \in 1..k : j > h /\ StageStep(a.calls[j]) = StageStep(a.calls[h])}
                    /\ T = {j \in 1..n : j > h /\ StageStep(m.calls[j]) = StageStep(m.calls[h])}
    OBVIOUS
  <2>7. \A j \in 1..k : StageStep(m.calls[j]) = StageStep(m.calls[h]) <=> StageStep(a.calls[j]) = StageStep(a.calls[h])
    BY <1>1, <2>5, StepKeys DEF StageStep
  <2>8. \A j \in 1..l : StageStep(m.calls[k + j]) # StageStep(m.calls[h])
    BY <1>1, <2>5 DEF StageStep
  <2>9. S = T
    BY <1>1, <1>2, <2>6, <2>7, <2>8
  <2>10. m.calls[h].name = a.calls[h].name /\ \A j \in S : m.calls[j].ok = a.calls[j].ok
    BY <2>5, <2>6, StepKeys
  <2>11. /\ After(a, k, h) = IF a.calls[h].name = Unnamed \/ S = {} THEN "fallback"
                             ELSE IF \E j \in S : a.calls[j].ok THEN "retried" ELSE "unrecovered"
         /\ After(m, n, h) = IF m.calls[h].name = Unnamed \/ T = {} THEN "fallback"
                             ELSE IF \E j \in T : m.calls[j].ok THEN "retried" ELSE "unrecovered"
    BY <2>6 DEF After
  <2>12. (\E j \in S : a.calls[j].ok) <=> \E j \in T : m.calls[j].ok
    BY <2>9, <2>10
  <2> QED
    BY <1>2, <2>2, <2>4, <2>9, <2>10, <2>11, <2>12
<1> QED
  BY <1>5, <1>6

LEMMA SecondAfter ==
    ASSUME NEW a, NEW b, NEW k, NEW l, NEW m, MergedOf(m, a, b, k, l), Listed(b, l),
           NEW e, \A i \in 1..k : a.calls[i].event # e.id, \A j \in 1..l : b.calls[j].stage = 0
    PROVE  AfterFailure(e, CallSet(m)) = AfterFailure(e, CallSet(b))
<1>1. k \in Nat /\ l \in Nat /\ Listed(m, k + l)
      /\ (\A i \in 1..k : i \in 1..(k + l) /\ SameCall(m.calls[i], a.calls[i]) /\ m.calls[i].stage = 1)
      /\ (\A j \in 1..l : k + j \in 1..(k + l) /\ SameCall(m.calls[k + j], b.calls[j]) /\ m.calls[k + j].stage = 2)
      /\ (\A i \in 1..(k + l) : i \in 1..k \/ \E j \in 1..l : i = k + j)
  BY DEF MergedOf
<1>2. PICK n, v, w : n = k + l /\ v = AfterFailure(e, CallSet(m)) /\ w = AfterFailure(e, CallSet(b))
  OBVIOUS
<1>3. PICK hits, both : hits = {j \in 1..l : b.calls[j].event = e.id} /\ both = {k + j : j \in hits}
  OBVIOUS
<1>4. hits \in SUBSET (1..l) /\ \A j \in 1..l : j \in hits <=> b.calls[j].event = e.id
  BY <1>3
<1>5. both \in SUBSET (1..n) /\ \A i \in 1..n : i \in both <=> m.calls[i].event = e.id
  <2>1. \A i \in 1..k : m.calls[i].event # e.id /\ i \notin both
    BY <1>1, <1>3, <1>4 DEF SameCall
  <2>2. \A j \in 1..l : m.calls[k + j].event = b.calls[j].event /\ k + j \in 1..n
    BY <1>1, <1>2 DEF SameCall
  <2>3. \A j \in 1..l : k + j \in both <=> j \in hits
    BY <1>1, <1>3, <1>4
  <2> QED
    BY <1>1, <1>2, <1>3, <1>4, <2>1, <2>2, <2>3
<1>6. CASE hits = {}
  <2>1. both = {}
    BY <1>3, <1>6
  <2>2. w = "fallback"
    <3>1. Listed(b, l) /\ w = AfterFailure(e, CallSet(b))
      BY <1>2
    <3> QED
      BY ONLY <1>4, <1>6, <3>1, AfterFailureIs
  <2>3. Listed(m, n)
    BY <1>1, <1>2
  <2>4. v = "fallback"
    BY <1>2, <1>5, <2>1, <2>3, AfterFailureIs
  <2> QED
    BY <1>2, <2>2, <2>4
<1>7. CASE hits # {}
  <2>1. PICK h \in hits : \A i \in hits : i <= h
    BY <1>1, <1>4, <1>7, GreatestOf
  <2>2. w = After(b, l, h)
    BY <1>2, <1>4, <2>1, AfterFailureIs
  <2>3. PICK g : g = k + h
    OBVIOUS
  <2>4. g \in both /\ \A i \in both : i <= g
    BY <1>1, <1>3, <1>4, <2>1, <2>3
  <2>5. Listed(m, n)
    BY <1>1, <1>2
  <2>6. v = After(m, n, g)
    BY <1>2, <1>5, <2>4, <2>5, AfterFailureIs
  <2>7. h \in 1..l
    BY <1>4
  <2>8. PICK S, T : /\ S = {j \in 1..l : j > h /\ StageStep(b.calls[j]) = StageStep(b.calls[h])}
                    /\ T = {j \in 1..n : j > g /\ StageStep(m.calls[j]) = StageStep(m.calls[g])}
    OBVIOUS
  <2>9. \A j \in 1..l : StageStep(m.calls[k + j]) = StageStep(m.calls[g]) <=> StageStep(b.calls[j]) = StageStep(b.calls[h])
    BY <1>1, <2>3, <2>7, StepKeys DEF StageStep
  <2>10. \A j \in 1..l : k + j \in T <=> j \in S
    <3>1. \A j \in 1..l : k + j \in 1..n /\ (k + j > g <=> j > h)
      BY <1>1, <1>2, <2>3, <2>7
    <3> QED
      BY <2>8, <2>9, <3>1
  <2>11. \A i \in T : \E j \in 1..l : i = k + j
    <3>1. \A i \in 1..k : ~(i > g)
      BY <1>1, <2>3, <2>7
    <3> QED
      BY <1>1, <1>2, <2>8, <3>1
  <2>12. S = {} <=> T = {}
    BY <2>8, <2>10, <2>11
  <2>13. \A j \in 1..l : m.calls[k + j].name = b.calls[j].name /\ m.calls[k + j].ok = b.calls[j].ok
    BY StepKeys
  <2>14. (\E j \in S : b.calls[j].ok) <=> \E j \in T : m.calls[j].ok
    BY <2>8, <2>10, <2>11, <2>13
  <2>15. /\ After(b, l, h) = IF b.calls[h].name = Unnamed \/ S = {} THEN "fallback"
                             ELSE IF \E j \in S : b.calls[j].ok THEN "retried" ELSE "unrecovered"
         /\ After(m, n, g) = IF m.calls[g].name = Unnamed \/ T = {} THEN "fallback"
                             ELSE IF \E j \in T : m.calls[j].ok THEN "retried" ELSE "unrecovered"
    BY <2>8 DEF After
  <2>16. m.calls[g].name = b.calls[h].name
    BY <2>3, <2>7, <2>13
  <2> QED
    BY <1>2, <2>2, <2>6, <2>12, <2>14, <2>15, <2>16
<1> QED
  BY <1>6, <1>7

Unescaped(event, fate) ==
    CASE event.outcome = "degraded" -> IF event.fidelity = NoValue THEN "unverified" ELSE "judged"
      [] event.outcome # "degraded" /\ event.outcome = "errored" -> fate
      [] OTHER -> "tolerated"

LEMMA VerdictSplit ==
    ASSUME NEW r, NEW e, NEW x, x = EscapedEventId(r), NEW v, v = EventVerdict(r, e)
    PROVE  (e.id = x => v = "escaped") /\ (e.id # x => v = Unescaped(e, AfterFailure(e, CallSet(r))))
BY DEF EventVerdict, Unescaped

\* The reports of two steps and their merged report.
Stages(m, a, b) ==
    StageReport(a) /\ StageReport(b) /\ Ids(a) \intersect Ids(b) = {} /\ m = Merged(a, b)

LEMMA StagesForm ==
    ASSUME NEW m, NEW a, NEW b, Stages(m, a, b), NEW p, NEW q, p = Len(a.events), q = Len(b.events)
    PROVE  /\ p \in Nat /\ q \in Nat /\ DOMAIN a.events = 1..p /\ DOMAIN b.events = 1..q
           /\ Appended(a.events, p, b.events, q, m.events)
           /\ \A i \in 1..p : a.events[i].id \in Ids(a) /\ a.events[i].id \notin Ids(b) /\ a.events[i].id # 0
           /\ \A j \in 1..q : b.events[j].id \in Ids(b) /\ b.events[j].id \notin Ids(a) /\ b.events[j].id # 0
<1>1. StageReport(a) /\ StageReport(b) /\ Ids(a) \intersect Ids(b) = {} /\ m = Merged(a, b)
  BY DEF Stages
<1>2. p \in Nat /\ DOMAIN a.events = 1..p /\ a.events = [i \in 1..p |-> a.events[i]] /\ 0 \notin Ids(a)
      /\ \A i \in 1..p : a.events[i].id \in Ids(a)
  BY <1>1, StageForm
<1>3. q \in Nat /\ DOMAIN b.events = 1..q /\ b.events = [i \in 1..q |-> b.events[i]] /\ 0 \notin Ids(b)
      /\ \A i \in 1..q : b.events[i].id \in Ids(b)
  BY <1>1, StageForm
<1>4. PICK s, t, u : s = a.events /\ t = b.events /\ u = s \o t
  OBVIOUS
<1>5. s = [i \in 1..p |-> s[i]] /\ t = [i \in 1..q |-> t[i]]
  BY <1>2, <1>3, <1>4
<1>6. Appended(s, p, t, q, u)
  BY <1>2, <1>3, <1>4, <1>5, ConcatIs
<1>7. m.events = u
  BY <1>1, <1>4 DEF Merged
<1>8. Appended(a.events, p, b.events, q, m.events)
  BY <1>4, <1>6, <1>7
<1> QED
  BY <1>1, <1>2, <1>3, <1>8

\* The verdict on an event, in the report of its step and in the merged one.
LEMMA VerdictKept ==
    ASSUME NEW m, NEW a, NEW b, Stages(m, a, b)
    PROVE  /\ \A e : e.id \in Ids(a) /\ e.id # EscapedEventId(m) /\ e.id # EscapedEventId(a) =>
                        EventVerdict(m, e) = EventVerdict(a, e)
           /\ \A e : e.id \in Ids(b) /\ e.id # EscapedEventId(m) /\ e.id # EscapedEventId(b) =>
                        EventVerdict(m, e) = EventVerdict(b, e)
<1>1. StageReport(a) /\ StageReport(b) /\ Ids(a) \intersect Ids(b) = {} /\ m = Merged(a, b)
  BY DEF Stages
<1>2. PICK k, l : k = Len(a.calls) /\ l = Len(b.calls)
  OBVIOUS
<1>3. Listed(a, k) /\ 0 \notin Ids(a) /\ \A i \in 1..k : a.calls[i].stage = 0 /\ a.calls[i].event \in {0} \union Ids(a)
  BY <1>1, <1>2, StageForm
<1>4. Listed(b, l) /\ 0 \notin Ids(b) /\ \A j \in 1..l : b.calls[j].stage = 0 /\ b.calls[j].event \in {0} \union Ids(b)
  BY <1>1, <1>2, StageForm
<1>5. MergedOf(m, a, b, k, l)
  BY <1>1, <1>3, <1>4, MergedCalls
<1>6. ASSUME NEW e, e.id \in Ids(a), e.id # EscapedEventId(m), e.id # EscapedEventId(a)
      PROVE  EventVerdict(m, e) = EventVerdict(a, e)
  <2>1. (\A j \in 1..l : b.calls[j].event # e.id) /\ \A i \in 1..k : a.calls[i].stage = 0
    BY <1>1, <1>3, <1>4, <1>6
  <2>2. AfterFailure(e, CallSet(m)) = AfterFailure(e, CallSet(a))
    BY <1>3, <1>5, <2>1, FirstAfter
  <2>3. /\ EventVerdict(m, e) = Unescaped(e, AfterFailure(e, CallSet(m)))
        /\ EventVerdict(a, e) = Unescaped(e, AfterFailure(e, CallSet(a)))
    BY <1>6, VerdictSplit
  <2> QED
    BY <2>2, <2>3
<1>7. ASSUME NEW e, e.id \in Ids(b), e.id # EscapedEventId(m), e.id # EscapedEventId(b)
      PROVE  EventVerdict(m, e) = EventVerdict(b, e)
  <2>1. (\A i \in 1..k : a.calls[i].event # e.id) /\ \A j \in 1..l : b.calls[j].stage = 0
    BY <1>1, <1>3, <1>4, <1>7
  <2>2. AfterFailure(e, CallSet(m)) = AfterFailure(e, CallSet(b))
    BY <1>4, <1>5, <2>1, SecondAfter
  <2>3. /\ EventVerdict(m, e) = Unescaped(e, AfterFailure(e, CallSet(m)))
        /\ EventVerdict(b, e) = Unescaped(e, AfterFailure(e, CallSet(b)))
    BY <1>7, VerdictSplit
  <2> QED
    BY <2>2, <2>3
<1> QED
  BY <1>6, <1>7

\* A verdict that only the merged report has is about an error that escaped.
LEMMA OnlyEscapes ==
    ASSUME NEW m, NEW a, NEW b, Stages(m, a, b), NEW own, own = VerdictsOn(a) \union VerdictsOn(b),
           NEW v \in VerdictsOn(m) \ own
    PROVE  v[2] = "escaped" \/ <<v[1], "escaped">> \in own
<1>1. PICK p, q : p = Len(a.events) /\ q = Len(b.events)
  OBVIOUS
<1>2. /\ p \in Nat /\ q \in Nat /\ DOMAIN a.events = 1..p /\ DOMAIN b.events = 1..q
      /\ Appended(a.events, p, b.events, q, m.events)
      /\ (\A i \in 1..p : a.events[i].id \in Ids(a))
      /\ (\A j \in 1..q : b.events[j].id \in Ids(b))
  BY <1>1, StagesForm
<1>3. PICK i \in 1..(p + q) : v = <<m.events[i].id, EventVerdict(m, m.events[i])>>
  BY <1>2 DEF VerdictsOn, Appended
<1>4. PICK e : e = m.events[i]
  OBVIOUS
<1>5. v = <<e.id, EventVerdict(m, e)>>
  BY <1>3, <1>4
<1>6. v[1] = e.id /\ v[2] = EventVerdict(m, e)
  BY <1>5
<1>7. CASE e.id = EscapedEventId(m)
  BY <1>6, <1>7, VerdictSplit
<1>8. CASE e.id # EscapedEventId(m) /\ i \in 1..p
  <2>1. e = a.events[i] /\ e.id \in Ids(a)
    BY <1>2, <1>4, <1>8 DEF Appended
  <2>2. <<e.id, EventVerdict(a, e)>> \in own
    BY <1>2, <1>8, <2>1 DEF VerdictsOn
  <2>3. CASE e.id = EscapedEventId(a)
    <3>1. EventVerdict(a, e) = "escaped"
      BY <2>3, VerdictSplit
    <3> QED
      BY <1>6, <2>2, <3>1
  <2>4. CASE e.id # EscapedEventId(a)
    <3>1. EventVerdict(m, e) = EventVerdict(a, e)
      BY <1>8, <2>1, <2>4, VerdictKept
    <3> QED
      BY <1>5, <2>2, <3>1
  <2> QED
    BY <2>3, <2>4
<1>9. CASE e.id # EscapedEventId(m) /\ i \notin 1..p
  <2>1. PICK j \in 1..q : i = p + j
    BY <1>2, <1>9 DEF Appended
  <2>2. e = b.events[j] /\ e.id \in Ids(b)
    BY <1>2, <1>4, <2>1 DEF Appended
  <2>3. <<e.id, EventVerdict(b, e)>> \in own
    BY <1>2, <2>2 DEF VerdictsOn
  <2>4. CASE e.id = EscapedEventId(b)
    <3>1. EventVerdict(b, e) = "escaped"
      BY <2>4, VerdictSplit
    <3> QED
      BY <1>6, <2>3, <3>1
  <2>5. CASE e.id # EscapedEventId(b)
    <3>1. EventVerdict(m, e) = EventVerdict(b, e)
      BY <1>9, <2>2, <2>5, VerdictKept
    <3> QED
      BY <1>5, <2>3, <3>1
  <2> QED
    BY <2>4, <2>5
<1> QED
  BY <1>7, <1>8, <1>9

\* Both reports trace the error to the same event.
SameEscape(m, a, b) ==
    /\ \A id \in Ids(a) : id = EscapedEventId(m) <=> id = EscapedEventId(a)
    /\ \A id \in Ids(b) : id = EscapedEventId(m) <=> id = EscapedEventId(b)

LEMMA VerdictsEqual ==
    ASSUME NEW m, NEW a, NEW b, Stages(m, a, b), SameEscape(m, a, b)
    PROVE  VerdictsOn(m) = VerdictsOn(a) \union VerdictsOn(b)
<1>1. PICK p, q : p = Len(a.events) /\ q = Len(b.events)
  OBVIOUS
<1>2. /\ p \in Nat /\ q \in Nat /\ DOMAIN a.events = 1..p /\ DOMAIN b.events = 1..q
      /\ Appended(a.events, p, b.events, q, m.events)
      /\ (\A i \in 1..p : a.events[i].id \in Ids(a))
      /\ (\A j \in 1..q : b.events[j].id \in Ids(b))
  BY <1>1, StagesForm
<1>3. ASSUME NEW e, e.id \in Ids(a) PROVE EventVerdict(m, e) = EventVerdict(a, e)
  <2>1. e.id = EscapedEventId(m) <=> e.id = EscapedEventId(a)
    BY <1>3 DEF SameEscape
  <2>2. CASE e.id = EscapedEventId(m)
    <3>1. EventVerdict(m, e) = "escaped" /\ EventVerdict(a, e) = "escaped"
      BY <2>1, <2>2, VerdictSplit
    <3> QED
      BY <3>1
  <2> QED
    BY <1>3, <2>1, <2>2, VerdictKept
<1>4. ASSUME NEW e, e.id \in Ids(b) PROVE EventVerdict(m, e) = EventVerdict(b, e)
  <2>1. e.id = EscapedEventId(m) <=> e.id = EscapedEventId(b)
    BY <1>4 DEF SameEscape
  <2>2. CASE e.id = EscapedEventId(m)
    <3>1. EventVerdict(m, e) = "escaped" /\ EventVerdict(b, e) = "escaped"
      BY <2>1, <2>2, VerdictSplit
    <3> QED
      BY <3>1
  <2> QED
    BY <1>4, <2>1, <2>2, VerdictKept
<1>5. PICK A, B, M : A = VerdictsOn(a) /\ B = VerdictsOn(b) /\ M = VerdictsOn(m)
  OBVIOUS
<1>6. /\ A = {<<a.events[i].id, EventVerdict(a, a.events[i])>> : i \in 1..p}
      /\ B = {<<b.events[i].id, EventVerdict(b, b.events[i])>> : i \in 1..q}
      /\ M = {<<m.events[i].id, EventVerdict(m, m.events[i])>> : i \in 1..(p + q)}
  BY <1>2, <1>5 DEF VerdictsOn, Appended
<1>7. \A i \in 1..p : /\ i \in 1..(p + q) /\ m.events[i] = a.events[i]
                      /\ EventVerdict(m, a.events[i]) = EventVerdict(a, a.events[i])
  BY <1>2, <1>3 DEF Appended
<1>8. \A j \in 1..q : /\ p + j \in 1..(p + q) /\ m.events[p + j] = b.events[j]
                      /\ EventVerdict(m, b.events[j]) = EventVerdict(b, b.events[j])
  BY <1>2, <1>4 DEF Appended
<1>9. \A i \in 1..(p + q) : i \in 1..p \/ \E j \in 1..q : i = p + j
  BY <1>2 DEF Appended
<1>10. \A v \in A : v \in M
  <2> TAKE v \in A
  <2>1. PICK i \in 1..p : v = <<a.events[i].id, EventVerdict(a, a.events[i])>>
    BY <1>6
  <2>2. i \in 1..(p + q) /\ v = <<m.events[i].id, EventVerdict(m, m.events[i])>>
    BY <1>7, <2>1
  <2> QED
    BY <1>6, <2>2
<1>11. \A v \in B : v \in M
  <2> TAKE v \in B
  <2>1. PICK j \in 1..q : v = <<b.events[j].id, EventVerdict(b, b.events[j])>>
    BY <1>6
  <2>2. p + j \in 1..(p + q) /\ v = <<m.events[p + j].id, EventVerdict(m, m.events[p + j])>>
    BY <1>8, <2>1
  <2> QED
    BY <1>6, <2>2
<1>12. \A v \in M : v \in A \union B
  <2> TAKE v \in M
  <2>1. PICK i \in 1..(p + q) : v = <<m.events[i].id, EventVerdict(m, m.events[i])>>
    BY <1>6
  <2>2. CASE i \in 1..p
    BY <1>6, <1>7, <2>1, <2>2
  <2>3. CASE i \notin 1..p
    <3>1. PICK j \in 1..q : i = p + j
      BY <1>9, <2>3
    <3>2. v = <<b.events[j].id, EventVerdict(b, b.events[j])>>
      BY <1>8, <2>1, <3>1
    <3> QED
      BY <1>6, <3>2
  <2> QED
    BY <2>2, <2>3
<1> QED
  BY <1>5, <1>10, <1>11, <1>12

LEMMA SomeBlamed ==
    ASSUME NEW events, NEW n \in Nat, ~Blameless(events, n) PROVE \E l \in 1..n : LastBlamed(events, n, l)
<1>1. PICK T : T = {i \in 1..n : events[i].outcome # "degraded"}
  OBVIOUS
<1>2. T \subseteq 1..n /\ T # {}
  BY <1>1 DEF Blameless
<1>3. PICK l \in T : \A i \in T : i <= l
  BY <1>2, GreatestOf
<1> QED
  BY <1>1, <1>3 DEF LastBlamed

LEMMA EscapedOwn ==
    ASSUME NEW r, StageReport(r) PROVE EscapedEventId(r) \in {0} \union Ids(r)
<1>1. PICK x, p : x = EscapedEventId(r) /\ p = Len(r.events)
  OBVIOUS
<1>2. /\ p \in Nat /\ DOMAIN r.events = 1..p /\ (\A i \in 1..p : r.events[i].id \in Ids(r))
      /\ r.carries \in {0} \union Ids(r) /\ r.raised \in BOOLEAN
  BY <1>1, StageForm
<1>3. CASE ~r.raised \/ r.carries # 0 \/ Blameless(r.events, p)
  <2>1. x = 0 \/ x = r.carries
    BY <1>1, <1>2, <1>3, EscapedIs
  <2> QED
    BY <1>1, <1>2, <2>1
<1>4. CASE r.raised /\ r.carries = 0 /\ ~Blameless(r.events, p)
  <2>1. PICK l \in 1..p : LastBlamed(r.events, p, l)
    BY <1>2, <1>4, SomeBlamed
  <2>2. x = r.events[l].id
    BY <1>1, <1>2, <1>4, <2>1, EscapedIs
  <2> QED
    BY <1>1, <1>2, <2>2
<1> QED
  BY <1>2, <1>3, <1>4

Traced(a, b) ==
    /\ ~(a.raised /\ b.raised)
    /\ a.raised /\ a.carries = 0 => \A i \in DOMAIN b.events : b.events[i].outcome = "degraded"
    /\ b.raised /\ b.carries = 0 => \E i \in DOMAIN b.events : b.events[i].outcome # "degraded"

LEMMA TracedEscape ==
    ASSUME NEW m, NEW a, NEW b, Stages(m, a, b), Traced(a, b)
    PROVE  SameEscape(m, a, b)
<1>1. StageReport(a) /\ StageReport(b) /\ Ids(a) \intersect Ids(b) = {} /\ m = Merged(a, b)
  BY DEF Stages
<1>2. PICK p, q, n, x, y, z : /\ p = Len(a.events) /\ q = Len(b.events) /\ n = p + q
                              /\ x = EscapedEventId(a) /\ y = EscapedEventId(b) /\ z = EscapedEventId(m)
  OBVIOUS
<1>3. /\ p \in Nat /\ q \in Nat /\ DOMAIN a.events = 1..p /\ DOMAIN b.events = 1..q
      /\ Appended(a.events, p, b.events, q, m.events)
  BY <1>2, StagesForm
<1>4. /\ n \in Nat /\ DOMAIN m.events = 1..n
      /\ \A i \in 1..p : i \in 1..n /\ m.events[i] = a.events[i]
      /\ \A j \in 1..q : p + j \in 1..n /\ m.events[p + j] = b.events[j]
      /\ \A i \in 1..n : i \in 1..p \/ \E j \in 1..q : i = p + j
  <2>1. n = p + q /\ p \in Nat /\ q \in Nat
    BY <1>2, <1>3
  <2>2. /\ DOMAIN m.events = 1..(p + q)
        /\ (\A i \in 1..p : i \in 1..(p + q) /\ m.events[i] = a.events[i])
        /\ (\A j \in 1..q : p + j \in 1..(p + q) /\ m.events[p + j] = b.events[j])
        /\ (\A i \in 1..(p + q) : i \in 1..p \/ \E j \in 1..q : i = p + j)
    BY <1>3 DEF Appended
  <2>3. n \in Nat
    BY <2>1
  <2> QED
    BY ONLY <2>1, <2>2, <2>3
<1>e. n \in Nat /\ DOMAIN m.events = 1..n /\ z = EscapedEventId(m)
  BY <1>2, <1>4
<1>f. p \in Nat /\ DOMAIN a.events = 1..p /\ x = EscapedEventId(a)
  BY <1>2, <1>3
<1>g. q \in Nat /\ DOMAIN b.events = 1..q /\ y = EscapedEventId(b)
  BY <1>2, <1>3
<1>5. x \in {0} \union Ids(a) /\ y \in {0} \union Ids(b) /\ 0 \notin Ids(a) /\ 0 \notin Ids(b)
      /\ a.raised \in BOOLEAN /\ b.raised \in BOOLEAN
  BY <1>1, <1>2, EscapedOwn, StageForm
<1>6. /\ a.raised => m.raised = a.raised /\ m.carries = a.carries
      /\ ~a.raised => m.raised = b.raised /\ m.carries = b.carries
  BY <1>1 DEF Merged
<1>7. ASSUME z = x, y = 0 PROVE SameEscape(m, a, b)
  BY <1>1, <1>2, <1>5, <1>7 DEF SameEscape
<1>8. ASSUME z = y, x = 0 PROVE SameEscape(m, a, b)
  BY <1>1, <1>2, <1>5, <1>8 DEF SameEscape
<1>9. (~a.raised => x = 0) /\ (~b.raised => y = 0) /\ (~m.raised => z = 0)
  <2>1. ~a.raised => x = 0
    BY ONLY <1>f, EscapedIs
  <2>2. ~b.raised => y = 0
    BY ONLY <1>g, EscapedIs
  <2>3. ~m.raised => z = 0
    BY ONLY <1>e, EscapedIs
  <2> QED
    BY <2>1, <2>2, <2>3
<1>10. CASE ~a.raised /\ ~b.raised
  BY <1>6, <1>7, <1>9, <1>10
<1>11. CASE a.raised
  <2>1. ~b.raised /\ m.raised /\ m.carries = a.carries /\ y = 0
    BY <1>6, <1>9, <1>11 DEF Traced
  <2>2. CASE a.carries # 0
    <3>1. x = a.carries /\ z = m.carries
      <4>1. x = a.carries
        BY ONLY <1>f, <1>11, <2>2, EscapedIs
      <4>2. m.raised /\ m.carries # 0
        BY <2>1, <2>2
      <4>3. z = m.carries
        BY ONLY <1>e, <4>2, EscapedIs
      <4> QED
        BY <4>1, <4>3
    <3> QED
      BY <1>7, <2>1, <3>1
  <2>3. CASE a.carries = 0 /\ Blameless(a.events, p)
    <3>1. \A j \in 1..q : b.events[j].outcome = "degraded"
      BY <1>3, <1>11, <2>3 DEF Traced
    <3>2. Blameless(m.events, n)
      BY <1>4, <2>3, <3>1 DEF Blameless
    <3>3. x = 0
      BY <1>2, <1>3, <1>11, <2>3, EscapedIs
    <3>4. z = 0
      <4>1. m.raised /\ m.carries = 0
        BY <2>1, <2>3
      <4> QED
        BY ONLY <1>e, <3>2, <4>1, EscapedIs
    <3> QED
      BY <1>7, <2>1, <3>3, <3>4
  <2>4. CASE a.carries = 0 /\ ~Blameless(a.events, p)
    <3>1. \A j \in 1..q : b.events[j].outcome = "degraded"
      BY <1>3, <1>11, <2>4 DEF Traced
    <3>2. PICK g \in 1..p : LastBlamed(a.events, p, g)
      BY <1>3, <2>4, SomeBlamed
    <3>3. LastBlamed(m.events, n, g)
      <4>1. \A i \in 1..p : a.events[i].outcome # "degraded" => i <= g
        BY <3>2 DEF LastBlamed
      <4>2. a.events[g].outcome # "degraded"
        BY <3>2 DEF LastBlamed
      <4> QED
        BY <1>4, <3>1, <4>1, <4>2 DEF LastBlamed
    <3>4. x = a.events[g].id
      BY <1>2, <1>3, <1>11, <2>4, <3>2, EscapedIs
    <3>5. z = m.events[g].id
      <4>1. m.raised /\ m.carries = 0
        BY <2>1, <2>4
      <4> QED
        BY ONLY <1>e, <3>3, <4>1, EscapedIs
    <3> QED
      BY <1>4, <1>7, <2>1, <3>4, <3>5
  <2> QED
    BY <2>2, <2>3, <2>4
<1>12. CASE ~a.raised /\ b.raised
  <2>1. m.raised /\ m.carries = b.carries /\ x = 0
    BY <1>6, <1>9, <1>12
  <2>2. CASE b.carries # 0
    <3>1. y = b.carries /\ z = m.carries
      <4>1. y = b.carries
        BY ONLY <1>g, <1>12, <2>2, EscapedIs
      <4>2. m.raised /\ m.carries # 0
        BY <2>1, <2>2
      <4>3. z = m.carries
        BY ONLY <1>e, <4>2, EscapedIs
      <4> QED
        BY <4>1, <4>3
    <3> QED
      BY <1>8, <2>1, <3>1
  <2>3. CASE b.carries = 0
    <3>1. ~Blameless(b.events, q)
      BY <1>3, <1>12, <2>3 DEF Traced, Blameless
    <3>2. PICK g \in 1..q : LastBlamed(b.events, q, g)
      BY <1>3, <3>1, SomeBlamed
    <3>3. PICK h : h = p + g
      OBVIOUS
    <3>4. LastBlamed(m.events, n, h)
      <4>1. \A j \in 1..q : b.events[j].outcome # "degraded" => p + j <= h
        BY <1>3, <3>2, <3>3 DEF LastBlamed
      <4>2. h \in 1..n /\ m.events[h].outcome # "degraded"
        BY <1>4, <3>2, <3>3 DEF LastBlamed
      <4>3. \A i \in 1..p : i <= h
        BY <1>3, <3>3
      <4> QED
        BY <1>4, <4>1, <4>2, <4>3 DEF LastBlamed
    <3>5. y = b.events[g].id
      BY <1>2, <1>3, <1>12, <2>3, <3>2, EscapedIs
    <3>6. z = m.events[h].id
      <4>1. m.raised /\ m.carries = 0
        BY <2>1, <2>3
      <4> QED
        BY ONLY <1>e, <3>4, <4>1, EscapedIs
    <3> QED
      BY <1>4, <1>8, <2>1, <3>3, <3>5, <3>6
  <2> QED
    BY <2>2, <2>3
<1> QED
  BY <1>5, <1>10, <1>11, <1>12

-----------------------------------------------------------------------------
(* The verdicts agree.                                                     *)

\* What was asked, and what the code answered.
VerdictsInv ==
    /\ job.tool = "contract" =>
          /\ job.log \in LoggedRuns /\ job.kept \in SUBSET (DOMAIN job.log)
          /\ job.question \in Questions /\ job.raised \in BOOLEAN
          /\ run.pc = "answered" =>
                /\ run.status = Check(job.question, Cut, NoValue)
                /\ run.verdicts = {EventVerdict(Cut, Cut.events[i]) : i \in DOMAIN Cut.events}
    /\ job.tool = "merge" =>
          /\ <<job.first, job.second>> \in {<<s[1], s[2]>> : s \in StageRuns}
          /\ run.pc = "answered" =>
                /\ run.verdicts = VerdictsOn(Merged(job.first, job.second))
                /\ run.retries = Cardinality(FindRetries(Merged(job.first, job.second)))

LEMMA ContractsConcur == ASSUME VerdictsInv PROVE ContractsAgree
<1> SUFFICES ASSUME Answered("contract") PROVE ContractsAgree
  BY DEF ContractsAgree
<1>1. PICK log, kept, q, raised, n : /\ log = job.log /\ kept = job.kept /\ q = job.question /\ raised = job.raised
                                     /\ n = Len(log)
  OBVIOUS
<1>2. /\ log \in LoggedRuns /\ kept \in SUBSET (DOMAIN log) /\ q \in Questions /\ raised \in BOOLEAN
      /\ run.status = Check(q, Cut, NoValue)
      /\ run.verdicts = {EventVerdict(Cut, Cut.events[i]) : i \in DOMAIN Cut.events}
  BY <1>1 DEF VerdictsInv, Answered
<1>3. IsLog(log) /\ q.kind \in ContractKinds /\ (q.kind = "recovered_after_failure" => q.stepSuccess \in BOOLEAN)
  BY <1>2, EvidenceAssumption DEF EvidenceAssumption, IsLog
<1>4. Cut = Reported(log, kept, raised)
  BY <1>1 DEF Cut
<1>5. DOMAIN log = 1..n
  BY <1>1, <1>3 DEF IsLog, IsList
<1>6. PICK cut, whole : cut = Check(q, Reported(log, kept, raised), NoValue) /\ whole = Check(q, Whole(log, raised), NoValue)
  OBVIOUS
<1>7. run.status = cut
  BY <1>2, <1>4, <1>6
<1>8. \/ cut \in {"inconclusive", whole}
      \/ /\ q.kind = "recovered_after_failure" /\ q.stepSuccess /\ cut = "passed"
         /\ \E i \in DOMAIN log \ kept : Hit(log[i])
  <2>1. \/ cut \in {"inconclusive", whole}
        \/ q.kind = "recovered_after_failure" /\ q.stepSuccess /\ cut = "passed" /\ kept # DOMAIN log
    BY <1>2, <1>3, <1>6, CutHonest
  <2>2. ASSUME q.kind = "recovered_after_failure", q.stepSuccess, cut = "passed",
               \A i \in DOMAIN log \ kept : ~Hit(log[i])
        PROVE  whole = "passed"
    BY <1>2, <1>3, <1>6, <2>2, StrictOnCut
  <2> QED
    BY <2>1, <2>2
<1>9. ASSUME q.kind = "recovered_after_failure", q.stepSuccess, kept = DOMAIN log,
             \A i, k \in DOMAIN log : log[i].name = log[k].name => log[i].kind = log[k].kind
      PROVE  /\ cut = "passed" => run.verdicts \intersect {"escaped", "unrecovered"} = {}
             /\ cut = "failed" => run.verdicts \intersect {"escaped", "unrecovered", "fallback"} # {}
  <2>1. PICK w, verdicts : w = Whole(log, raised) /\ verdicts = VerdictSet(w)
    OBVIOUS
  <2>2. Cut = w
    BY <1>4, <1>9, <2>1 DEF Whole
  <2>3. run.verdicts = verdicts
    BY <1>2, <2>1, <2>2 DEF VerdictSet
  <2>4. q.stepSuccess = TRUE
    BY <1>3, <1>9
  <2>5. cut = RecoveredAfterFailure(w, TRUE)
    BY <1>4, <1>6, <1>9, <2>2, <2>4 DEF Check
  <2>6. OneKind(log)
    BY <1>1, <1>5, <1>9 DEF OneKind
  <2>7. Concurs(log, cut, verdicts)
    BY <1>1, <1>2, <1>3, <2>1, <2>5, <2>6, ScoreConcurs
  <2> QED
    BY <2>3, <2>6, <2>7 DEF Concurs
<1> QED
  BY <1>1, <1>6, <1>7, <1>8, <1>9 DEF ContractsAgree

LEMMA MergeConcurs == ASSUME VerdictsInv PROVE MergeAgrees
<1> SUFFICES ASSUME Answered("merge") PROVE MergeAgrees
  BY DEF MergeAgrees
<1>1. PICK a, b, m, k, l : /\ a = job.first /\ b = job.second /\ m = Merged(a, b)
                           /\ k = Len(a.calls) /\ l = Len(b.calls)
  OBVIOUS
<1>2. /\ <<a, b>> \in {<<s[1], s[2]>> : s \in StageRuns}
      /\ run.verdicts = VerdictsOn(m) /\ run.retries = Cardinality(FindRetries(m))
  BY <1>1 DEF VerdictsInv, Answered
<1>3. PICK s \in StageRuns : <<a, b>> = <<s[1], s[2]>>
  BY <1>2
<1>4. Stages(m, a, b)
  BY <1>1, <1>3, EvidenceAssumption DEF EvidenceAssumption, Stages
<1>5. Listed(a, k) /\ Listed(b, l)
  BY <1>1, <1>4, StageForm DEF Stages
<1>6. MergedOf(m, a, b, k, l)
  BY <1>1, <1>5, MergedCalls
<1>7. PICK own, x, y, z : /\ own = VerdictsOn(a) \union VerdictsOn(b)
                          /\ x = Cardinality(FindRetries(a)) /\ y = Cardinality(FindRetries(b))
                          /\ z = Cardinality(FindRetries(m))
  OBVIOUS
<1>8. Traced(a, b) => run.verdicts = own
  BY <1>2, <1>4, <1>7, TracedEscape, VerdictsEqual
<1>9. \A v \in run.verdicts \ own : v[2] = "escaped" \/ <<v[1], "escaped">> \in own
  BY <1>2, <1>4, <1>7, OnlyEscapes
<1>10. z >= x + y /\ ((\A i \in 1..k, j \in 1..l : a.calls[i].name # b.calls[j].name) => z = x + y)
  BY <1>5, <1>6, <1>7, RetriesMerged
<1>11. DOMAIN a.calls = 1..k /\ DOMAIN b.calls = 1..l
  BY <1>5 DEF Listed
<1>12. ASSUME {a.calls[i].name : i \in DOMAIN a.calls} \intersect {b.calls[i].name : i \in DOMAIN b.calls} = {}
       PROVE  \A i \in 1..k, j \in 1..l : a.calls[i].name # b.calls[j].name
  BY <1>11, <1>12
<1>13. run.retries = z
  BY <1>2, <1>7
<1>14. /\ Traced(a, b) => run.verdicts = own
       /\ \A v \in run.verdicts \ own : v[2] = "escaped" \/ <<v[1], "escaped">> \in own
       /\ run.retries >= x + y
       /\ {a.calls[i].name : i \in DOMAIN a.calls} \intersect {b.calls[i].name : i \in DOMAIN b.calls} = {} =>
             run.retries = x + y
  BY <1>8, <1>9, <1>10, <1>12, <1>13
<1>15. /\ Traced(job.first, job.second) => run.verdicts = VerdictsOn(job.first) \union VerdictsOn(job.second)
       /\ \A v \in run.verdicts \ (VerdictsOn(job.first) \union VerdictsOn(job.second)) :
             v[2] = "escaped" \/ <<v[1], "escaped">> \in VerdictsOn(job.first) \union VerdictsOn(job.second)
       /\ run.retries >= Cardinality(FindRetries(job.first)) + Cardinality(FindRetries(job.second))
       /\ {job.first.calls[i].name : i \in DOMAIN job.first.calls}
            \intersect {job.second.calls[i].name : i \in DOMAIN job.second.calls} = {} =>
             run.retries = Cardinality(FindRetries(job.first)) + Cardinality(FindRetries(job.second))
  <2>1. a = job.first /\ b = job.second
    BY <1>1
  <2>2. /\ own = VerdictsOn(job.first) \union VerdictsOn(job.second)
        /\ x = Cardinality(FindRetries(job.first)) /\ y = Cardinality(FindRetries(job.second))
    BY <1>7, <2>1
  <2>3. Traced(job.first, job.second) => run.verdicts = own
    BY <1>14, <2>1
  <2>4. /\ {a.calls[i].name : i \in DOMAIN a.calls} = {job.first.calls[i].name : i \in DOMAIN job.first.calls}
        /\ {b.calls[i].name : i \in DOMAIN b.calls} = {job.second.calls[i].name : i \in DOMAIN job.second.calls}
    BY <2>1
  <2>5. {job.first.calls[i].name : i \in DOMAIN job.first.calls}
          \intersect {job.second.calls[i].name : i \in DOMAIN job.second.calls} = {} => run.retries = x + y
    BY <1>14, <2>4
  <2>6. \A v \in run.verdicts \ (VerdictsOn(job.first) \union VerdictsOn(job.second)) :
           v[2] = "escaped" \/ <<v[1], "escaped">> \in VerdictsOn(job.first) \union VerdictsOn(job.second)
    BY <1>14, <2>2
  <2>7. run.retries >= Cardinality(FindRetries(job.first)) + Cardinality(FindRetries(job.second))
    BY <1>14, <2>2
  <2> QED
    BY <2>2, <2>3, <2>5, <2>6, <2>7
<1> QED
  BY <1>15 DEF MergeAgrees, Traced

\* Whatever the logs, the contracts and the stages: a truncated log and a merged
\* report are judged as the whole log and the steps are, except where VerdictsAgree
\* says, and a contract agrees with the score.
THEOREM VerdictsAgreeAlways == EvalSpec => []VerdictsAgree
<1>1. EvalInit => VerdictsInv
  <2> SUFFICES ASSUME EvalInit PROVE VerdictsInv
    OBVIOUS
  <2>1. run.pc = "asked"
    BY DEF EvalInit
  <2>2. CASE \E log \in LoggedRuns : \E kept \in SUBSET DOMAIN log, q \in Questions, raised \in BOOLEAN :
                job = [tool |-> "contract", log |-> log, kept |-> kept, question |-> q, raised |-> raised]
    BY <2>1, <2>2 DEF VerdictsInv
  <2>3. CASE \E stages \in StageRuns : job = [tool |-> "merge", first |-> stages[1], second |-> stages[2]]
    BY <2>1, <2>3 DEF VerdictsInv
  <2>4. CASE job \in [tool : {"scope"}, pair : ScopePairs] \/ job \in [tool : {"stop"}, stop : Stops]
    BY <2>4 DEF VerdictsInv
  <2> QED
    BY <2>2, <2>3, <2>4 DEF EvalInit
<1>2. VerdictsInv /\ [EvalNext]_toolVars => VerdictsInv'
  <2> SUFFICES ASSUME VerdictsInv, [EvalNext]_toolVars PROVE VerdictsInv'
    OBVIOUS
  <2>1. CASE JudgeReport
    <3>1. PICK status, verdicts : /\ status = Check(job.question, Cut, NoValue)
                                  /\ verdicts = {EventVerdict(Cut, Cut.events[i]) : i \in DOMAIN Cut.events}
      OBVIOUS
    <3>2. job' = job /\ job.tool = "contract" /\ run' = [pc |-> "answered", status |-> status, verdicts |-> verdicts]
      BY <2>1, <3>1 DEF JudgeReport, Asked
    <3>3. Cut' = Cut
      BY <3>2 DEF Cut
    <3> QED
      BY <3>1, <3>2, <3>3 DEF VerdictsInv
  <2>2. CASE ScoreMerged
    <3>1. PICK verdicts, retries : /\ verdicts = VerdictsOn(Merged(job.first, job.second))
                                   /\ retries = Cardinality(FindRetries(Merged(job.first, job.second)))
      OBVIOUS
    <3>2. job' = job /\ job.tool = "merge" /\ run' = [pc |-> "answered", verdicts |-> verdicts, retries |-> retries]
      BY <2>2, <3>1 DEF ScoreMerged, Asked
    <3> QED
      BY <3>1, <3>2 DEF VerdictsInv
  <2>3. CASE CombineScopes \/ AssertStop
    BY <2>3 DEF CombineScopes, AssertStop, Asked, VerdictsInv
  <2>4. CASE UNCHANGED toolVars
    <3>1. job' = job /\ run' = run
      BY <2>4 DEF toolVars
    <3>2. Cut' = Cut
      BY <3>1 DEF Cut
    <3> QED
      BY <3>1, <3>2 DEF VerdictsInv
  <2> QED
    BY <2>1, <2>2, <2>3, <2>4 DEF EvalNext
<1>3. VerdictsInv => VerdictsAgree
  BY ContractsConcur, MergeConcurs DEF VerdictsAgree
<1> QED
  BY <1>1, <1>2, <1>3, PTL DEF EvalSpec

-----------------------------------------------------------------------------
(* The schedule of an experiment (Cron): division with remainder first.    *)

LEMMA DivIs ==
    ASSUME NEW n \in Nat \ {0}, NEW t \in Nat
    PROVE  t \div n \in Nat /\ t % n \in 0..(n - 1) /\ t = n * (t \div n) + (t % n)
OBVIOUS

\* Quotient and remainder are the only ones.
LEMMA DivOnly ==
    ASSUME NEW n \in Nat \ {0}, NEW t \in Nat, NEW q \in Nat, NEW r \in 0..(n - 1), t = n * q + r
    PROVE  t \div n = q /\ t % n = r
<1>1. PICK p, s : p = t \div n /\ s = t % n
  OBVIOUS
<1>2. p \in Nat /\ s \in 0..(n - 1) /\ t = n * p + s
  BY <1>1, DivIs
<1>3. n * (p - q) = r - s
  BY <1>2
<1>4. p - q \in Int /\ r - s \in (1 - n)..(n - 1)
  BY <1>2
<1>5. ASSUME NEW d \in Int, d >= 1 PROVE n * d >= n
  BY <1>5
<1>6. ASSUME NEW d \in Int, d <= -1 PROVE n * d <= -n
  BY <1>6
<1>7. p - q = 0
  <2>1. CASE p - q >= 1
    BY <1>3, <1>4, <1>5, <2>1
  <2>2. CASE p - q <= -1
    BY <1>3, <1>4, <1>6, <2>2
  <2> QED
    BY <1>4, <2>1, <2>2
<1> QED
  BY <1>1, <1>2, <1>7

\* Before the next multiple the quotient does not change.
LEMMA SameQuotient ==
    ASSUME NEW n \in Nat \ {0}, NEW t \in Nat, NEW u \in Nat, t <= u, u < n * (t \div n + 1)
    PROVE  u \div n = t \div n
<1>1. PICK q \in Nat, s \in 0..(n - 1) : q = t \div n /\ s = t % n /\ t = n * q + s
  BY DivIs
<1>2. n * q \in Nat /\ n * (q + 1) = n * q + n
  BY <1>1
<1>3. PICK r : r = u - n * q
  OBVIOUS
<1>4. r \in 0..(n - 1) /\ u = n * q + r
  BY <1>1, <1>2, <1>3
<1> QED
  BY <1>1, <1>4, DivOnly

LEMMA ClockForm == HourMinutes \in Nat \ {0} /\ DayHours \in Nat \ {0} /\ DayMinutes \in Nat \ {0}
BY CalendarAssumption DEF CalendarAssumption, DayMinutes

\* The hour of the calendar says which hour of the day it is, and which day.
LEMMA HourIs ==
    ASSUME NEW t \in Nat
    PROVE  Hour(t) = (t \div HourMinutes) % DayHours /\ DayNumber(t) = (t \div HourMinutes) \div DayHours
<1>1. PICK m, k : m = HourMinutes /\ k = DayHours
  OBVIOUS
<1>2. m \in Nat \ {0} /\ k \in Nat \ {0} /\ DayMinutes = k * m /\ k * m \in Nat \ {0}
  BY <1>1, ClockForm DEF DayMinutes
<1>3. PICK q \in Nat, s \in 0..(m - 1) : q = t \div m /\ t = m * q + s
  BY <1>2, DivIs
<1>4. PICK d \in Nat, h \in 0..(k - 1) : d = q \div k /\ h = q % k /\ q = k * d + h
  BY <1>2, DivIs
<1>5. m * h \in Nat /\ m * h <= m * (k - 1)
  BY <1>2, <1>4
<1>6. m * (k - 1) = k * m - m
  BY <1>2
<1>7. m * h + s \in 0..(k * m - 1)
  BY <1>2, <1>3, <1>5, <1>6
<1>8. t = (k * m) * d + (m * h + s)
  <2>1. k * d \in Nat /\ m * (k * d + h) = m * (k * d) + m * h
    BY <1>2, <1>4
  <2>2. m * (k * d) = (k * m) * d
    BY <1>2, <1>4
  <2>3. t = (m * (k * d) + m * h) + s
    BY <1>3, <1>4, <2>1
  <2>4. m * (k * d) \in Nat /\ m * h \in Nat /\ s \in Nat
    BY <1>2, <1>4, <1>5, <2>1
  <2>5. t = m * (k * d) + (m * h + s)
    BY <2>3, <2>4
  <2> QED
    BY <2>2, <2>5
<1>9. t \div (k * m) = d /\ t % (k * m) = m * h + s
  BY <1>2, <1>7, <1>8, DivOnly
<1>10. (m * h + s) \div m = h
  BY <1>2, <1>3, <1>4, <1>7, DivOnly
<1> QED
  BY <1>1, <1>2, <1>3, <1>4, <1>9, <1>10 DEF Hour, DayNumber

LEMMA WithinHour ==
    ASSUME NEW t \in Nat
    PROVE  /\ NextHour(t) \in Nat /\ t < NextHour(t)
           /\ \A u \in t..(NextHour(t) - 1) : Hour(u) = Hour(t) /\ DayNumber(u) = DayNumber(t)
<1>1. PICK m \in Nat \ {0} : m = HourMinutes
  BY ClockForm
<1>2. PICK q \in Nat, s \in 0..(m - 1) : q = t \div m /\ t = m * q + s
  BY DivIs
<1>3. NextHour(t) = (q + 1) * m /\ (q + 1) * m = m * q + m /\ m * q \in Nat
  BY <1>1, <1>2 DEF NextHour
<1>4. ASSUME NEW u \in t..(NextHour(t) - 1) PROVE Hour(u) = Hour(t) /\ DayNumber(u) = DayNumber(t)
  <2>1. u \in Nat /\ t <= u /\ u < m * (t \div m + 1)
    BY <1>2, <1>3
  <2>2. u \div m = t \div m
    BY <2>1, SameQuotient
  <2> QED
    BY <1>1, <2>1, <2>2, HourIs
<1> QED
  BY <1>2, <1>3, <1>4

LEMMA WithinDays ==
    ASSUME NEW t \in Nat, NEW day \in Nat, DayNumber(t) < day
    PROVE  /\ StartOfDay(day) \in Nat /\ t < StartOfDay(day)
           /\ \A u \in t..(StartOfDay(day) - 1) : DayNumber(u) \in DayNumber(t)..(day - 1)
<1>1. PICK n \in Nat \ {0} : n = DayMinutes
  BY ClockForm
<1>2. PICK q \in Nat, s \in 0..(n - 1) : q = t \div n /\ t = n * q + s
  BY DivIs
<1>3. StartOfDay(day) = n * day /\ n * day \in Nat /\ DayNumber(t) = q
  BY <1>1, <1>2 DEF StartOfDay, DayNumber
<1>4. n * q + n <= n * day
  <2>1. PICK e \in Nat : day = q + 1 + e
    <3>1. day - q - 1 \in Nat /\ day = q + 1 + (day - q - 1)
      BY <1>3
    <3> QED
      BY <3>1
  <2>2. n * day = n * q + n + n * e /\ n * e \in Nat /\ n * q \in Nat
    BY <2>1
  <2> QED
    BY <2>2
<1>5. t < n * day
  BY <1>2, <1>3, <1>4
<1>6. ASSUME NEW u \in t..(n * day - 1) PROVE DayNumber(u) \in q..(day - 1)
  <2>1. u \in Nat /\ t <= u /\ u < n * day
    BY <1>3
  <2>2. PICK p \in Nat, r \in 0..(n - 1) : p = u \div n /\ u = n * p + r
    BY <2>1, DivIs
  <2>3. n * p \in Nat /\ n * q \in Nat
    BY <2>2
  <2>4. ASSUME p < q PROVE FALSE
    <3>1. PICK e \in Nat : q = p + 1 + e
      <4>1. q - p - 1 \in Nat /\ q = p + 1 + (q - p - 1)
        BY <2>4
      <4> QED
        BY <4>1
    <3>2. n * q = n * p + n + n * e /\ n * e \in Nat
      BY <3>1
    <3> QED
      BY <1>2, <2>1, <2>2, <2>3, <3>2
  <2>5. ASSUME p >= day PROVE FALSE
    <3>1. PICK e \in Nat : p = day + e
      <4>1. p - day \in Nat /\ p = day + (p - day)
        BY <2>5
      <4> QED
        BY <4>1
    <3>2. n * p = n * day + n * e /\ n * e \in Nat
      BY <3>1
    <3> QED
      BY <1>3, <2>1, <2>2, <2>3, <3>2
  <2>6. DayNumber(u) = p
    BY <1>1, <2>2 DEF DayNumber
  <2> QED
    BY <2>4, <2>5, <2>6
<1> QED
  BY <1>3, <1>5, <1>6

-----------------------------------------------------------------------------
(* Months and years.                                                       *)

LEMMA YearForm ==
    \E n \in Nat \ {0} :
        /\ Len(Months) = n /\ DOMAIN Months = 1..n /\ \A m \in 1..n : Months[m] \in Nat \ {0}
        /\ DaysBefore[1] = 0 /\ YearDays = DaysBefore[n + 1]
        /\ \A m \in 1..(n + 1) : DaysBefore[m] \in Nat
        /\ \A m \in 1..n : DaysBefore[m + 1] = DaysBefore[m] + Months[m]
<1>1. Months \in Seq(Nat \ {0}) /\ Months # <<>>
  BY CalendarAssumption DEF CalendarAssumption
<1>2. PICK n \in Nat \ {0} : Len(Months) = n /\ DOMAIN Months = 1..n /\ \A m \in 1..n : Months[m] \in Nat \ {0}
  <2>1. Len(Months) \in Nat /\ DOMAIN Months = 1..Len(Months) /\ Len(Months) # 0
    BY <1>1, EmptySeq, LenProperties
  <2>2. \A m \in 1..Len(Months) : Months[m] \in Nat \ {0}
    BY <1>1, <2>1, ElementOfSeq
  <2> QED
    BY <2>1, <2>2
<1>3. PICK v : v = [m \in 1..n |-> Months[m]]
  OBVIOUS
<1>4. v \in [1..n -> Int] /\ \A m \in 1..n : v[m] = Months[m]
  BY <1>2, <1>3
<1>5. PICK g : Sums(n, v, g)
  BY <1>4, SumsExist DEF Summed
<1>6. g[0] = 0 /\ \A k \in 1..n : g[k] = g[k - 1] + v[k]
  BY <1>5 DEF Sums
<1>7. PICK b : b = [m \in 1..(n + 1) |-> g[m - 1]]
  OBVIOUS
<1>8. b = [m \in 1..(n + 1) |-> IF m = 1 THEN 0 ELSE b[m - 1] + Months[m - 1]]
  <2>1. ASSUME NEW m \in 1..(n + 1) PROVE b[m] = IF m = 1 THEN 0 ELSE b[m - 1] + Months[m - 1]
    <3>1. b[m] = g[m - 1]
      BY <1>7
    <3>2. CASE m = 1
      BY <1>6, <3>1, <3>2
    <3>3. CASE m # 1
      <4>1. m - 1 \in 1..n /\ m - 1 \in 1..(n + 1)
        BY <3>3
      <4>2. g[m - 1] = g[(m - 1) - 1] + v[m - 1] /\ v[m - 1] = Months[m - 1]
        BY <1>4, <1>6, <4>1
      <4>3. b[m - 1] = g[(m - 1) - 1]
        BY <1>7, <4>1
      <4> QED
        BY <3>1, <3>3, <4>2, <4>3
    <3> QED
      BY <3>2, <3>3
  <2> QED
    BY <1>7, <2>1
<1>9. DaysBefore = [m \in 1..(n + 1) |-> IF m = 1 THEN 0 ELSE DaysBefore[m - 1] + Months[m - 1]]
  BY <1>2, <1>8 DEF DaysBefore
<1>10. DaysBefore[1] = 0
  BY <1>9
<1>11. \A m \in 1..n : DaysBefore[m + 1] = DaysBefore[m] + Months[m]
  <2> TAKE m \in 1..n
  <2>1. m + 1 \in 1..(n + 1) /\ m + 1 # 1 /\ (m + 1) - 1 = m
    OBVIOUS
  <2> QED
    BY <1>9, <2>1
<1>12. \A m \in 1..(n + 1) : DaysBefore[m] \in Nat
  <2> DEFINE G == {k \in 0..n : DaysBefore[k + 1] \in Nat}
  <2>1. 0 \in G
    BY <1>10
  <2>2. ASSUME NEW k \in 1..n, k - 1 \in G PROVE k \in G
    <3>1. DaysBefore[(k - 1) + 1] \in Nat /\ (k - 1) + 1 = k
      BY <2>2
    <3>2. DaysBefore[k + 1] = DaysBefore[k] + Months[k] /\ Months[k] \in Nat
      BY <1>2, <1>11
    <3> QED
      BY <3>1, <3>2
  <2>3. G \subseteq 0..n
    OBVIOUS
  <2>4. G = 0..n
    <3> HIDE DEF G
    <3> QED
      BY <2>1, <2>2, <2>3, UpTo
  <2> TAKE m \in 1..(n + 1)
  <2>5. PICK k \in 0..n : k + 1 = m
    <3>1. m - 1 \in 0..n /\ (m - 1) + 1 = m
      OBVIOUS
    <3> QED
      BY <3>1
  <2>6. k \in G
    BY <2>4, <2>5
  <2> QED
    BY <2>5, <2>6
<1>13. YearDays = DaysBefore[n + 1]
  BY <1>2 DEF YearDays
<1> QED
  BY <1>2, <1>10, <1>11, <1>12, <1>13

LEMMA DaysRise ==
    ASSUME NEW i \in 1..(Len(Months) + 1), NEW j \in 1..(Len(Months) + 1), i <= j
    PROVE  DaysBefore[i] <= DaysBefore[j]
<1>1. PICK n \in Nat \ {0} :
        /\ Len(Months) = n /\ \A m \in 1..n : Months[m] \in Nat \ {0}
        /\ \A m \in 1..(n + 1) : DaysBefore[m] \in Nat
        /\ \A m \in 1..n : DaysBefore[m + 1] = DaysBefore[m] + Months[m]
  BY YearForm
<1> DEFINE G == {k \in 0..(n + 1 - i) : DaysBefore[i] <= DaysBefore[i + k]}
<1>2. 0 \in G
  BY <1>1
<1>3. ASSUME NEW k \in 1..(n + 1 - i), k - 1 \in G PROVE k \in G
  <2>1. PICK m \in 1..n : m = i + (k - 1) /\ m + 1 = i + k
    <3>1. i + (k - 1) \in 1..n /\ (i + (k - 1)) + 1 = i + k
      BY <1>1
    <3> QED
      BY <3>1
  <2>2. DaysBefore[i] <= DaysBefore[m] /\ DaysBefore[m] <= DaysBefore[m + 1]
    <3>1. DaysBefore[m] \in Nat /\ Months[m] \in Nat /\ DaysBefore[m + 1] = DaysBefore[m] + Months[m]
      BY <1>1
    <3> QED
      BY <1>3, <2>1, <3>1
  <2>3. DaysBefore[i] \in Nat /\ DaysBefore[m] \in Nat /\ DaysBefore[m + 1] \in Nat
    BY <1>1
  <2> QED
    BY <2>1, <2>2, <2>3
<1>4. G \subseteq 0..(n + 1 - i) /\ n + 1 - i \in Nat
  BY <1>1
<1>5. G = 0..(n + 1 - i)
  <2> HIDE DEF G
  <2> QED
    BY <1>2, <1>3, <1>4, UpTo
<1>6. PICK k \in 0..(n + 1 - i) : i + k = j
  <2>1. j - i \in 0..(n + 1 - i) /\ i + (j - i) = j
    BY <1>1
  <2> QED
    BY <2>1
<1>7. k \in G
  BY <1>5, <1>6
<1> QED
  BY <1>6, <1>7

MonthOf(y) == Max({m \in DOMAIN Months : DaysBefore[m] <= y})

\* A day of the year lies in one month, the one that the calendar names.
LEMMA MonthIs ==
    ASSUME NEW y \in Nat, y < YearDays
    PROVE  /\ MonthOf(y) \in DOMAIN Months /\ MonthOf(y) + 1 \in 1..(Len(Months) + 1)
           /\ DaysBefore[MonthOf(y)] <= y /\ y < DaysBefore[MonthOf(y) + 1]
           /\ \A m \in DOMAIN Months : DaysBefore[m] <= y /\ y < DaysBefore[m + 1] => MonthOf(y) = m
<1>1. PICK n \in Nat \ {0} :
        /\ Len(Months) = n /\ DOMAIN Months = 1..n
        /\ DaysBefore[1] = 0 /\ YearDays = DaysBefore[n + 1] /\ \A m \in 1..(n + 1) : DaysBefore[m] \in Nat
  BY YearForm
<1>2. PICK S : S = {m \in 1..n : y < DaysBefore[m + 1]}
  OBVIOUS
<1>3. n \in S /\ S \subseteq Nat
  BY <1>1, <1>2
<1>4. PICK first \in S : \A m \in S : first <= m
  BY <1>3, LeastOf
<1>5. first \in 1..n /\ first + 1 \in 1..(n + 1) /\ y < DaysBefore[first + 1]
  BY <1>2
<1>6. DaysBefore[first] <= y
  <2>1. CASE first = 1
    BY <1>1, <2>1
  <2>2. CASE first # 1
    <3>1. PICK m \in 1..n : m = first - 1 /\ m + 1 = first
      <4>1. first - 1 \in 1..n /\ (first - 1) + 1 = first
        BY <1>5, <2>2
      <4> QED
        BY <4>1
    <3>2. m \notin S
      BY <1>4, <3>1
    <3>3. ~(y < DaysBefore[first])
      BY <1>2, <3>1, <3>2
    <3>4. DaysBefore[first] \in Nat
      BY <1>1, <1>5
    <3> QED
      BY <3>3, <3>4
  <2> QED
    BY <2>1, <2>2
<1>7. ASSUME NEW a \in 1..n, DaysBefore[a] <= y, NEW c \in 1..n, y < DaysBefore[c + 1] PROVE a <= c
  <2>1. ASSUME c + 1 <= a PROVE FALSE
    <3>1. c + 1 \in 1..(n + 1) /\ a \in 1..(n + 1)
      OBVIOUS
    <3>2. DaysBefore[c + 1] <= DaysBefore[a]
      BY <1>1, <2>1, <3>1, DaysRise
    <3>3. DaysBefore[c + 1] \in Nat /\ DaysBefore[a] \in Nat
      BY <1>1, <3>1
    <3> QED
      BY <1>7, <3>2, <3>3
  <2> QED
    BY <2>1
<1>8. PICK T : T = {m \in DOMAIN Months : DaysBefore[m] <= y}
  OBVIOUS
<1>9. first \in T /\ \A m \in T : first >= m
  BY <1>1, <1>5, <1>6, <1>7, <1>8
<1>10. PICK last : last = MonthOf(y)
  OBVIOUS
<1>11. last \in T /\ \A m \in T : last >= m
  BY <1>8, <1>9, <1>10 DEF MonthOf, Max
<1>12. last = first
  BY <1>1, <1>5, <1>8, <1>9, <1>11
<1>13. ASSUME NEW m \in DOMAIN Months, DaysBefore[m] <= y, y < DaysBefore[m + 1] PROVE last = m
  <2>1. first <= m /\ m <= first
    BY <1>1, <1>5, <1>6, <1>7, <1>13
  <2> QED
    BY <1>1, <1>5, <1>12, <2>1
<1> QED
  BY <1>1, <1>5, <1>6, <1>10, <1>12, <1>13

\* No day of the rest of the month is in another one.
LEMMA WithinMonth ==
    ASSUME NEW t \in Nat
    PROVE  /\ FirstOfNextMonth(t) \in Nat /\ t < FirstOfNextMonth(t)
           /\ \A u \in t..(FirstOfNextMonth(t) - 1) : Month(u) = Month(t)
<1>1. PICK n \in Nat \ {0} :
        /\ Len(Months) = n /\ DOMAIN Months = 1..n /\ (\A m \in 1..n : Months[m] \in Nat \ {0})
        /\ DaysBefore[1] = 0 /\ YearDays = DaysBefore[n + 1]
        /\ (\A m \in 1..(n + 1) : DaysBefore[m] \in Nat)
        /\ (\A m \in 1..n : DaysBefore[m + 1] = DaysBefore[m] + Months[m])
  BY YearForm
<1>2. PICK year : year = YearDays
  OBVIOUS
<1>3. year \in Nat \ {0}
  <2>1. n \in 1..n /\ n + 1 \in 1..(n + 1) /\ n \in 1..(n + 1)
    BY <1>1
  <2>2. DaysBefore[n + 1] = DaysBefore[n] + Months[n] /\ DaysBefore[n] \in Nat /\ Months[n] \in Nat \ {0}
    BY <1>1, <2>1
  <2> QED
    BY <1>1, <1>2, <2>2
<1>4. PICK day \in Nat : day = DayNumber(t)
  BY ClockForm, DivIs DEF DayNumber
<1>5. PICK k \in Nat, y \in 0..(year - 1) : y = day % year /\ day = year * k + y
  BY <1>3, DivIs
<1>6. PICK base \in Nat : base = year * k /\ day = base + y
  <2>1. year * k \in Nat
    BY <1>3
  <2> QED
    BY <1>5, <2>1
<1>7. PICK m : m = MonthOf(y)
  OBVIOUS
<1>8. /\ m \in 1..n /\ m \in 1..(n + 1) /\ m + 1 \in 1..(n + 1)
      /\ DaysBefore[m] <= y /\ y < DaysBefore[m + 1]
  <2>1. y \in Nat /\ y < YearDays
    BY <1>2, <1>3, <1>5
  <2> QED
    BY <1>1, <1>7, <2>1, MonthIs
<1>9. Month(t) = m
  BY <1>2, <1>4, <1>5, <1>7 DEF Month, MonthOf
<1>10. PICK before \in Nat, length \in Nat \ {0} :
         before = DaysBefore[m] /\ length = Months[m] /\ DaysBefore[m + 1] = before + length
  BY <1>1, <1>8
<1>11. before + length <= year
  <2>1. n + 1 \in 1..(Len(Months) + 1) /\ m + 1 \in 1..(Len(Months) + 1) /\ m + 1 <= n + 1
    BY <1>1, <1>8
  <2> QED
    BY <1>1, <1>2, <1>10, <2>1, DaysRise
<1>12. PICK next \in Nat : next = base + before + length
  OBVIOUS
<1>13. FirstOfNextMonth(t) = StartOfDay(next)
  <2>1. PICK date : date = Day(t)
    OBVIOUS
  <2>2. date = y - before + 1
    BY <1>2, <1>4, <1>5, <1>9, <1>10, <2>1 DEF Day
  <2>3. day = base + y /\ next = base + before + length /\ y \in Nat
    BY <1>3, <1>5, <1>6, <1>12
  <2>4. day - (date - 1) + length = next
    BY <2>2, <2>3
  <2> QED
    BY <1>4, <1>9, <1>10, <2>1, <2>4 DEF FirstOfNextMonth
<1>14. day < next
  BY <1>5, <1>6, <1>8, <1>10, <1>12
<1>15. /\ StartOfDay(next) \in Nat /\ t < StartOfDay(next)
       /\ \A u \in t..(StartOfDay(next) - 1) : DayNumber(u) \in day..(next - 1)
  BY <1>4, <1>14, WithinDays
<1>16. ASSUME NEW u \in t..(StartOfDay(next) - 1) PROVE Month(u) = m
  <2>1. PICK other : other = DayNumber(u)
    OBVIOUS
  <2>2. other \in day..(next - 1)
    BY <1>15, <2>1
  <2>3. PICK z : z = other - base
    OBVIOUS
  <2>4. z \in 0..(year - 1) /\ before <= z /\ z < before + length /\ other \in Nat /\ other = base + z
    <3>1. y \in Nat /\ before <= y /\ day = base + y /\ next = base + before + length
      BY <1>3, <1>5, <1>6, <1>8, <1>10, <1>12
    <3>2. other \in Int /\ base + y <= other /\ other < base + before + length
      BY <2>2, <3>1
    <3> QED
      BY <1>3, <1>11, <2>3, <3>1, <3>2
  <2>5. other % year = z
    BY <1>3, <1>6, <2>4, DivOnly
  <2>6. MonthOf(z) = m
    <3>1. z \in Nat /\ z < YearDays /\ m \in DOMAIN Months /\ DaysBefore[m] <= z /\ z < DaysBefore[m + 1]
      BY <1>1, <1>2, <1>3, <1>8, <1>10, <2>4, SMTT(30)
    <3> QED
      BY <3>1, MonthIs
  <2> QED
    BY <1>2, <2>1, <2>5, <2>6 DEF Month, MonthOf
<1> QED
  BY <1>9, <1>13, <1>15, <1>16

-----------------------------------------------------------------------------
CronSpec == CronInit /\ [][CronNext]_toolVars

CronInv ==
    job.tool = "cron" =>
        /\ job.after \in Nat /\ run.pc \in {"searching", "invalid"}
        /\ run.pc = "searching" =>
              /\ run = [pc |-> "searching", moment |-> run.moment, runs |-> run.runs]
              /\ run.moment \in Nat /\ job.after < run.moment
              /\ run.runs = {t \in (job.after + 1)..(run.moment - 1) : Matches(Schedule, t)}

\* A jump over moments that do not match keeps the invariant.
LEMMA JumpKeeps ==
    ASSUME CronInv, Searching, NEW to \in Nat, run.moment < to, Jump(to),
           \A u \in run.moment..(to - 1) : ~Matches(Schedule, u)
    PROVE  CronInv'
<1>1. /\ job.tool = "cron" /\ job.after \in Nat /\ run.pc = "searching" /\ run.moment \in Nat
      /\ run = [pc |-> "searching", moment |-> run.moment, runs |-> run.runs]
      /\ job.after < run.moment /\ run.runs = {t \in (job.after + 1)..(run.moment - 1) : Matches(Schedule, t)}
  BY DEF Searching, CronInv
<1>2. PICK now, found : now = run.moment /\ found = run.runs
  OBVIOUS
<1>3. run = [pc |-> "searching", moment |-> now, runs |-> found]
  BY <1>1, <1>2
<1>4. job' = job /\ run' = [pc |-> "searching", moment |-> to, runs |-> found]
  BY <1>3 DEF Jump
<1>5. Schedule' = Schedule
  BY <1>4 DEF Schedule
<1>6. found = {t \in (job.after + 1)..(to - 1) : Matches(Schedule, t)}
  <2>1. \A t \in (job.after + 1)..(to - 1) : t \in (job.after + 1)..(now - 1) \/ t \in now..(to - 1)
    BY <1>1, <1>2
  <2>2. \A t \in (job.after + 1)..(now - 1) : t \in (job.after + 1)..(to - 1)
    BY <1>1, <1>2
  <2>3. \A t \in now..(to - 1) : ~Matches(Schedule, t)
    BY <1>2
  <2> QED
    BY <1>1, <1>2, <2>1, <2>2, <2>3
<1> QED
  BY <1>1, <1>2, <1>4, <1>5, <1>6 DEF CronInv

\* What matches depends on the month, the day and the hour of a moment.
LEMMA DaySame ==
    ASSUME NEW t, NEW u, DayNumber(u) = DayNumber(t), NEW s
    PROVE  Month(u) = Month(t) /\ DayMatches(s, u) = DayMatches(s, t)
<1>1. Month(u) = Month(t)
  BY DEF Month
<1>2. Day(u) = Day(t) /\ Weekday(u) = Weekday(t)
  BY <1>1 DEF Day, Weekday
<1> QED
  BY <1>1, <1>2 DEF DayMatches

LEMMA CronStep ==
    ASSUME CronInv, CronNext PROVE CronInv'
<1> DEFINE now == run.moment
<1>1. job.tool = "cron" /\ run.pc = "searching"
  BY DEF CronNext, SkipMonth, SkipDay, SkipHour, CheckMinute, Searching
<1>2. /\ now \in Nat /\ run = [pc |-> "searching", moment |-> now, runs |-> run.runs]
      /\ job.after \in Nat /\ job.after < now
      /\ run.runs = {t \in (job.after + 1)..(now - 1) : Matches(Schedule, t)}
  BY <1>1 DEF CronInv
<1>3. CASE SkipMonth
  <2>1. Searching /\ Month(now) \notin Schedule.months /\ Jump(FirstOfNextMonth(now))
    BY <1>3 DEF SkipMonth
  <2>2. /\ FirstOfNextMonth(now) \in Nat /\ now < FirstOfNextMonth(now)
        /\ \A u \in now..(FirstOfNextMonth(now) - 1) : Month(u) = Month(now)
    BY <1>2, WithinMonth
  <2>3. \A u \in now..(FirstOfNextMonth(now) - 1) : ~Matches(Schedule, u)
    BY <2>1, <2>2 DEF Matches
  <2> QED
    BY <2>1, <2>2, <2>3, JumpKeeps
<1>4. CASE SkipDay
  <2>1. PICK day : day = DayNumber(now) + 1
    OBVIOUS
  <2>2. Searching /\ ~DayMatches(Schedule, now) /\ Jump(StartOfDay(day))
    BY <1>4, <2>1 DEF SkipDay
  <2>3. DayNumber(now) \in Nat
    BY <1>2, ClockForm, DivIs DEF DayNumber
  <2>4. day \in Nat /\ DayNumber(now) < day /\ DayNumber(now)..(day - 1) = {DayNumber(now)}
    BY <2>1, <2>3
  <2>5. /\ StartOfDay(day) \in Nat /\ now < StartOfDay(day)
        /\ \A u \in now..(StartOfDay(day) - 1) : DayNumber(u) = DayNumber(now)
    BY <1>2, <2>4, WithinDays
  <2>6. \A u \in now..(StartOfDay(day) - 1) : ~Matches(Schedule, u)
    BY <2>2, <2>5, DaySame DEF Matches
  <2> QED
    BY <2>2, <2>5, <2>6, JumpKeeps
<1>5. CASE SkipHour
  <2>1. Searching /\ Hour(now) \notin Schedule.hours /\ Jump(NextHour(now))
    BY <1>5 DEF SkipHour
  <2>2. /\ NextHour(now) \in Nat /\ now < NextHour(now)
        /\ \A u \in now..(NextHour(now) - 1) : Hour(u) = Hour(now)
    BY <1>2, WithinHour
  <2>3. \A u \in now..(NextHour(now) - 1) : ~Matches(Schedule, u)
    BY <2>1, <2>2 DEF Matches
  <2> QED
    BY <2>1, <2>2, <2>3, JumpKeeps
<1>6. CASE CheckMinute
  <2>1. PICK found, at : found = run.runs /\ at = now
    OBVIOUS
  <2>a. run = [pc |-> "searching", moment |-> at, runs |-> found]
    BY <1>2, <2>1
  <2>2. /\ Month(now) \in Schedule.months /\ DayMatches(Schedule, now) /\ Hour(now) \in Schedule.hours
        /\ job' = job
        /\ run' = [run EXCEPT !.moment = @ + 1,
                              !.runs = IF Minute(now) \in Schedule.minutes THEN @ \union {now} ELSE @]
    BY <1>6 DEF CheckMinute
  <2>3. Matches(Schedule, now) <=> Minute(now) \in Schedule.minutes
    BY <2>2 DEF Matches
  <2>4. PICK runs : runs = IF Matches(Schedule, now) THEN found \union {now} ELSE found
    OBVIOUS
  <2>5. PICK next \in Nat : next = now + 1
    BY <1>2
  <2>6. run' = [pc |-> "searching", moment |-> next, runs |-> runs]
    <3>1. runs = IF Minute(now) \in Schedule.minutes THEN found \union {now} ELSE found
      BY <2>3, <2>4
    <3>2. run' = [run EXCEPT !.moment = @ + 1, !.runs = runs]
      BY <2>a, <2>2, <3>1
    <3>3. at + 1 = next
      BY <2>1, <2>5
    <3> QED
      BY <2>a, <3>2, <3>3
  <2>7. Schedule' = Schedule
    BY <2>2 DEF Schedule
  <2>8. runs = {t \in (job.after + 1)..(next - 1) : Matches(Schedule, t)}
    <3>1. \A t : t \in (job.after + 1)..(next - 1) <=> t \in (job.after + 1)..(now - 1) \/ t = now
      BY <1>2, <2>5
    <3> QED
      BY <1>2, <2>1, <2>4, <3>1
  <2>9. job.after < next
    BY <1>2, <2>5
  <2>10. job' = job /\ job.after \in Nat
    BY <1>2, <2>2
  <2> QED
    BY <2>5, <2>6, <2>7, <2>8, <2>9, <2>10 DEF CronInv
<1> QED
  BY <1>3, <1>4, <1>5, <1>6 DEF CronNext

\* However the search skips, whatever the expression and the calendar, what it
\* has found up to where it stands are the moments that match.
THEOREM NothingSkippedAlways == CronSpec => []NothingSkipped
<1>1. CronInit => CronInv
  <2> SUFFICES ASSUME CronInit PROVE CronInv
    OBVIOUS
  <2>1. PICK e \in Expressions, start \in {0, DayMinutes - 1, StartOfDay(YearDays) - 2} :
          /\ job = [tool |-> "cron", expression |-> e, after |-> start]
          /\ run = IF ParseValid(e) THEN [pc |-> "searching", moment |-> start + 1, runs |-> {}]
                   ELSE [pc |-> "invalid", moment |-> start, runs |-> {}]
    BY DEF CronInit
  <2>2. start \in Nat
    <3>1. PICK m \in Nat \ {0, 1}, k \in Nat \ {0} : m = HourMinutes /\ k = DayHours
      BY CalendarAssumption DEF CalendarAssumption
    <3>2. DayMinutes = k * m /\ k * m \in Nat /\ k * m >= 2
      <4>1. PICK j \in Nat : k = j + 1
        <5>1. k - 1 \in Nat /\ k = (k - 1) + 1
          OBVIOUS
        <5> QED
          BY <5>1
      <4>2. k * m = j * m + m /\ j * m \in Nat
        BY <4>1
      <4> QED
        BY <3>1, <4>2 DEF DayMinutes
    <3>3. PICK y \in Nat \ {0} : y = YearDays
      <4>1. PICK n \in Nat \ {0} :
              /\ \A i \in 1..n : Months[i] \in Nat \ {0}
              /\ YearDays = DaysBefore[n + 1] /\ \A i \in 1..(n + 1) : DaysBefore[i] \in Nat
              /\ \A i \in 1..n : DaysBefore[i + 1] = DaysBefore[i] + Months[i]
        BY YearForm
      <4>2. n \in 1..n /\ n \in 1..(n + 1)
        OBVIOUS
      <4>3. DaysBefore[n + 1] = DaysBefore[n] + Months[n] /\ DaysBefore[n] \in Nat /\ Months[n] \in Nat \ {0}
        BY <4>1, <4>2
      <4> QED
        BY <4>1, <4>3
    <3>4. PICK d \in Nat, z \in Nat : d = DayMinutes /\ d >= 2 /\ y = z + 1
      <4>1. y - 1 \in Nat /\ y = (y - 1) + 1
        OBVIOUS
      <4> QED
        BY <3>2, <4>1
    <3>5. y * d = z * d + d /\ z * d \in Nat
      BY <3>4
    <3>6. StartOfDay(YearDays) = y * d
      BY <3>3, <3>4 DEF StartOfDay
    <3> QED
      BY <2>1, <3>4, <3>5, <3>6
  <2>3. CASE ParseValid(e)
    <3>1. job.after = start /\ job.tool = "cron" /\ run = [pc |-> "searching", moment |-> start + 1, runs |-> {}]
      BY <2>1, <2>3
    <3>2. {t \in (start + 1)..((start + 1) - 1) : Matches(Schedule, t)} = {}
      BY <2>2
    <3>3. run.moment = start + 1 /\ run.runs = {} /\ run.pc = "searching" /\ start + 1 \in Nat /\ start < start + 1
      BY <2>2, <3>1
    <3> QED
      BY <2>2, <3>1, <3>2, <3>3 DEF CronInv
  <2>4. CASE ~ParseValid(e)
    <3>1. job.after = start /\ run = [pc |-> "invalid", moment |-> start, runs |-> {}]
      BY <2>1, <2>4
    <3> QED
      BY <2>2, <3>1 DEF CronInv
  <2> QED
    BY <2>3, <2>4
<1>2. CronInv /\ [CronNext]_toolVars => CronInv'
  <2>1. CASE CronNext
    BY <2>1, CronStep
  <2>2. ASSUME CronInv, UNCHANGED toolVars PROVE CronInv'
    <3>1. job' = job /\ run' = run
      BY <2>2 DEF toolVars
    <3>2. Schedule' = Schedule
      BY <3>1 DEF Schedule
    <3> QED
      BY <2>2, <3>1, <3>2 DEF CronInv
  <2> QED
    BY <2>1, <2>2
<1>3. CronInv => NothingSkipped
  BY DEF CronInv, NothingSkipped
<1> QED
  BY <1>1, <1>2, <1>3, PTL DEF CronSpec
====
