----------------------------- MODULE ToolsProofs -----------------------------
(***************************************************************************)
(* Proofs about the tools around the chaos core.  A behaviour of Tools is  *)
(* one use of one tool, chosen by its initial state and never changed; so  *)
(* each theorem is about the initial states and steps of one of them.      *)
(***************************************************************************)
EXTENDS Campaigns, Drift, ProviderPatches, Topology, FiniteSetTheorems, SequenceTheorems, WellFoundedInduction, TLAPS
LOCAL INSTANCE FiniteSetsExt

-----------------------------------------------------------------------------
(* The search of a breaking point (Campaigns).                             *)

SearchSpec == SearchInit /\ [][TrySeverity]_toolVars

Lowest == Min(Severities)
Highest == Max(Severities)

\* What lies below low passed where it was tried last, what lies above high
\* failed there, and no severity between them was tried.
SearchInv ==
    /\ job.tool = "search" /\ job.failing \subseteq Severities
    /\ run \in [low : Int, high : Int, point : Severities \union {NoValue}, trials : Seq(Severities \X BOOLEAN)]
    /\ Lowest <= run.low /\ run.low <= run.high + 1 /\ run.high <= Highest
    /\ run.low # Lowest => run.low - 1 \notin job.failing
    /\ run.point = NoValue => run.high = Highest
    /\ run.point # NoValue => run.point = run.high + 1 /\ run.point \in job.failing
    /\ \A i \in DOMAIN run.trials : run.trials[i][1] \notin run.low..run.high
    /\ \A i, k \in DOMAIN run.trials : i # k => run.trials[i][1] # run.trials[k][1]
    /\ (\A s \in job.failing : \A t \in Severities : t >= s => t \in job.failing) =>
          \A s \in job.failing : run.low <= s

LEMMA SearchRange ==
    Lowest \in Int /\ Highest \in Int /\ Lowest <= Highest /\ Severities = Lowest..Highest /\ NoValue \notin Severities
  BY SearchAssumption DEF SearchAssumption, Lowest, Highest

LEMMA SearchStep ==
    ASSUME SearchInv, TrySeverity PROVE SearchInv'
<1> DEFINE s == (run.low + run.high) \div 2
           passed == s \notin job.failing
<1>1. /\ run.low \in Int /\ run.high \in Int /\ run.low <= run.high
      /\ job' = job
      /\ run' = [run EXCEPT !.low = IF passed THEN s + 1 ELSE @,
                            !.high = IF passed THEN @ ELSE s - 1,
                            !.point = IF passed THEN @ ELSE s,
                            !.trials = Append(@, <<s, passed>>)]
  BY DEF TrySeverity, SearchInv
<1>2. s \in Int /\ run.low <= s /\ s <= run.high
  BY <1>1
<1>3. s \in Severities
  BY <1>1, <1>2, SearchRange DEF SearchInv
<1> HIDE DEF s
<1> DEFINE entry == <<s, passed>>
           Shape == [low : Int, high : Int, point : Severities \union {NoValue},
                     trials : Seq(Severities \X BOOLEAN)]
<1>4. /\ passed => run'.low = s + 1 /\ run'.high = run.high /\ run'.point = run.point
      /\ ~passed => run'.low = run.low /\ run'.high = s - 1 /\ run'.point = s
      /\ run'.trials = Append(run.trials, entry)
      /\ run' \in Shape
  <2>1. Append(run.trials, entry) \in Seq(Severities \X BOOLEAN)
    BY <1>3, AppendProperties DEF SearchInv
  <2>2. run \in Shape
    BY DEF SearchInv
  <2>3. passed => run' = [run EXCEPT !.low = s + 1, !.trials = Append(run.trials, entry)]
    BY <1>1, <2>2
  <2>4. ~passed => run' = [run EXCEPT !.high = s - 1, !.point = s, !.trials = Append(run.trials, entry)]
    BY <1>1, <2>2
  <2>5. PICK log : log = Append(run.trials, entry)
    OBVIOUS
  <2>6. CASE passed
    <3>1. run' = [run EXCEPT !.low = s + 1, !.trials = log] /\ s + 1 \in Int /\ log \in Seq(Severities \X BOOLEAN)
      BY <1>2, <2>1, <2>3, <2>5, <2>6
    <3>2. run'.low = s + 1 /\ run'.high = run.high /\ run'.point = run.point /\ run'.trials = log /\ run' \in Shape
      BY <2>2, <3>1
    <3> QED
      BY <2>5, <2>6, <3>2
  <2>7. CASE ~passed
    <3>1. /\ run' = [run EXCEPT !.high = s - 1, !.point = s, !.trials = log]
          /\ s - 1 \in Int /\ s \in Severities /\ log \in Seq(Severities \X BOOLEAN)
      BY <1>2, <1>3, <2>1, <2>4, <2>5, <2>7
    <3>2. run'.low = run.low /\ run'.high = s - 1 /\ run'.point = s /\ run'.trials = log /\ run' \in Shape
      BY <2>2, <3>1
    <3> QED
      BY <2>5, <2>7, <3>2
  <2> QED
    BY <2>6, <2>7
<1>5. ASSUME NEW i \in DOMAIN run'.trials
      PROVE  \/ i \in DOMAIN run.trials /\ run'.trials[i] = run.trials[i]
             \/ i = Len(run.trials) + 1 /\ run'.trials[i][1] = s
  BY <1>3, <1>4, AppendProperties, LenProperties DEF SearchInv
<1>6. /\ Lowest <= run'.low /\ run'.low <= run'.high + 1 /\ run'.high <= Highest
      /\ run'.low # Lowest => run'.low - 1 \notin job.failing
      /\ run'.point = NoValue => run'.high = Highest
      /\ run'.point # NoValue => run'.point = run'.high + 1 /\ run'.point \in job.failing
  <2>1. /\ Lowest <= run.low /\ run.low <= run.high + 1 /\ run.high <= Highest
        /\ run.low # Lowest => run.low - 1 \notin job.failing
        /\ run.point = NoValue => run.high = Highest
        /\ run.point # NoValue => run.point = run.high + 1 /\ run.point \in job.failing
    BY DEF SearchInv
  <2>2. CASE passed
    <3>1. run'.low = s + 1 /\ run'.high = run.high /\ run'.point = run.point /\ s \notin job.failing
      BY <1>4, <2>2
    <3> QED
      BY <1>1, <1>2, <2>1, <3>1, SearchRange
  <2>3. CASE ~passed
    <3>1. run'.low = run.low /\ run'.high = s - 1 /\ run'.point = s /\ s \in job.failing
      BY <1>4, <2>3
    <3> QED
      BY <1>1, <1>2, <1>3, <2>1, <3>1, SearchRange
  <2> QED
    BY <2>2, <2>3
<1>7. s \in run.low..run.high /\ s \notin run'.low..run'.high
      /\ \A t : t \in run'.low..run'.high => t \in run.low..run.high
  BY <1>1, <1>2, <1>4
<1>8. \A i \in DOMAIN run'.trials : run'.trials[i][1] \notin run'.low..run'.high
  BY <1>5, <1>7 DEF SearchInv
<1>9. \A i, k \in DOMAIN run'.trials : i # k => run'.trials[i][1] # run'.trials[k][1]
  BY <1>5, <1>7 DEF SearchInv
<1>10. (\A r \in job.failing : \A t \in Severities : t >= r => t \in job.failing) =>
          \A r \in job.failing : run'.low <= r
  <2> SUFFICES ASSUME \A r \in job.failing : \A t \in Severities : t >= r => t \in job.failing,
                      NEW r \in job.failing
               PROVE  run'.low <= r
    OBVIOUS
  <2>1. r \in Int /\ run.low <= r
    BY SearchRange DEF SearchInv
  <2>2. s >= r => ~passed
    BY <1>3
  <2> QED
    BY <1>1, <1>2, <1>4, <2>1, <2>2
<1> QED
  BY <1>1, <1>4, <1>6, <1>8, <1>9, <1>10 DEF SearchInv

\* The search of a breaking point ends, over any range of severities and whatever
\* they do to the target, at one that failed above one that passed, and asks about
\* none twice (advanced.py: find_breaking_point).
THEOREM BreakingPointHolds == SearchSpec => []BreakingPointExact
<1>1. SearchInit => SearchInv
  <2> SUFFICES ASSUME SearchInit PROVE SearchInv
    OBVIOUS
  <2>1. /\ job.tool = "search" /\ job.failing \subseteq Severities
        /\ run = [low |-> Lowest, high |-> Highest, point |-> NoValue, trials |-> <<>>]
    BY DEF SearchInit, Lowest, Highest
  <2> QED
    BY <2>1, SearchRange DEF SearchInv
<1>2. SearchInv /\ [TrySeverity]_toolVars => SearchInv'
  BY SearchStep DEF SearchInv, toolVars
<1>3. SearchInv => BreakingPointExact
  <2> SUFFICES ASSUME SearchInv, run.low > run.high PROVE BreakingPointExact
    BY DEF BreakingPointExact, SearchInv
  <2>1. run.low = run.high + 1 /\ run.low \in Int
    BY DEF SearchInv
  <2>2. run.point = NoValue => Highest \notin job.failing
    BY <2>1, SearchRange DEF SearchInv
  <2>3. run.point # NoValue => run.point \in job.failing /\ run.point - 1 \notin job.failing
    BY <2>1, SearchRange DEF SearchInv
  <2>4. ASSUME \A s \in job.failing : \A t \in Severities : t >= s => t \in job.failing
        PROVE  run.point = IF job.failing = {} THEN NoValue ELSE Min(job.failing)
    <3>1. CASE job.failing = {}
      BY <2>3, <3>1
    <3>2. CASE job.failing # {}
      <4>1. run.point # NoValue
        <5>1. PICK s \in job.failing : s \in Severities
          BY <3>2 DEF SearchInv
        <5> QED
          BY <2>2, <2>4, <5>1, SearchRange
      <4>2. run.point \in job.failing /\ \A s \in job.failing : run.point <= s
        BY <2>1, <2>4, <4>1 DEF SearchInv
      <4>3. \A x \in job.failing : (\A y \in job.failing : x <= y) => x = run.point
        BY <4>2, SearchRange DEF SearchInv
      <4> QED
        BY <3>2, <4>2, <4>3 DEF Min
    <3> QED
      BY <3>1, <3>2
  <2> QED
    BY <2>2, <2>3, <2>4 DEF BreakingPointExact, SearchInv, Highest
<1> QED
  BY <1>1, <1>2, <1>3, PTL DEF SearchSpec

-----------------------------------------------------------------------------
(* Fuzzing (Campaigns).                                                    *)

FuzzSpec == FuzzInit /\ [][FuzzNext]_toolVars

\* The calls at node that the scopes of the campaign and of a fault allow.
Permitted(node, own) ==
    {c \in job.sites : c[1] = node /\ Allows(job.scope, c[1], c[2]) /\ Allows(own, c[1], c[2])}

\* Placed at a node, a fault fires at the calls of that node which both scopes allow.
LEMMA PlacedExact ==
    ASSUME job \in FuzzJobs, NEW node \in job.nodes, NEW own \in Factories(job, node), PlacementValid(job, node, own)
    PROVE  Reached(job, node, own) <=> Permitted(node, own) # {}
<1>1. /\ Everywhere # {node}
      /\ Everywhere \notin {job.scope.providers, own.providers} =>
            job.scope.providers \intersect own.providers # Everywhere
  BY FuzzAssumption DEF FuzzAssumption
<1> DEFINE near == Intersect(AtStep(node), job.scope)
           placed == Intersect(near, own)
<1>2. near = [steps |-> Both({node}, job.scope.steps), providers |-> job.scope.providers,
              notSteps |-> job.scope.notSteps, notProviders |-> job.scope.notProviders]
  BY DEF Intersect, AtStep, NoScope, Both
<1>3. near.steps = {node} /\ (job.scope.steps = Everywhere \/ node \in job.scope.steps)
  <2>1. near.steps # {}
    BY DEF PlacementValid, ScopeValid
  <2> QED
    BY <1>1, <1>2, <2>1 DEF Both
<1>4. placed = [steps |-> Both({node}, own.steps), providers |-> Both(job.scope.providers, own.providers),
                notSteps |-> job.scope.notSteps \union own.notSteps,
                notProviders |-> job.scope.notProviders \union own.notProviders]
  BY <1>2, <1>3 DEF Intersect
<1>5. placed.steps = {node} /\ (own.steps = Everywhere \/ node \in own.steps)
  <2>1. placed.steps # {}
    BY DEF PlacementValid, ScopeValid, Placed
  <2> QED
    BY <1>1, <1>4, <2>1 DEF Both
<1>6. ASSUME NEW c PROVE Allows(placed, c[1], c[2]) <=>
                            c[1] = node /\ Allows(job.scope, c[1], c[2]) /\ Allows(own, c[1], c[2])
  <2>1. (placed.providers # Everywhere => c[2] \in placed.providers)
           <=> /\ job.scope.providers # Everywhere => c[2] \in job.scope.providers
               /\ own.providers # Everywhere => c[2] \in own.providers
    <3>1. placed.providers = Both(job.scope.providers, own.providers)
      BY <1>4
    <3> QED
      BY <1>1, <3>1 DEF Both
  <2>2. /\ placed.notSteps = job.scope.notSteps \union own.notSteps
        /\ placed.notProviders = job.scope.notProviders \union own.notProviders
    BY <1>4
  <2> HIDE DEF placed, near
  <2> QED
    BY <1>1, <1>3, <1>5, <2>1, <2>2 DEF Allows
<1> QED
  BY <1>6 DEF Reached, Placed, Permitted

\* What a trial tells: it reached its node only by a call that it may hit, and
\* exactly then unless the fault is limited to providers.
TrialOK(t) ==
    /\ t.node \in Candidates(job) /\ t.own \in Factories(job, t.node) /\ t.reached \in BOOLEAN /\ t.passed \in BOOLEAN
    /\ t.reached => Permitted(t.node, t.own) # {}
    /\ t.own.providers = Everywhere /\ Permitted(t.node, t.own) # {} => t.reached

AllRecovered == \A i \in DOMAIN run.trials : run.trials[i].reached => run.trials[i].passed

Trials == {Trial(node, own, reached, passed) :
             node \in Candidates(job), own \in UNION {Factories(job, m) : m \in Candidates(job)},
             reached \in BOOLEAN, passed \in BOOLEAN}

FuzzForm == [pc : {"placing", "done", "raised"}, trials : Seq(Trials), saved : BOOLEAN, exit : {NoValue, 0, 1}]

FuzzInv ==
    /\ job \in FuzzJobs /\ run \in FuzzForm
    /\ \A i \in DOMAIN run.trials : TrialOK(run.trials[i])
    /\ run.saved <=> run.pc = "done"
    /\ run.exit = 0 => run.pc = "done"
    /\ run.pc = "done" => Len(run.trials) = job.n /\ (run.exit = 0 <=> AllRecovered)

\* A node is failing exactly if one of its trials was reached and did not recover.
LEMMA FailingExact ==
    ASSUME FuzzInv, NEW node \in Candidates(job)
    PROVE  node \in FailingNodes <=> \E i \in DOMAIN run.trials :
              run.trials[i].node = node /\ run.trials[i].reached /\ ~run.trials[i].passed
<1> DEFINE at == {i \in DOMAIN run.trials : run.trials[i].node = node}
           missed == {i \in at : ~run.trials[i].reached}
           failed == {i \in at \ missed : ~run.trials[i].passed}
<1>1. node \in FailingNodes <=> Cardinality(failed) > 0
  BY DEF FailingNodes, Summary
<1>2. IsFiniteSet(failed)
  <2>1. DOMAIN run.trials = 1..Len(run.trials) /\ Len(run.trials) \in Nat
    BY LenProperties DEF FuzzInv, FuzzForm
  <2>2. PICK n \in Nat : DOMAIN run.trials = 1..n
    BY <2>1
  <2>3. IsFiniteSet(1..n)
    BY FS_Interval
  <2> QED
    BY <2>2, <2>3, FS_Subset
<1>3. Cardinality(failed) > 0 <=> failed # {}
  <2> HIDE DEF failed
  <2> QED
    BY <1>2, FS_EmptySet, FS_CardinalityType
<1>4. failed # {} <=> \E i \in DOMAIN run.trials :
              run.trials[i].node = node /\ run.trials[i].reached /\ ~run.trials[i].passed
  OBVIOUS
<1> QED
  BY <1>1, <1>3, <1>4

LEMMA NoneFailing ==
    ASSUME FuzzInv PROVE FailingNodes = {} <=> AllRecovered
<1>1. FailingNodes \subseteq Candidates(job)
  BY DEF FailingNodes
<1>2. \A i \in DOMAIN run.trials : run.trials[i].node \in Candidates(job)
  BY DEF FuzzInv, TrialOK
<1>3. ASSUME FailingNodes = {}, NEW i \in DOMAIN run.trials, run.trials[i].reached
      PROVE  run.trials[i].passed
  BY <1>2, <1>3, FailingExact
<1>4. ASSUME AllRecovered, NEW node \in FailingNodes PROVE FALSE
  BY <1>1, <1>4, FailingExact DEF AllRecovered
<1> QED
  BY <1>3, <1>4 DEF AllRecovered

LEMMA FuzzConducted ==
    ASSUME FuzzInv, Placing, NEW t, Conducted(t), TrialOK(t),
           NEW node, NEW own, NEW reached \in BOOLEAN, NEW passed \in BOOLEAN, t = Trial(node, own, reached, passed)
    PROVE  FuzzInv'
<1>1. run.pc = "placing" /\ run.trials \in Seq(Trials)
  BY DEF FuzzInv, FuzzForm, Placing
<1>2. node \in Candidates(job) /\ own \in Factories(job, node)
  BY DEF TrialOK, Trial
<1>3. t \in Trials
  BY <1>2 DEF Trials
<1>4. PICK log : log = Append(run.trials, t)
  OBVIOUS
<1>5. /\ log \in Seq(Trials)
      /\ \A i \in DOMAIN log : (i \in DOMAIN run.trials /\ log[i] = run.trials[i]) \/ log[i] = t
  BY <1>1, <1>3, <1>4, AppendProperties, LenProperties
<1>6. job' = job /\ run' = [run EXCEPT !.trials = log]
  BY <1>4 DEF Conducted
<1>7. /\ run'.trials = log /\ run'.pc = run.pc /\ run'.saved = run.saved /\ run'.exit = run.exit
      /\ run' \in FuzzForm
  BY <1>5, <1>6 DEF FuzzInv, FuzzForm
<1>8. \A i \in DOMAIN log : TrialOK(log[i])
  BY <1>5 DEF FuzzInv
<1>9. FuzzForm' = FuzzForm /\ \A u : TrialOK(u)' <=> TrialOK(u)
  BY <1>6 DEF FuzzForm, Trials, TrialOK, Candidates, Factories, Permitted
<1> QED
  BY <1>1, <1>6, <1>7, <1>8, <1>9 DEF FuzzInv

LEMMA FuzzStep == ASSUME FuzzInv, FuzzNext PROVE FuzzInv'
<1>1. CASE CampaignRaises
  <2>1. job' = job /\ run' = [run EXCEPT !.pc = "raised", !.trials = <<>>, !.exit = 1]
    BY <1>1 DEF CampaignRaises, Raises
  <2>2. run'.pc = "raised" /\ run'.trials = <<>> /\ run'.saved = run.saved /\ run'.exit = 1
        /\ run' \in FuzzForm /\ run.pc = "placing"
    <3>1. run \in FuzzForm /\ run.pc = "placing"
      BY <1>1 DEF FuzzInv, CampaignRaises, Placing
    <3>2. <<>> \in Seq(Trials)
      OBVIOUS
    <3> QED
      BY <2>1, <3>1, <3>2 DEF FuzzForm
  <2>3. FuzzForm' = FuzzForm
    BY <2>1 DEF FuzzForm, Trials, Candidates, Factories
  <2> QED
    BY <2>1, <2>2, <2>3 DEF FuzzInv
<1>2. CASE SkipTrial
  <2>1. PICK node \in Candidates(job) : \E own \in Factories(job, node) :
           ~Allows(own, node, Anonymous) /\ Conducted(Trial(node, own, FALSE, TRUE))
    BY <1>2 DEF SkipTrial
  <2>2. PICK own \in Factories(job, node) :
           ~Allows(own, node, Anonymous) /\ Conducted(Trial(node, own, FALSE, TRUE))
    BY <2>1
  <2>3. Anonymous \notin own.notProviders /\ node \in job.nodes
    BY FuzzAssumption DEF FuzzAssumption, FuzzInv, Candidates
  <2>4. own.providers = Everywhere => Permitted(node, own) = {}
    BY <2>2, <2>3 DEF Allows, Permitted
  <2>5. PICK t : t = Trial(node, own, FALSE, TRUE)
    OBVIOUS
  <2>6. TrialOK(t)
    BY <2>4, <2>5 DEF TrialOK, Trial
  <2> QED
    BY <1>2, <2>2, <2>5, <2>6, FuzzConducted DEF SkipTrial
<1>3. CASE RunTrial
  <2>1. PICK node \in Candidates(job) : \E own \in Factories(job, node), recovers \in BOOLEAN :
           PlacementValid(job, node, own) /\ Conducted(Trial(node, own, Reached(job, node, own), recovers))
    BY <1>3 DEF RunTrial
  <2>2. PICK own \in Factories(job, node), recovers \in BOOLEAN :
           PlacementValid(job, node, own) /\ Conducted(Trial(node, own, Reached(job, node, own), recovers))
    BY <2>1
  <2>3. PICK reached \in BOOLEAN : reached = Reached(job, node, own)
    BY DEF Reached
  <2>4. PICK t : t = Trial(node, own, reached, recovers)
    OBVIOUS
  <2>5. node \in job.nodes /\ job \in FuzzJobs
    BY DEF FuzzInv, Candidates
  <2>6. Reached(job, node, own) <=> Permitted(node, own) # {}
    BY <2>2, <2>5, PlacedExact
  <2>7. TrialOK(t)
    <3>1. t.node = node /\ t.own = own /\ t.reached = reached /\ t.passed = recovers
      BY <2>4 DEF Trial
    <3> QED
      BY <2>3, <2>6, <3>1 DEF TrialOK
  <2>8. Conducted(t)
    BY <2>2, <2>3, <2>4
  <2> QED
    BY <1>3, <2>4, <2>7, <2>8, FuzzConducted DEF RunTrial
<1>4. CASE FuzzDone
  <2>1. PICK exit \in {0, 1} : exit = IF FailingNodes = {} THEN 0 ELSE 1
    OBVIOUS
  <2>2. /\ job' = job /\ run' = [run EXCEPT !.pc = "done", !.saved = TRUE, !.exit = exit]
        /\ Len(run.trials) = job.n
    BY <1>4, <2>1 DEF FuzzDone
  <2>3. run'.pc = "done" /\ run'.saved = TRUE /\ run'.exit = exit /\ run'.trials = run.trials /\ run' \in FuzzForm
    <3>1. run \in FuzzForm
      BY DEF FuzzInv
    <3> QED
      BY <2>1, <2>2, <3>1 DEF FuzzForm
  <2>4. FuzzForm' = FuzzForm /\ (\A u : TrialOK(u)' <=> TrialOK(u)) /\ (AllRecovered' <=> AllRecovered)
    BY <2>2, <2>3 DEF FuzzForm, Trials, TrialOK, Candidates, Factories, Permitted, AllRecovered
  <2>5. exit = 0 <=> AllRecovered
    BY <2>1, NoneFailing
  <2> QED
    BY <2>2, <2>3, <2>4, <2>5 DEF FuzzInv
<1> QED
  BY <1>1, <1>2, <1>3, <1>4 DEF FuzzNext

\* A node is blamed only for faults that could fire at its own calls, and the verdict
\* is green exactly after a whole campaign that recovered wherever it was reached
\* (fuzz.py: _trial, FuzzReport.failing_nodes), for every topology, pool, scope and
\* target.
THEOREM BlameHolds == FuzzSpec => []BlameIsLocal
<1>1. FuzzInit => FuzzInv
  <2> SUFFICES ASSUME FuzzInit PROVE FuzzInv
    OBVIOUS
  <2>1. job \in FuzzJobs /\ run = [pc |-> "placing", trials |-> <<>>, saved |-> FALSE, exit |-> NoValue]
    BY DEF FuzzInit
  <2> QED
    <3>1. NoValue \notin {0, 1}
      BY FuzzAssumption DEF FuzzAssumption
    <3>2. run \in FuzzForm
      BY <2>1 DEF FuzzForm
    <3> QED
      BY <2>1, <3>1, <3>2 DEF FuzzInv
<1>2. FuzzInv /\ [FuzzNext]_toolVars => FuzzInv'
  <2> SUFFICES ASSUME FuzzInv, [FuzzNext]_toolVars PROVE FuzzInv'
    OBVIOUS
  <2>1. CASE UNCHANGED toolVars
    <3>1. job' = job /\ run' = run
      BY <2>1 DEF toolVars
    <3>2. FuzzForm' = FuzzForm /\ (\A u : TrialOK(u)' <=> TrialOK(u)) /\ (AllRecovered' <=> AllRecovered)
      BY <3>1 DEF FuzzForm, Trials, TrialOK, Candidates, Factories, Permitted, AllRecovered
    <3> QED
      BY <3>1, <3>2 DEF FuzzInv
  <2> QED
    BY <2>1, FuzzStep
<1>3. FuzzInv => BlameIsLocal
  <2> SUFFICES ASSUME FuzzInv PROVE BlameIsLocal
    OBVIOUS
  <2>1. ASSUME NEW node \in FailingNodes
        PROVE  \E c \in job.sites : c[1] = node /\ Allows(job.scope, c[1], c[2])
    <3>1. node \in Candidates(job)
      BY DEF FailingNodes
    <3>2. PICK i \in DOMAIN run.trials : run.trials[i].node = node /\ run.trials[i].reached
      BY <3>1, FailingExact
    <3> QED
      BY <3>2 DEF FuzzInv, TrialOK, Permitted
  <2>2. run.exit = 0 <=> /\ run.saved /\ Len(run.trials) = job.n
                         /\ \A i \in DOMAIN run.trials : run.trials[i].reached => run.trials[i].passed
    BY DEF FuzzInv, AllRecovered
  <2>3. ASSUME NEW i \in DOMAIN run.trials, run.trials[i].own.providers = Everywhere
        PROVE  run.trials[i].reached <=>
                  \E c \in job.sites : /\ c[1] = run.trials[i].node
                                       /\ Allows(job.scope, c[1], c[2])
                                       /\ Allows(run.trials[i].own, c[1], c[2])
    <3>1. run.trials[i].reached <=> Permitted(run.trials[i].node, run.trials[i].own) # {}
      BY <2>3 DEF FuzzInv, TrialOK
    <3> QED
      BY <3>1 DEF Permitted
  <2> QED
    BY <2>1, <2>2, <2>3 DEF BlameIsLocal
<1> QED
  BY <1>1, <1>2, <1>3, PTL DEF FuzzSpec

-----------------------------------------------------------------------------
(* Patches of provider clients (ProviderPatches).                          *)

PatchSpec == PatchInit /\ [][PatchNext]_toolVars

Entry == [method : Methods, existed : BOOLEAN, value : Nat]
Handles == UNION {[places -> Entry] : places \in SUBSET Nat}

\* A handle notes each method once.
Distinct(originals) == \A i, k \in DOMAIN originals : originals[i].method = originals[k].method => i = k

Noting(handles, m) == \E h \in DOMAIN handles : \E i \in DOMAIN handles[h] : handles[h][i].method = m

\* What handles have noted is what the client was like, of exactly the methods that
\* are wrapped, each by one handle.
Wrapped(methods, own, handles, session) ==
    /\ \A h \in DOMAIN handles : \A i \in DOMAIN handles[h] :
          handles[h][i].value = 0 /\ (handles[h][i].existed <=> handles[h][i].method \in job.own)
    /\ \A h, g \in DOMAIN handles : \A i \in DOMAIN handles[h], k \in DOMAIN handles[g] :
          handles[h][i].method = handles[g][k].method => h = g /\ i = k
    /\ \A m \in Methods : methods[m] = 0 => ~Noting(handles, m) /\ (m \in own <=> m \in job.own)
    /\ \A m \in Methods : methods[m] # 0 => methods[m] = session /\ Noting(handles, m)

\* Handles not closed yet will be when the session ends.
Pending(handles, cleanups) ==
    \A h \in DOMAIN handles : handles[h] # <<>> => \E k \in DOMAIN cleanups : cleanups[k] = h

\* The session's cleanups are handles that were made.
Owned(handles, cleanups) == \A k \in DOMAIN cleanups : cleanups[k] \in DOMAIN handles

PatchForm ==
    [session : Nat, phase : {"none", "open", "exiting"}, methods : [Methods -> Nat], own : SUBSET Methods,
     handles : Seq(Handles), cleanups : Seq(Nat), stuck : BOOLEAN]

PatchInv ==
    /\ job.tool = "patch" /\ job.own \subseteq Methods /\ run \in PatchForm
    /\ run.phase # "none" => run.session # 0
    /\ Owned(run.handles, run.cleanups)
    /\ ~run.stuck => /\ Wrapped(run.methods, run.own, run.handles, run.session)
                     /\ Pending(run.handles, run.cleanups)
                     /\ run.phase = "none" => run.cleanups = <<>>

LEMMA HandleShape ==
    ASSUME NEW f \in Handles
    PROVE  /\ f \in [DOMAIN f -> Entry] /\ DOMAIN f \subseteq Nat
           /\ \A i \in DOMAIN f : f[i] \in Entry
  BY DEF Handles

Closing(methods, own, originals, back) == back = Close([methods |-> methods, own |-> own], originals)

\* What a close() that is refused nowhere does: it puts back all that the handle
\* noted, and touches nothing else.
Closed(methods, own, originals, back) == Closing(methods, own, originals, back) /\ ~back.raised

PutBack(methods, own, originals, back) ==
    /\ back.methods \in [Methods -> Nat] /\ back.own \in SUBSET Methods
    /\ \A i \in DOMAIN originals :
          /\ back.methods[originals[i].method] = originals[i].value
          /\ originals[i].method \in back.own <=> originals[i].existed
    /\ \A m \in Methods : (\A i \in DOMAIN originals : originals[i].method # m) =>
          back.methods[m] = methods[m] /\ (m \in back.own <=> m \in own)

LEMMA CloseAll ==
    ASSUME NEW methods \in [Methods -> Nat], NEW own \in SUBSET Methods,
           NEW originals \in Handles, Distinct(originals),
           NEW back, Closed(methods, own, originals, back)
    PROVE  PutBack(methods, own, originals, back)
<1> DEFINE client == [methods |-> methods, own |-> own]
           stuck == {i \in DOMAIN originals : ~Undoable(client.own, originals[i])}
           undone == {i \in DOMAIN originals : \A k \in stuck : i > k}
           of(m) == {i \in undone : originals[i].method = m}
           Oldest(m) == CHOOSE i \in of(m) : \A k \in of(m) : i <= k
<1>2. /\ back.methods = [m \in Methods |-> IF of(m) = {} THEN methods[m] ELSE originals[Oldest(m)].value]
      /\ back.own = {m \in Methods : IF of(m) = {} THEN m \in own ELSE originals[Oldest(m)].existed}
      /\ stuck = {}
  <2>1. back = [methods |-> [m \in Methods |-> IF of(m) = {} THEN client.methods[m] ELSE originals[Oldest(m)].value],
                own |-> {m \in Methods : IF of(m) = {} THEN m \in client.own ELSE originals[Oldest(m)].existed},
                raised |-> stuck # {}]
    BY DEF Close, Closed, Closing
  <2>2. client.methods = methods /\ client.own = own
    OBVIOUS
  <2> DEFINE refused == stuck # {}
  <2>3. back.raised = refused
    <3>1. \A a, b, c : [methods |-> a, own |-> b, raised |-> c].raised = c
      OBVIOUS
    <3> HIDE DEF of, Oldest, stuck, client
    <3> QED
      BY <2>1, <3>1, Zenon
  <2>4. stuck = {}
    BY <2>3, Zenon DEF Closed
  <2> HIDE DEF of, Oldest, stuck, client
  <2> QED
    BY <2>1, <2>2, <2>4
<1>3. DOMAIN originals \subseteq Nat /\ \A i \in DOMAIN originals : originals[i] \in Entry
  BY HandleShape
<1>4. undone = DOMAIN originals
  BY <1>2
<1> HIDE DEF stuck, undone
<1>5. ASSUME NEW i \in DOMAIN originals PROVE of(originals[i].method) = {i} /\ Oldest(originals[i].method) = i
  <2>1. of(originals[i].method) = {i}
    BY <1>4 DEF Distinct
  <2>2. i <= i
    BY <1>3
  <2>3. \A x \in {i} : x = i
    OBVIOUS
  <2> QED
    BY <2>1, <2>2
<1>6. ASSUME NEW m \in Methods PROVE of(m) = {} \/ \E i \in DOMAIN originals : m = originals[i].method
  BY <1>4
<1>7. ASSUME NEW m \in Methods, \A i \in DOMAIN originals : originals[i].method # m PROVE of(m) = {}
  BY <1>4, <1>7
<1> HIDE DEF of, Oldest
<1>8. ASSUME NEW i \in DOMAIN originals
      PROVE  /\ originals[i].method \in Methods
             /\ back.methods[originals[i].method] = originals[i].value
             /\ originals[i].method \in back.own <=> originals[i].existed
  <2>1. originals[i].method \in Methods
    BY <1>3 DEF Entry
  <2> QED
    BY <1>2, <1>5, <2>1
<1>9. ASSUME NEW m \in Methods, \A i \in DOMAIN originals : originals[i].method # m
      PROVE  back.methods[m] = methods[m] /\ (m \in back.own <=> m \in own)
  BY <1>2, <1>7, <1>9
<1>10. back.methods \in [Methods -> Nat] /\ back.own \in SUBSET Methods
  <2>1. ASSUME NEW m \in Methods PROVE back.methods[m] \in Nat
    BY <1>3, <1>6, <1>8, <1>9, <2>1 DEF Entry
  <2>2. back.own \subseteq Methods
    BY <1>2
  <2>3. DOMAIN back.methods = Methods /\ back.methods = [m \in Methods |-> back.methods[m]]
    BY <1>2
  <2> QED
    BY <2>1, <2>2, <2>3
<1> QED
  BY <1>8, <1>9, <1>10 DEF PutBack

LEMMA PatchTypes ==
    ASSUME PatchInv
    PROVE  /\ run.methods \in [Methods -> Nat] /\ run.own \in SUBSET Methods
           /\ run.handles \in Seq(Handles) /\ run.cleanups \in Seq(Nat)
           /\ run.stuck \in BOOLEAN /\ run.session \in Nat
           /\ DOMAIN run.handles = 1..Len(run.handles) /\ Len(run.handles) \in Nat
           /\ DOMAIN run.cleanups = 1..Len(run.cleanups) /\ Len(run.cleanups) \in Nat
           /\ \A h \in DOMAIN run.handles : run.handles[h] \in Handles
           /\ Client = [methods |-> run.methods, own |-> run.own]
<1>1. run \in PatchForm
  BY DEF PatchInv
<1>2. /\ run.methods \in [Methods -> Nat] /\ run.own \in SUBSET Methods
      /\ run.handles \in Seq(Handles) /\ run.cleanups \in Seq(Nat)
      /\ run.stuck \in BOOLEAN /\ run.session \in Nat
  BY <1>1 DEF PatchForm
<1> QED
  BY <1>2, LenProperties DEF Client

\* What is left of the handles when one of them has been closed to the end.
LEMMA Undone ==
    ASSUME PatchInv, ~run.stuck, NEW h \in DOMAIN run.handles,
           NEW back, back = Close(Client, run.handles[h]), ~back.raised,
           NEW handles, handles = [run.handles EXCEPT ![h] = <<>>]
    PROVE  /\ back.methods \in [Methods -> Nat] /\ back.own \in SUBSET Methods /\ handles \in Seq(Handles)
           /\ Wrapped(back.methods, back.own, handles, run.session)
           /\ \A g \in DOMAIN handles : handles[g] # <<>> => g # h /\ handles[g] = run.handles[g]
<1>1. /\ run.methods \in [Methods -> Nat] /\ run.own \in SUBSET Methods
      /\ run.handles \in Seq(Handles) /\ run.handles[h] \in Handles
      /\ Client = [methods |-> run.methods, own |-> run.own]
      /\ DOMAIN run.handles = 1..Len(run.handles) /\ Len(run.handles) \in Nat
  BY PatchTypes
<1>2. Wrapped(run.methods, run.own, run.handles, run.session)
  BY DEF PatchInv
<1>3. Distinct(run.handles[h])
  BY <1>2 DEF Wrapped, Distinct
<1>4. /\ back.methods \in [Methods -> Nat] /\ back.own \in SUBSET Methods
      /\ \A i \in DOMAIN run.handles[h] :
            /\ back.methods[run.handles[h][i].method] = run.handles[h][i].value
            /\ run.handles[h][i].method \in back.own <=> run.handles[h][i].existed
      /\ \A m \in Methods : (\A i \in DOMAIN run.handles[h] : run.handles[h][i].method # m) =>
            back.methods[m] = run.methods[m] /\ (m \in back.own <=> m \in run.own)
  <2>1. Closed(run.methods, run.own, run.handles[h], back)
    BY <1>1 DEF Closed, Closing
  <2>2. PutBack(run.methods, run.own, run.handles[h], back)
    BY <1>1, <1>3, <2>1, CloseAll
  <2> QED
    BY <2>2 DEF PutBack
<1>5. <<>> \in Handles
  BY DEF Handles
<1>6. handles \in Seq(Handles) /\ DOMAIN handles = DOMAIN run.handles
  BY <1>1, <1>5, ExceptSeq
<1>7. handles[h] = <<>> /\ \A g \in DOMAIN handles : g # h => handles[g] = run.handles[g]
  BY <1>1
<1>8. \A g \in DOMAIN handles : \A i \in DOMAIN handles[g] :
         g # h /\ handles[g] = run.handles[g] /\ g \in DOMAIN run.handles
  BY <1>6, <1>7
<1>9. ASSUME NEW m \in Methods, NEW i \in DOMAIN run.handles[h], run.handles[h][i].method = m
      PROVE  back.methods[m] = 0 /\ (m \in back.own <=> m \in job.own) /\ ~Noting(handles, m)
  <2>1. run.handles[h][i].value = 0 /\ (run.handles[h][i].existed <=> m \in job.own)
    BY <1>2, <1>9 DEF Wrapped
  <2>2. ~Noting(handles, m)
    BY <1>2, <1>8, <1>9 DEF Wrapped, Noting
  <2> QED
    BY <1>4, <1>9, <2>1, <2>2
<1>10. ASSUME NEW m \in Methods, \A i \in DOMAIN run.handles[h] : run.handles[h][i].method # m
       PROVE  /\ back.methods[m] = run.methods[m] /\ (m \in back.own <=> m \in run.own)
              /\ Noting(handles, m) <=> Noting(run.handles, m)
  <2>1. back.methods[m] = run.methods[m] /\ (m \in back.own <=> m \in run.own)
    BY <1>4, <1>10
  <2>2. Noting(handles, m) <=> Noting(run.handles, m)
    BY <1>6, <1>7, <1>8, <1>10 DEF Noting
  <2> QED
    BY <2>1, <2>2
<1>11. Wrapped(back.methods, back.own, handles, run.session)
  <2>1. ASSUME NEW g \in DOMAIN handles, NEW i \in DOMAIN handles[g]
        PROVE  handles[g][i].value = 0 /\ (handles[g][i].existed <=> handles[g][i].method \in job.own)
    BY <1>2, <1>8 DEF Wrapped
  <2>2. ASSUME NEW g \in DOMAIN handles, NEW f \in DOMAIN handles, NEW i \in DOMAIN handles[g], NEW k \in DOMAIN handles[f],
               handles[g][i].method = handles[f][k].method
        PROVE  g = f /\ i = k
    BY <1>2, <1>8, <2>2 DEF Wrapped
  <2>3. ASSUME NEW m \in Methods, back.methods[m] = 0
        PROVE  ~Noting(handles, m) /\ (m \in back.own <=> m \in job.own)
    BY <1>2, <1>9, <1>10, <2>3 DEF Wrapped
  <2>4. ASSUME NEW m \in Methods, back.methods[m] # 0
        PROVE  back.methods[m] = run.session /\ Noting(handles, m)
    BY <1>2, <1>9, <1>10, <2>4 DEF Wrapped
  <2> QED
    BY <2>1, <2>2, <2>3, <2>4 DEF Wrapped
<1> QED
  BY <1>4, <1>6, <1>7, <1>11

\* What install notes: of methods that are genuine, each once, what the instance
\* had.
LEMMA PatchNotes ==
    ASSUME PatchInv, NEW s \in Surfaces,
           NEW originals, originals = [i \in Noted(s) |-> Original(run.methods, run.own, s[i])]
    PROVE  /\ Installed(s) \subseteq Noted(s) /\ Noted(s) \subseteq DOMAIN s
           /\ \A i \in DOMAIN s : s[i] \in Methods
           /\ \A i, k \in DOMAIN s : s[i] = s[k] => i = k
           /\ \A i \in Noted(s) : run.methods[s[i]] = 0
           /\ DOMAIN originals = Noted(s)
           /\ \A i \in Noted(s) : /\ originals[i].method = s[i] /\ originals[i].value = 0
                                  /\ originals[i].existed <=> s[i] \in run.own
           /\ originals \in Handles /\ Distinct(originals)
<1>1. /\ run.methods \in [Methods -> Nat] /\ run.own \in SUBSET Methods /\ run.session \in Nat
  BY PatchTypes
<1>2. s \in Seq(Methods) /\ (\A i, k \in DOMAIN s : s[i] = s[k] => i = k)
  BY PatchAssumption DEF PatchAssumption
<1>3. DOMAIN s \subseteq Nat /\ (\A i \in DOMAIN s : s[i] \in Methods)
  BY <1>2, LenProperties
<1>4. Installed(s) \subseteq Noted(s) /\ Noted(s) \subseteq DOMAIN s
  BY DEF Installed, Noted, RefusedAt, Present
<1>5. \A i \in Noted(s) : run.methods[s[i]] = 0
  <2> SUFFICES ASSUME NEW i \in Noted(s), run.methods[s[i]] # 0 PROVE FALSE
    OBVIOUS
  <2>1. i \in Installed(s) /\ i \in RefusedAt(s) /\ i \in Nat
    BY <1>3, <1>4 DEF Installed, Noted, RefusedAt, Refused
  <2>2. i < i
    BY <2>1 DEF Installed
  <2> QED
    BY <2>1, <2>2
<1>6. /\ DOMAIN originals = Noted(s)
      /\ \A i \in Noted(s) : /\ originals[i].method = s[i] /\ originals[i].value = 0
                             /\ originals[i].existed <=> s[i] \in run.own
                             /\ originals[i] \in Entry
  <2>1. ASSUME NEW i \in Noted(s)
        PROVE  /\ originals[i].method = s[i] /\ originals[i].value = 0
               /\ originals[i].existed <=> s[i] \in run.own
               /\ originals[i] \in Entry
    <3>1. originals[i] = [method |-> s[i], existed |-> s[i] \in run.own, value |-> run.methods[s[i]]]
      BY DEF Original
    <3>2. s[i] \in Methods /\ run.methods[s[i]] = 0
      BY <1>3, <1>4, <1>5
    <3>3. CASE s[i] \in run.own
      <4>1. (s[i] \in run.own) = TRUE
        BY <3>3
      <4>2. originals[i] = [method |-> s[i], existed |-> TRUE, value |-> 0]
        BY <3>1, <3>2, <4>1, Zenon
      <4>3. originals[i].method = s[i] /\ originals[i].value = 0 /\ originals[i].existed = TRUE
        BY <4>2
      <4>4. [method |-> s[i], existed |-> TRUE, value |-> 0] \in Entry
        BY <3>2 DEF Entry
      <4>5. originals[i] \in Entry
        BY <4>2, <4>4, Zenon
      <4> QED
        BY <3>3, <4>3, <4>5
    <3>4. CASE s[i] \notin run.own
      <4>1. (s[i] \in run.own) = FALSE
        BY <3>4
      <4>2. originals[i] = [method |-> s[i], existed |-> FALSE, value |-> 0]
        BY <3>1, <3>2, <4>1, Zenon
      <4>3. originals[i].method = s[i] /\ originals[i].value = 0 /\ originals[i].existed = FALSE
        BY <4>2
      <4>4. [method |-> s[i], existed |-> FALSE, value |-> 0] \in Entry
        BY <3>2 DEF Entry
      <4>5. originals[i] \in Entry
        BY <4>2, <4>4, Zenon
      <4> QED
        BY <3>4, <4>3, <4>5
    <3> QED
      BY <3>3, <3>4
  <2> QED
    BY <2>1
<1>7. originals \in Handles /\ Distinct(originals)
  <2>1. originals \in [Noted(s) -> Entry]
    BY <1>6
  <2>2. Noted(s) \in SUBSET Nat
    BY <1>3, <1>4
  <2> QED
    BY <1>2, <1>4, <1>6, <2>1, <2>2 DEF Handles, Distinct
<1> QED
  BY <1>2, <1>3, <1>4, <1>5, <1>6, <1>7

\* A patch that is rejected half way leaves the client as it found it.
LEMMA RejectedPatch ==
    ASSUME PatchInv, ~run.stuck, NEW s \in Surfaces,
           NEW originals, originals = [i \in Noted(s) |-> Original(run.methods, run.own, s[i])],
           NEW after, after = [methods |-> [m \in Methods |-> IF m \in {s[i] : i \in Installed(s)}
                                                              THEN run.session ELSE run.methods[m]],
                               own |-> run.own \union {s[i] : i \in Installed(s)}],
           NEW back, back = Close(after, originals), ~back.raised
    PROVE  back.methods = run.methods /\ back.own = run.own
<1>1. run.methods \in [Methods -> Nat] /\ run.own \in SUBSET Methods /\ run.session \in Nat
  BY PatchTypes
<1>2. /\ Installed(s) \subseteq Noted(s) /\ Noted(s) \subseteq DOMAIN s
      /\ \A i \in DOMAIN s : s[i] \in Methods
      /\ \A i \in Noted(s) : run.methods[s[i]] = 0
      /\ DOMAIN originals = Noted(s)
      /\ \A i \in Noted(s) : /\ originals[i].method = s[i] /\ originals[i].value = 0
                             /\ originals[i].existed <=> s[i] \in run.own
      /\ originals \in Handles /\ Distinct(originals)
  BY PatchNotes
<1>8. PICK methods, own : after = [methods |-> methods, own |-> own]
                          /\ methods = [m \in Methods |-> IF m \in {s[i] : i \in Installed(s)}
                                                          THEN run.session ELSE run.methods[m]]
                          /\ own = run.own \union {s[i] : i \in Installed(s)}
  OBVIOUS
<1>9. methods \in [Methods -> Nat] /\ own \in SUBSET Methods
  BY <1>1, <1>2, <1>8
<1>10. /\ back.methods \in [Methods -> Nat] /\ back.own \in SUBSET Methods
       /\ \A i \in DOMAIN originals :
             /\ back.methods[originals[i].method] = originals[i].value
             /\ originals[i].method \in back.own <=> originals[i].existed
       /\ \A m \in Methods : (\A i \in DOMAIN originals : originals[i].method # m) =>
             back.methods[m] = methods[m] /\ (m \in back.own <=> m \in own)
  <2>1. Closed(methods, own, originals, back)
    BY <1>8 DEF Closed, Closing
  <2>2. PutBack(methods, own, originals, back)
    BY <1>2, <1>9, <2>1, CloseAll
  <2> QED
    BY <2>2 DEF PutBack
<1>11. ASSUME NEW m \in Methods PROVE back.methods[m] = run.methods[m] /\ (m \in back.own <=> m \in run.own)
  <2>1. CASE \E i \in Noted(s) : m = s[i]
    <3>1. PICK i \in Noted(s) : m = s[i]
      BY <2>1
    <3>2. /\ originals[i].method = m /\ originals[i].value = 0 /\ run.methods[m] = 0
          /\ originals[i].existed <=> m \in run.own
          /\ i \in DOMAIN originals
      BY <1>2, <3>1
    <3> QED
      BY <1>10, <3>2
  <2>2. CASE ~\E i \in Noted(s) : m = s[i]
    <3>1. m \notin {s[i] : i \in Installed(s)}
      BY <1>2, <2>2
    <3>2. back.methods[m] = methods[m] /\ (m \in back.own <=> m \in own)
      BY <1>2, <1>10, <2>2
    <3> QED
      BY <1>8, <3>1, <3>2
  <2> QED
    BY <2>1, <2>2
<1> QED
  BY <1>1, <1>10, <1>11

\* Numbers that are some have a least one.
LEMMA LeastOf ==
    ASSUME NEW T, T \subseteq Nat, T # {} PROVE \E x \in T : \A y \in T : x <= y
<1>1. PICK R : R = OpToRel(<, Nat) /\ IsWellFoundedOn(R, Nat)
  BY NatLessThanWellFounded
<1>2. PICK x \in T : \A y \in T : ~ (<<y, x>> \in R)
  BY <1>1, WFMin
<1>3. \A y \in T : ~ (y < x)
  BY <1>1, <1>2 DEF OpToRel
<1> QED
  BY <1>3

LEMMA CloseTypes ==
    ASSUME NEW methods \in [Methods -> Nat], NEW own \in SUBSET Methods, NEW originals \in Handles,
           NEW back, Closing(methods, own, originals, back)
    PROVE  back.methods \in [Methods -> Nat] /\ back.own \in SUBSET Methods /\ back.raised \in BOOLEAN
<1> DEFINE client == [methods |-> methods, own |-> own]
           stuck == {i \in DOMAIN originals : ~Undoable(client.own, originals[i])}
           undone == {i \in DOMAIN originals : \A k \in stuck : i > k}
           of(m) == {i \in undone : originals[i].method = m}
           Oldest(m) == CHOOSE i \in of(m) : \A k \in of(m) : i <= k
           refused == stuck # {}
           genuine == [m \in Methods |-> IF of(m) = {} THEN client.methods[m] ELSE originals[Oldest(m)].value]
           had == {m \in Methods : IF of(m) = {} THEN m \in client.own ELSE originals[Oldest(m)].existed}
<1>1. back = [methods |-> genuine, own |-> had, raised |-> refused]
  BY DEF Close, Closing
<1>2. client.methods = methods /\ client.own = own
  OBVIOUS
<1>3. ASSUME NEW m \in Methods PROVE of(m) = {} \/ originals[Oldest(m)].value \in Nat
  <2>1. of(m) \subseteq DOMAIN originals /\ DOMAIN originals \subseteq Nat
    BY HandleShape
  <2>2. CASE of(m) # {}
    <3> HIDE DEF of
    <3>1. \E i \in of(m) : \A k \in of(m) : i <= k
      BY <2>1, <2>2, LeastOf
    <3>2. Oldest(m) \in of(m)
      BY <3>1
    <3> HIDE DEF Oldest
    <3>3. originals[Oldest(m)] \in Entry
      BY <2>1, <3>2, HandleShape
    <3> QED
      BY <3>3 DEF Entry
  <2> QED
    BY <2>2
<1>4. refused \in BOOLEAN
  OBVIOUS
<1> HIDE DEF stuck, undone, of, Oldest, refused, client
<1>5. back.methods = [m \in Methods |-> IF of(m) = {} THEN methods[m] ELSE originals[Oldest(m)].value]
  BY <1>1, <1>2
<1>6. back.own \subseteq Methods
  BY <1>1, <1>2
<1>7. back.raised = refused
  <2>1. \A a, b, c : [methods |-> a, own |-> b, raised |-> c].raised = c
    OBVIOUS
  <2> HIDE DEF genuine, had
  <2> QED
    BY <1>1, <2>1, Zenon
<1>8. back.methods \in [Methods -> Nat]
  BY <1>3, <1>5
<1> QED
  BY <1>4, <1>6, <1>7, <1>8

\* A patch that is accepted: a new handle holds what is wrapped now, and the session
\* will undo it.
LEMMA AcceptedPatch ==
    ASSUME PatchInv, ~run.stuck, NEW s \in Surfaces, RefusedAt(s) = {},
           NEW originals, originals = [i \in Noted(s) |-> Original(run.methods, run.own, s[i])],
           NEW methods, methods = [m \in Methods |-> IF m \in {s[i] : i \in Installed(s)}
                                                     THEN run.session ELSE run.methods[m]],
           NEW own, own = run.own \union {s[i] : i \in Installed(s)},
           NEW handles, handles = Append(run.handles, originals),
           NEW cleanups, cleanups = Append(run.cleanups, Len(run.handles) + 1),
           run.session # 0
    PROVE  Wrapped(methods, own, handles, run.session) /\ Pending(handles, cleanups)
<1>1. /\ run.methods \in [Methods -> Nat] /\ run.own \in SUBSET Methods /\ run.session \in Nat
      /\ run.handles \in Seq(Handles) /\ run.cleanups \in Seq(Nat)
      /\ DOMAIN run.handles = 1..Len(run.handles) /\ Len(run.handles) \in Nat
      /\ DOMAIN run.cleanups = 1..Len(run.cleanups) /\ Len(run.cleanups) \in Nat
  BY PatchTypes
<1>2. /\ Noted(s) \subseteq DOMAIN s
      /\ \A i \in DOMAIN s : s[i] \in Methods
      /\ \A i, k \in DOMAIN s : s[i] = s[k] => i = k
      /\ \A i \in Noted(s) : run.methods[s[i]] = 0
      /\ DOMAIN originals = Noted(s)
      /\ \A i \in Noted(s) : /\ originals[i].method = s[i] /\ originals[i].value = 0
                             /\ originals[i].existed <=> s[i] \in run.own
      /\ originals \in Handles
  BY PatchNotes
<1>3. Installed(s) = Noted(s)
  BY DEF Noted
<1>4. Wrapped(run.methods, run.own, run.handles, run.session) /\ Pending(run.handles, run.cleanups)
  BY DEF PatchInv
<1> DEFINE new == Len(run.handles) + 1
<1>5. /\ DOMAIN handles = DOMAIN run.handles \union {new} /\ new \notin DOMAIN run.handles
      /\ handles[new] = originals /\ \A h \in DOMAIN run.handles : handles[h] = run.handles[h]
  <2>1. /\ handles \in Seq(Handles) /\ Len(handles) = Len(run.handles) + 1
        /\ \A h \in 1..Len(run.handles) : handles[h] = run.handles[h]
        /\ handles[Len(run.handles) + 1] = originals
    BY <1>1, <1>2, AppendProperties
  <2>2. DOMAIN handles = 1..Len(run.handles) + 1
    BY <2>1, LenProperties
  <2> QED
    BY <1>1, <2>1, <2>2
<1>6. /\ DOMAIN run.cleanups \subseteq DOMAIN cleanups
      /\ \A k \in DOMAIN run.cleanups : cleanups[k] = run.cleanups[k]
      /\ Len(run.cleanups) + 1 \in DOMAIN cleanups /\ cleanups[Len(run.cleanups) + 1] = new
  <2>1. /\ cleanups \in Seq(Nat) /\ Len(cleanups) = Len(run.cleanups) + 1
        /\ \A h \in 1..Len(run.cleanups) : cleanups[h] = run.cleanups[h]
        /\ cleanups[Len(run.cleanups) + 1] = new
    BY <1>1, AppendProperties
  <2>2. DOMAIN cleanups = 1..Len(run.cleanups) + 1
    BY <2>1, LenProperties
  <2> QED
    BY <1>1, <2>1, <2>2
<1> HIDE DEF new
<1>7. \A i \in Noted(s) : originals[i].method \in Methods /\ run.methods[originals[i].method] = 0
  BY <1>2
<1>8. \A h \in DOMAIN run.handles : \A i \in DOMAIN run.handles[h] :
         run.handles[h][i].method \in Methods /\ run.methods[run.handles[h][i].method] # 0
  <2> SUFFICES ASSUME NEW h \in DOMAIN run.handles, NEW i \in DOMAIN run.handles[h]
               PROVE  run.handles[h][i].method \in Methods /\ run.methods[run.handles[h][i].method] # 0
    OBVIOUS
  <2>1. run.handles[h][i] \in Entry
    BY PatchTypes, HandleShape
  <2>2. run.handles[h][i].method \in Methods
    BY <2>1 DEF Entry
  <2> QED
    BY <1>4, <2>2 DEF Wrapped, Noting
<1>9. ASSUME NEW m \in Methods PROVE Noting(handles, m) <=> Noting(run.handles, m) \/ \E i \in Noted(s) : m = s[i]
  <2>1. ASSUME NEW h \in DOMAIN handles, NEW i \in DOMAIN handles[h], handles[h][i].method = m
        PROVE  Noting(run.handles, m) \/ \E k \in Noted(s) : m = s[k]
    <3>1. CASE h \in DOMAIN run.handles
      BY <1>5, <2>1, <3>1 DEF Noting
    <3>2. CASE h = new
      BY <1>2, <1>5, <2>1, <3>2
    <3> QED
      BY <1>5, <3>1, <3>2
  <2>2. ASSUME NEW h \in DOMAIN run.handles, NEW i \in DOMAIN run.handles[h], run.handles[h][i].method = m
        PROVE  Noting(handles, m)
    <3>1. h \in DOMAIN handles /\ handles[h] = run.handles[h]
      BY <1>5
    <3> QED
      BY <2>2, <3>1 DEF Noting
  <2>3. ASSUME NEW k \in Noted(s), m = s[k] PROVE Noting(handles, m)
    <3>1. new \in DOMAIN handles /\ k \in DOMAIN handles[new] /\ handles[new][k].method = m
      BY <1>2, <1>5, <2>3
    <3> QED
      BY <3>1 DEF Noting
  <2> QED
    BY <2>1, <2>2, <2>3 DEF Noting
<1>10. ASSUME NEW m \in Methods, \E i \in Noted(s) : m = s[i]
       PROVE  methods[m] = run.session /\ run.methods[m] = 0
  BY <1>2, <1>3, <1>10
<1>11. ASSUME NEW m \in Methods, ~\E i \in Noted(s) : m = s[i]
       PROVE  methods[m] = run.methods[m] /\ (m \in own <=> m \in run.own)
  BY <1>2, <1>3, <1>11
<1>12. ASSUME NEW h \in DOMAIN handles, NEW i \in DOMAIN handles[h]
       PROVE  handles[h][i].value = 0 /\ (handles[h][i].existed <=> handles[h][i].method \in job.own)
  <2>1. CASE h \in DOMAIN run.handles
    BY <1>4, <1>5, <2>1 DEF Wrapped
  <2>2. CASE h = new
    <3>1. handles[h] = originals /\ i \in Noted(s)
      BY <1>2, <1>5, <2>2
    <3>2. s[i] \in run.own <=> s[i] \in job.own
      BY <1>2, <1>4, <3>1 DEF Wrapped
    <3> QED
      BY <1>2, <3>1, <3>2
  <2> QED
    BY <1>5, <2>1, <2>2
<1>13. ASSUME NEW h \in DOMAIN handles, NEW g \in DOMAIN handles, NEW i \in DOMAIN handles[h], NEW k \in DOMAIN handles[g],
              handles[h][i].method = handles[g][k].method
       PROVE  h = g /\ i = k
  <2>1. CASE h \in DOMAIN run.handles /\ g \in DOMAIN run.handles
    <3>1. handles[h] = run.handles[h] /\ handles[g] = run.handles[g]
      BY <1>5, <2>1
    <3> QED
      BY <1>4, <1>13, <2>1, <3>1 DEF Wrapped
  <2>2. CASE h = new /\ g = new
    <3>1. handles[h] = originals /\ handles[g] = originals
      BY <1>5, <2>2
    <3>2. i \in Noted(s) /\ k \in Noted(s) /\ s[i] = s[k]
      BY <1>2, <1>13, <3>1
    <3> QED
      BY <1>2, <2>2, <3>2
  <2>3. CASE h = new /\ g \in DOMAIN run.handles
    <3>1. handles[h] = originals /\ handles[g] = run.handles[g]
      BY <1>5, <2>3
    <3>2. i \in Noted(s) /\ k \in DOMAIN run.handles[g]
      BY <1>2, <3>1
    <3>3. run.methods[originals[i].method] = 0 /\ run.methods[run.handles[g][k].method] # 0
      BY <1>7, <1>8, <2>3, <3>2
    <3>4. run.methods[handles[h][i].method] = 0 /\ run.methods[handles[g][k].method] # 0
      BY <3>1, <3>3
    <3> QED
      BY <1>13, <3>4
  <2>4. CASE h \in DOMAIN run.handles /\ g = new
    <3>1. handles[g] = originals /\ handles[h] = run.handles[h]
      BY <1>5, <2>4
    <3>2. k \in Noted(s) /\ i \in DOMAIN run.handles[h]
      BY <1>2, <3>1
    <3>3. run.methods[originals[k].method] = 0 /\ run.methods[run.handles[h][i].method] # 0
      BY <1>7, <1>8, <2>4, <3>2
    <3>4. run.methods[handles[g][k].method] = 0 /\ run.methods[handles[h][i].method] # 0
      BY <3>1, <3>3
    <3> QED
      BY <1>13, <3>4
  <2> QED
    BY <1>5, <2>1, <2>2, <2>3, <2>4
<1>14. ASSUME NEW m \in Methods, methods[m] = 0 PROVE ~Noting(handles, m) /\ (m \in own <=> m \in job.own)
  <2>1. ~\E i \in Noted(s) : m = s[i]
    BY <1>10, <1>14
  <2> QED
    BY <1>4, <1>9, <1>11, <1>14, <2>1 DEF Wrapped
<1>15. ASSUME NEW m \in Methods, methods[m] # 0 PROVE methods[m] = run.session /\ Noting(handles, m)
  <2>1. CASE \E i \in Noted(s) : m = s[i]
    BY <1>9, <1>10, <2>1
  <2>2. CASE ~\E i \in Noted(s) : m = s[i]
    BY <1>4, <1>9, <1>11, <1>15, <2>2 DEF Wrapped
  <2> QED
    BY <2>1, <2>2
<1>16. Pending(handles, cleanups)
  BY <1>4, <1>5, <1>6 DEF Pending
<1> QED
  BY <1>12, <1>13, <1>14, <1>15, <1>16 DEF Wrapped

\* A session that is over has left nothing to undo.
LEMMA NothingPending ==
    ASSUME PatchInv, ~run.stuck, run.cleanups = <<>>
    PROVE  /\ \A h \in DOMAIN run.handles : run.handles[h] = <<>>
           /\ \A m \in Methods : run.methods[m] = 0 /\ ~Noting(run.handles, m) /\ (m \in run.own <=> m \in job.own)
<1>1. Wrapped(run.methods, run.own, run.handles, run.session) /\ Pending(run.handles, run.cleanups)
  BY DEF PatchInv
<1>2. \A h \in DOMAIN run.handles : run.handles[h] = <<>>
  BY <1>1 DEF Pending
<1>3. \A m \in Methods : ~Noting(run.handles, m)
  BY <1>2 DEF Noting
<1> QED
  BY <1>1, <1>2, <1>3 DEF Wrapped

LEMMA EnterStep == ASSUME PatchInv, EnterSession PROVE PatchInv'
<1>1. /\ run.session \in Nat /\ run.phase = "none" /\ job' = job
      /\ run' = [run EXCEPT !.session = run.session + 1, !.phase = "open", !.cleanups = <<>>]
  BY PatchTypes DEF EnterSession, Patching
<1>2. run \in PatchForm /\ job.tool = "patch" /\ job.own \subseteq Methods
  BY DEF PatchInv
<1>3. PICK session \in Nat : session = run.session + 1 /\ session # 0
  BY <1>1
<1>4. /\ run'.session = session /\ run'.phase = "open" /\ run'.cleanups = <<>> /\ run'.methods = run.methods
      /\ run'.own = run.own /\ run'.handles = run.handles /\ run'.stuck = run.stuck
      /\ run' \in PatchForm
  <2>1. <<>> \in Seq(Nat)
    OBVIOUS
  <2> QED
    BY <1>1, <1>2, <1>3, <2>1 DEF PatchForm
<1>5. ASSUME ~run.stuck
      PROVE  Wrapped(run.methods, run.own, run.handles, session) /\ Pending(run.handles, <<>>)
  <2>1. run.cleanups = <<>>
    BY <1>1, <1>5 DEF PatchInv
  <2>2. /\ \A h \in DOMAIN run.handles : run.handles[h] = <<>>
        /\ \A m \in Methods : run.methods[m] = 0 /\ ~Noting(run.handles, m) /\ (m \in run.own <=> m \in job.own)
    BY <1>5, <2>1, NothingPending
  <2>3. \A h \in DOMAIN run.handles : DOMAIN run.handles[h] = {}
    BY <2>2
  <2> QED
    BY <2>2, <2>3 DEF Wrapped, Pending
<1>6. ASSUME ~run'.stuck
      PROVE  /\ Wrapped(run.methods, run.own, run.handles, session)' /\ Pending(run.handles, run.cleanups)'
  <2>1. ~run.stuck
    BY <1>4, <1>6
  <2> QED
    BY <1>1, <1>4, <1>5, <2>1 DEF Wrapped, Pending, Noting
<1>7. run'.session # 0 /\ run'.phase # "none"
  BY <1>3, <1>4
<1>8. Owned(run.handles, run.cleanups)'
  BY <1>4 DEF Owned
<1> QED
  BY <1>1, <1>2, <1>4, <1>6, <1>7, <1>8 DEF PatchInv, Wrapped, Noting

\* A handle closed by the application or by the session.
HandleClosed(h, back, handles) ==
    /\ back = Close(Client, run.handles[h])
    /\ handles = IF back.raised THEN run.handles ELSE [run.handles EXCEPT ![h] = <<>>]

LEMMA EmptyHandle == <<>> \in Handles
  BY DEF Handles

LEMMA CloseStep ==
    ASSUME PatchInv, NEW h \in DOMAIN run.handles, NEW back, NEW handles, HandleClosed(h, back, handles)
    PROVE  /\ back.methods \in [Methods -> Nat] /\ back.own \in SUBSET Methods /\ back.raised \in BOOLEAN
           /\ handles \in Seq(Handles) /\ DOMAIN handles = DOMAIN run.handles
           /\ ~run.stuck /\ ~back.raised =>
                 /\ Wrapped(back.methods, back.own, handles, run.session)
                 /\ \A g \in DOMAIN handles : handles[g] # <<>> =>
                       g # h /\ g \in DOMAIN run.handles /\ handles[g] = run.handles[g]
<1>1. /\ run.methods \in [Methods -> Nat] /\ run.own \in SUBSET Methods
      /\ run.handles \in Seq(Handles) /\ run.handles[h] \in Handles
      /\ Client = [methods |-> run.methods, own |-> run.own]
      /\ DOMAIN run.handles = 1..Len(run.handles) /\ Len(run.handles) \in Nat
  BY PatchTypes
<1>2. back.methods \in [Methods -> Nat] /\ back.own \in SUBSET Methods /\ back.raised \in BOOLEAN
  <2>1. Closing(run.methods, run.own, run.handles[h], back)
    BY <1>1 DEF Closing, HandleClosed
  <2> QED
    BY <1>1, <2>1, CloseTypes
<1>3. handles \in Seq(Handles) /\ DOMAIN handles = DOMAIN run.handles
  <2>1. [run.handles EXCEPT ![h] = <<>>] \in Seq(Handles)
    BY <1>1, EmptyHandle, ExceptSeq
  <2> QED
    BY <1>1, <2>1 DEF HandleClosed
<1>4. ASSUME ~run.stuck, ~back.raised
      PROVE  /\ Wrapped(back.methods, back.own, handles, run.session)
             /\ \A g \in DOMAIN handles : handles[g] # <<>> => g # h /\ handles[g] = run.handles[g]
  <2>1. handles = [run.handles EXCEPT ![h] = <<>>] /\ back = Close(Client, run.handles[h])
    BY <1>4 DEF HandleClosed
  <2> QED
    BY <1>4, <2>1, Undone
<1> QED
  BY <1>2, <1>3, <1>4

LEMMA Reclosed ==
    ASSUME PatchInv, NEW h \in DOMAIN run.handles, NEW back, NEW handles, HandleClosed(h, back, handles)
    PROVE  [run.handles EXCEPT ![h] = IF back.raised THEN run.handles[h] ELSE <<>>] = handles
<1>1. run.handles = [g \in DOMAIN run.handles |-> run.handles[g]]
  BY PatchTypes
<1>2. CASE back.raised
  BY <1>1, <1>2 DEF HandleClosed
<1>3. CASE ~back.raised
  BY <1>3 DEF HandleClosed
<1> QED
  BY <1>2, <1>3

LEMMA CloseHandleStep ==
    ASSUME PatchInv, NEW h \in 1..MaxPatches, CloseHandle(h) PROVE PatchInv'
<1>1. PICK back, handles : HandleClosed(h, back, handles)
  BY DEF HandleClosed
<1>2. /\ h \in DOMAIN run.handles /\ job' = job
      /\ run' = [run EXCEPT !.methods = back.methods, !.own = back.own, !.handles = handles,
                            !.stuck = run.stuck \/ back.raised]
  <2>1. /\ h \in DOMAIN run.handles /\ job' = job
        /\ run' = [run EXCEPT !.methods = back.methods, !.own = back.own,
                              !.handles = [run.handles EXCEPT ![h] = IF back.raised THEN run.handles[h] ELSE <<>>],
                              !.stuck = run.stuck \/ back.raised]
    BY <1>1 DEF CloseHandle, HandleClosed
  <2>2. [run.handles EXCEPT ![h] = IF back.raised THEN run.handles[h] ELSE <<>>] = handles
    BY <1>1, <2>1, Reclosed
  <2> QED
    BY <2>1, <2>2
<1>3. /\ back.methods \in [Methods -> Nat] /\ back.own \in SUBSET Methods /\ back.raised \in BOOLEAN
      /\ handles \in Seq(Handles) /\ DOMAIN handles = DOMAIN run.handles
      /\ ~run.stuck /\ ~back.raised =>
            /\ Wrapped(back.methods, back.own, handles, run.session)
            /\ \A g \in DOMAIN handles : handles[g] # <<>> =>
                  g # h /\ g \in DOMAIN run.handles /\ handles[g] = run.handles[g]
  BY <1>1, <1>2, CloseStep
<1>4. run \in PatchForm /\ job.tool = "patch" /\ job.own \subseteq Methods /\ (run.phase # "none" => run.session # 0)
  BY DEF PatchInv
<1>5. PICK methods, own, stuck : methods = back.methods /\ own = back.own /\ stuck = (run.stuck \/ back.raised)
  OBVIOUS
<1>6. stuck \in BOOLEAN /\ (~stuck => ~run.stuck /\ ~back.raised)
  BY <1>5
<1>7. /\ run'.session = run.session /\ run'.phase = run.phase /\ run'.cleanups = run.cleanups
      /\ run'.methods = methods /\ run'.own = own /\ run'.handles = handles /\ run'.stuck = stuck
      /\ run' \in PatchForm
  <2>1. run' = [run EXCEPT !.methods = methods, !.own = own, !.handles = handles, !.stuck = stuck]
    BY <1>2, <1>5
  <2> QED
    BY <1>3, <1>4, <1>5, <1>6, <2>1 DEF PatchForm
<1>8. ASSUME ~run'.stuck
      PROVE  /\ Wrapped(methods, own, handles, run.session) /\ Pending(handles, run.cleanups)
             /\ run.phase = "none" => run.cleanups = <<>>
  <2>1. ~run.stuck /\ ~back.raised
    BY <1>6, <1>7, <1>8
  <2>2. Pending(run.handles, run.cleanups) /\ (run.phase = "none" => run.cleanups = <<>>)
    BY <2>1 DEF PatchInv
  <2>3. Pending(handles, run.cleanups)
    BY <1>3, <2>1, <2>2 DEF Pending
  <2> QED
    BY <1>3, <1>5, <2>1, <2>2, <2>3
<1>9. Owned(run.handles, run.cleanups)'
  BY <1>3, <1>7 DEF PatchInv, Owned
<1> QED
  BY <1>2, <1>4, <1>7, <1>8, <1>9 DEF PatchInv, Wrapped, Pending, Noting

\* The last cleanup goes, of the handle that is closed.
LEMMA CleanupStep == ASSUME PatchInv, ExitCleanup PROVE PatchInv'
<1> DEFINE h == run.cleanups[Len(run.cleanups)]
           rest == SubSeq(run.cleanups, 1, Len(run.cleanups) - 1)
<1>1. PICK back, handles : HandleClosed(h, back, handles)
  BY DEF HandleClosed
<1>2. /\ run.cleanups # <<>> /\ run.phase \in {"open", "exiting"} /\ job' = job
      /\ run' = [run EXCEPT !.methods = back.methods, !.own = back.own,
                            !.handles = [run.handles EXCEPT ![h] = IF back.raised THEN run.handles[h] ELSE <<>>],
                            !.cleanups = rest,
                            !.phase = IF back.raised THEN "none" ELSE "exiting",
                            !.stuck = run.stuck \/ back.raised]
  BY <1>1 DEF ExitCleanup, Patching, HandleClosed
<1>3. run \in PatchForm /\ job.tool = "patch" /\ job.own \subseteq Methods /\ (run.phase # "none" => run.session # 0)
  BY DEF PatchInv
<1>4. /\ run.cleanups \in Seq(Nat) /\ DOMAIN run.cleanups = 1..Len(run.cleanups) /\ Len(run.cleanups) \in Nat
  BY PatchTypes
<1>5. Len(run.cleanups) # 0 /\ Len(run.cleanups) \in DOMAIN run.cleanups
  BY <1>2, <1>4, EmptySeq
<1>6. /\ rest \in Seq(Nat) /\ DOMAIN rest = 1..Len(run.cleanups) - 1
      /\ \A k \in DOMAIN rest : rest[k] = run.cleanups[k]
  <2>1. \A k \in 1..Len(run.cleanups) - 1 : run.cleanups[k] \in Nat
    BY <1>4
  <2>2. Len(run.cleanups) - 1 \in Int
    BY <1>4
  <2>3. rest \in Seq(Nat) /\ Len(rest) = Len(run.cleanups) - 1
    BY <1>4, <1>5, <2>1, <2>2, SubSeqProperties
  <2> QED
    BY <1>4, <1>5, <2>3, LenProperties, SubSeqProperties
<1>7. h \in DOMAIN run.handles
  BY <1>5 DEF PatchInv, Owned
<1>8. /\ back.methods \in [Methods -> Nat] /\ back.own \in SUBSET Methods /\ back.raised \in BOOLEAN
      /\ handles \in Seq(Handles) /\ DOMAIN handles = DOMAIN run.handles
      /\ ~run.stuck /\ ~back.raised =>
            /\ Wrapped(back.methods, back.own, handles, run.session)
            /\ \A g \in DOMAIN handles : handles[g] # <<>> =>
                  g # h /\ g \in DOMAIN run.handles /\ handles[g] = run.handles[g]
  <2> HIDE DEF h
  <2> QED
    BY <1>1, <1>7, CloseStep
<1>9. [run.handles EXCEPT ![h] = IF back.raised THEN run.handles[h] ELSE <<>>] = handles
  <2> HIDE DEF h
  <2> QED
    BY <1>1, <1>7, Reclosed
<1>10. PICK methods, own, stuck, phase :
          /\ methods = back.methods /\ own = back.own /\ stuck = (run.stuck \/ back.raised)
          /\ phase = IF back.raised THEN "none" ELSE "exiting"
  OBVIOUS
<1>11. stuck \in BOOLEAN /\ (~stuck => ~run.stuck /\ ~back.raised)
  BY <1>10
<1> HIDE DEF h, rest
<1>12. /\ run'.session = run.session /\ run'.phase = phase /\ run'.cleanups = rest
       /\ run'.methods = methods /\ run'.own = own /\ run'.handles = handles /\ run'.stuck = stuck
       /\ run' \in PatchForm
  <2>1. run' = [run EXCEPT !.methods = methods, !.own = own, !.handles = handles, !.cleanups = rest,
                           !.phase = phase, !.stuck = stuck]
    BY <1>2, <1>9, <1>10
  <2>2. phase \in {"none", "open", "exiting"}
    BY <1>10
  <2> QED
    BY <1>3, <1>6, <1>8, <1>10, <1>11, <2>1, <2>2 DEF PatchForm
<1>13. ASSUME ~run'.stuck
       PROVE  /\ Wrapped(methods, own, handles, run.session) /\ Pending(handles, rest)
              /\ phase = "exiting"
  <2>1. ~run.stuck /\ ~back.raised
    BY <1>11, <1>12, <1>13
  <2>2. Pending(run.handles, run.cleanups)
    BY <2>1 DEF PatchInv
  <2>3. ASSUME NEW g \in DOMAIN handles, handles[g] # <<>> PROVE \E k \in DOMAIN rest : rest[k] = g
    <3>1. g # h /\ g \in DOMAIN run.handles /\ run.handles[g] # <<>>
      BY <1>8, <2>1, <2>3
    <3>2. PICK k \in DOMAIN run.cleanups : run.cleanups[k] = g
      BY <2>2, <3>1 DEF Pending
    <3>3. k # Len(run.cleanups)
      BY <3>1, <3>2 DEF h
    <3>4. k \in DOMAIN rest
      BY <1>4, <1>6, <3>3
    <3> QED
      BY <1>6, <3>2, <3>4
  <2>4. phase = "exiting"
    BY <1>10, <2>1
  <2> QED
    BY <1>8, <1>10, <2>1, <2>3, <2>4 DEF Pending
<1>14. Owned(handles, rest)
  <2>1. DOMAIN rest \subseteq DOMAIN run.cleanups
    BY <1>4, <1>6
  <2> QED
    BY <1>6, <1>8, <2>1 DEF PatchInv, Owned
<1>15. run.session # 0
  BY <1>2, <1>3
<1> QED
  BY <1>2, <1>3, <1>12, <1>13, <1>14, <1>15 DEF PatchInv, Wrapped, Pending, Noting, Owned

LEMMA ExitStep == ASSUME PatchInv, ExitSession PROVE PatchInv'
<1>1. /\ run.cleanups = <<>> /\ job' = job /\ run' = [run EXCEPT !.phase = "none"]
  BY DEF ExitSession
<1>2. run \in PatchForm /\ job.tool = "patch" /\ job.own \subseteq Methods
  BY DEF PatchInv
<1>3. /\ run'.session = run.session /\ run'.phase = "none" /\ run'.cleanups = <<>> /\ run'.methods = run.methods
      /\ run'.own = run.own /\ run'.handles = run.handles /\ run'.stuck = run.stuck
      /\ run' \in PatchForm
  BY <1>1, <1>2 DEF PatchForm
<1>4. ASSUME ~run'.stuck
      PROVE  /\ Wrapped(run.methods, run.own, run.handles, run.session)' /\ Pending(run.handles, run.cleanups)'
  <2>1. Wrapped(run.methods, run.own, run.handles, run.session) /\ Pending(run.handles, run.cleanups)
    BY <1>3, <1>4 DEF PatchInv
  <2> QED
    BY <1>1, <1>3, <2>1 DEF Wrapped, Pending, Noting
<1>5. Owned(run.handles, run.cleanups)'
  BY <1>3 DEF Owned
<1> QED
  BY <1>1, <1>2, <1>3, <1>4, <1>5 DEF PatchInv

LEMMA PatchClientStep ==
    ASSUME PatchInv, NEW s \in Surfaces, PatchClient(s) PROVE PatchInv'
<1>1. PICK originals, methods, own :
         /\ originals = [i \in Noted(s) |-> Original(run.methods, run.own, s[i])]
         /\ methods = [m \in Methods |-> IF m \in {s[i] : i \in Installed(s)} THEN run.session ELSE run.methods[m]]
         /\ own = run.own \union {s[i] : i \in Installed(s)}
  OBVIOUS
<1>2. PICK back : back = Close([methods |-> methods, own |-> own], originals)
  OBVIOUS
<1>3. /\ run.phase = "open" /\ job' = job
      /\ run' = IF Present(s) # {} /\ RefusedAt(s) = {}
                THEN [run EXCEPT !.methods = methods, !.own = own, !.handles = Append(run.handles, originals),
                                 !.cleanups = Append(run.cleanups, Len(run.handles) + 1)]
                ELSE [run EXCEPT !.methods = back.methods, !.own = back.own, !.stuck = run.stuck \/ back.raised]
  BY <1>1, <1>2 DEF PatchClient, Patching
<1>4. /\ run \in PatchForm /\ job.tool = "patch" /\ job.own \subseteq Methods /\ run.session # 0
      /\ Owned(run.handles, run.cleanups) /\ run.phase = "open" /\ job' = job
  BY <1>3 DEF PatchInv
<1>5. /\ run.methods \in [Methods -> Nat] /\ run.own \in SUBSET Methods /\ run.session \in Nat
      /\ run.handles \in Seq(Handles) /\ run.cleanups \in Seq(Nat) /\ run.stuck \in BOOLEAN
      /\ DOMAIN run.handles = 1..Len(run.handles) /\ Len(run.handles) \in Nat
      /\ DOMAIN run.cleanups = 1..Len(run.cleanups) /\ Len(run.cleanups) \in Nat
  BY PatchTypes
<1>6. originals \in Handles /\ (\A i \in DOMAIN s : s[i] \in Methods) /\ Installed(s) \subseteq DOMAIN s
  <2>1. /\ Installed(s) \subseteq Noted(s) /\ Noted(s) \subseteq DOMAIN s
        /\ \A i \in DOMAIN s : s[i] \in Methods
        /\ originals \in Handles
    BY <1>1, PatchNotes
  <2> QED
    BY <2>1
<1>7. methods \in [Methods -> Nat] /\ own \in SUBSET Methods
  BY <1>1, <1>5, <1>6
<1>8. CASE Present(s) # {} /\ RefusedAt(s) = {}
  <2>1. PICK handles, cleanups :
           handles = Append(run.handles, originals) /\ cleanups = Append(run.cleanups, Len(run.handles) + 1)
    OBVIOUS
  <2>2. /\ handles \in Seq(Handles) /\ DOMAIN handles = 1..Len(run.handles) + 1
    BY <1>5, <1>6, <2>1, AppendProperties, LenProperties
  <2>3. /\ cleanups \in Seq(Nat) /\ DOMAIN cleanups = 1..Len(run.cleanups) + 1
        /\ \A k \in 1..Len(run.cleanups) : cleanups[k] = run.cleanups[k]
        /\ cleanups[Len(run.cleanups) + 1] = Len(run.handles) + 1
    BY <1>5, <2>1, AppendProperties, LenProperties
  <2>4. Owned(handles, cleanups)
    <3>1. ASSUME NEW k \in 1..Len(run.cleanups) PROVE cleanups[k] \in DOMAIN handles
      <4>1. cleanups[k] \in 1..Len(run.handles)
        BY <1>4, <1>5, <2>3 DEF Owned
      <4> QED
        BY <1>5, <2>2, <4>1
    <3>2. cleanups[Len(run.cleanups) + 1] \in DOMAIN handles
      BY <1>5, <2>2, <2>3
    <3>3. ASSUME NEW k \in DOMAIN cleanups PROVE k \in 1..Len(run.cleanups) \/ k = Len(run.cleanups) + 1
      BY <1>5, <2>3
    <3> QED
      BY <3>1, <3>2, <3>3 DEF Owned
  <2>5. /\ run'.session = run.session /\ run'.phase = run.phase /\ run'.cleanups = cleanups
        /\ run'.methods = methods /\ run'.own = own /\ run'.handles = handles /\ run'.stuck = run.stuck
        /\ run' \in PatchForm
    <3>1. run' = [run EXCEPT !.methods = methods, !.own = own, !.handles = handles, !.cleanups = cleanups]
      BY <1>3, <1>8, <2>1
    <3> QED
      BY <1>4, <1>7, <2>2, <2>3, <3>1 DEF PatchForm
  <2>6. ASSUME ~run.stuck PROVE Wrapped(methods, own, handles, run.session) /\ Pending(handles, cleanups)
    BY <1>1, <1>4, <1>8, <2>1, <2>6, AcceptedPatch
  <2>7. Owned(run.handles, run.cleanups)'
    BY <2>4, <2>5 DEF Owned
  <2>8. ~run'.stuck => Wrapped(run.methods, run.own, run.handles, run.session)' /\ Pending(run.handles, run.cleanups)'
    BY <1>4, <2>5, <2>6 DEF Wrapped, Pending, Noting
  <2> QED
    BY <1>4, <2>5, <2>7, <2>8 DEF PatchInv
<1>9. CASE ~(Present(s) # {} /\ RefusedAt(s) = {})
  <2>1. PICK stuck : stuck = (run.stuck \/ back.raised)
    OBVIOUS
  <2>2. back.methods \in [Methods -> Nat] /\ back.own \in SUBSET Methods /\ back.raised \in BOOLEAN
    <3>1. Closing(methods, own, originals, back)
      BY <1>2 DEF Closing
    <3> QED
      BY <1>6, <1>7, <3>1, CloseTypes
  <2>3. stuck \in BOOLEAN /\ (~stuck => ~run.stuck /\ ~back.raised)
    BY <2>1
  <2>4. PICK genuine, had : genuine = back.methods /\ had = back.own
    OBVIOUS
  <2>5. /\ run'.session = run.session /\ run'.phase = run.phase /\ run'.cleanups = run.cleanups
        /\ run'.methods = genuine /\ run'.own = had /\ run'.handles = run.handles /\ run'.stuck = stuck
        /\ run' \in PatchForm
    <3>1. run' = [run EXCEPT !.methods = genuine, !.own = had, !.stuck = stuck]
      BY <1>3, <1>9, <2>1, <2>4
    <3> QED
      BY <1>4, <2>2, <2>3, <2>4, <3>1 DEF PatchForm
  <2>6. ASSUME ~stuck
        PROVE  genuine = run.methods /\ had = run.own /\ Wrapped(run.methods, run.own, run.handles, run.session)
               /\ Pending(run.handles, run.cleanups)
    <3>1. ~run.stuck /\ ~back.raised
      BY <2>3, <2>6
    <3>2. PICK after : after = [methods |-> methods, own |-> own]
      OBVIOUS
    <3>3. back = Close(after, originals)
      BY <1>2, <3>2
    <3>4. after = [methods |-> [m \in Methods |-> IF m \in {s[i] : i \in Installed(s)}
                                                   THEN run.session ELSE run.methods[m]],
                   own |-> run.own \union {s[i] : i \in Installed(s)}]
      BY <1>1, <3>2
    <3>5. back.methods = run.methods /\ back.own = run.own
      BY <1>1, <3>1, <3>3, <3>4, RejectedPatch
    <3> QED
      BY <2>4, <3>1, <3>5 DEF PatchInv
  <2>7. Owned(run.handles, run.cleanups)'
    BY <1>4, <2>5 DEF Owned
  <2>8. ~run'.stuck => Wrapped(run.methods, run.own, run.handles, run.session)' /\ Pending(run.handles, run.cleanups)'
    BY <1>4, <2>5, <2>6 DEF Wrapped, Pending, Noting
  <2> QED
    BY <1>4, <2>5, <2>7, <2>8 DEF PatchInv
<1> QED
  BY <1>8, <1>9

LEMMA PatchStart == ASSUME PatchInit PROVE PatchInv
<1>1. /\ job.tool = "patch" /\ job.own \subseteq Methods
      /\ run = [session |-> 0, phase |-> "none", methods |-> [m \in Methods |-> 0], own |-> job.own,
                handles |-> <<>>, cleanups |-> <<>>, stuck |-> FALSE]
  BY DEF PatchInit
<1>2. PICK methods : methods = [m \in Methods |-> 0]
  OBVIOUS
<1>3. methods \in [Methods -> Nat] /\ <<>> \in Seq(Handles) /\ <<>> \in Seq(Nat)
  BY <1>2
<1>4. /\ run.phase = "none" /\ run.methods = methods /\ run.own = job.own /\ run.handles = <<>>
      /\ run.cleanups = <<>> /\ run \in PatchForm
  <2>1. run = [session |-> 0, phase |-> "none", methods |-> methods, own |-> job.own,
               handles |-> <<>>, cleanups |-> <<>>, stuck |-> FALSE]
    BY <1>1, <1>2
  <2> QED
    BY <1>1, <1>3, <2>1 DEF PatchForm
<1>5. Wrapped(methods, job.own, <<>>, run.session)
  BY <1>2 DEF Wrapped, Noting
<1>6. Pending(<<>>, <<>>) /\ Owned(<<>>, <<>>)
  BY DEF Pending, Owned
<1> QED
  BY <1>1, <1>4, <1>5, <1>6 DEF PatchInv

\* Between the calls of the code a client is patched by the open session only, and
\* without one it is what it was (ProviderPatches!PatchesRestored), for every number
\* of methods, surfaces, handles and sessions.
THEOREM PatchesUndone == PatchSpec => []PatchesRestored
<1>1. PatchInit => PatchInv
  BY PatchStart
<1>2. PatchInv /\ [PatchNext]_toolVars => PatchInv'
  <2> SUFFICES ASSUME PatchInv, [PatchNext]_toolVars PROVE PatchInv'
    OBVIOUS
  <2>1. CASE EnterSession
    BY <2>1, EnterStep
  <2>2. CASE ExitCleanup
    BY <2>2, CleanupStep
  <2>3. CASE ExitSession
    BY <2>3, ExitStep
  <2>4. ASSUME NEW s \in Surfaces, PatchClient(s) PROVE PatchInv'
    BY <2>4, PatchClientStep
  <2>5. ASSUME NEW h \in 1..MaxPatches, CloseHandle(h) PROVE PatchInv'
    BY <2>5, CloseHandleStep
  <2>6. CASE UNCHANGED toolVars
    BY <2>6 DEF toolVars, PatchInv, Wrapped, Pending, Owned, Noting
  <2> QED
    BY <2>1, <2>2, <2>3, <2>4, <2>5, <2>6 DEF PatchNext
<1>3. PatchInv => PatchesRestored
  <2> SUFFICES ASSUME PatchInv, ~run.stuck PROVE PatchesRestored
    BY DEF PatchesRestored
  <2>1. Wrapped(run.methods, run.own, run.handles, run.session) /\ run.methods \in [Methods -> Nat]
    BY PatchTypes DEF PatchInv
  <2>2. ASSUME run.phase = "none"
        PROVE  \A m \in Methods : run.methods[m] = 0 /\ (m \in run.own <=> m \in job.own)
    <3>1. run.cleanups = <<>>
      BY <2>2 DEF PatchInv
    <3> QED
      BY <3>1, NothingPending
  <2>3. ASSUME run.phase = "none" PROVE run.methods = [m \in Methods |-> 0] /\ run.own = job.own
    <3>1. run.own \subseteq Methods /\ job.own \subseteq Methods
      BY PatchTypes DEF PatchInv
    <3> QED
      BY <2>1, <2>2, <2>3, <3>1
  <2> DEFINE holders(m) == {h \in DOMAIN run.handles : \E i \in DOMAIN run.handles[h] :
                               run.handles[h][i].method = m}
  <2>4. ASSUME NEW m \in Methods, run.methods[m] = 0
        PROVE  holders(m) = {} /\ (m \in run.own <=> m \in job.own)
    BY <2>1, <2>4 DEF Wrapped, Noting
  <2>5. ASSUME NEW m \in Methods, run.methods[m] # 0
        PROVE  run.phase # "none" /\ run.methods[m] = run.session /\ Cardinality(holders(m)) = 1
    <3>1. run.methods[m] = run.session /\ Noting(run.handles, m)
      BY <2>1, <2>5 DEF Wrapped
    <3>2. PICK h \in DOMAIN run.handles : \E i \in DOMAIN run.handles[h] : run.handles[h][i].method = m
      BY <3>1 DEF Noting
    <3>3. \A g \in holders(m) : g = h
      BY <2>1, <3>2 DEF Wrapped
    <3>4. holders(m) = {h}
      BY <3>2, <3>3
    <3> HIDE DEF holders
    <3>5. Cardinality(holders(m)) = 1
      BY <3>4, FS_Singleton
    <3> QED
      BY <2>2, <2>5, <3>1, <3>5
  <2> HIDE DEF holders
  <2>6. \A m \in Methods : IF run.methods[m] = 0 THEN holders(m) = {} /\ (m \in run.own <=> m \in job.own)
                           ELSE run.phase # "none" /\ run.methods[m] = run.session /\ Cardinality(holders(m)) = 1
    BY <2>4, <2>5
  <2> QED
    BY <2>3, <2>6 DEF PatchesRestored, holders
<1> QED
  BY <1>1, <1>2, <1>3, PTL DEF PatchSpec

-----------------------------------------------------------------------------
(* Drift detection (Drift).                                                *)

DriftSpec == DriftInit /\ [][DriftNext]_toolVars

\* What a command sees as drift.
Differs(base, current) ==
    \/ current.model # base.model
    \/ current.embedding # base.embedding /\ base.model # NoValue
    \/ current.output \notin {base.output, base.output + 20}
    \/ current.items # base.items

Seen == Snapshots \union Baselines
Prints == {NoValue} \union {CompareSnapshots(b, s) : b \in Baselines, s \in Seen}

DriftForm ==
    [pc : {"idle", "emitting", "recording"}, now : Int, left : Int,
     alert : [print : Prints, at : Int \union {NoValue}], saved : Prints, seen : Prints,
     current : Seen, exit : {-1, 0, 2}, cut : BOOLEAN]

\* The report file and the alert state hold the same fingerprint, except between the
\* two writes of a command and after one that was killed there.
DriftInv ==
    /\ job.tool = "drift" /\ job.base \in Baselines /\ run \in DriftForm
    /\ run.exit # -1 => (run.exit = 2 <=> Differs(job.base, run.current))
    /\ run.pc # "recording" /\ ~run.cut => run.alert.print = run.saved
    /\ run.pc = "recording" => run.saved = run.seen /\ ~run.cut
    /\ run.pc = "idle" /\ run.exit # -1 /\ ~run.cut => run.seen \in {NoValue, run.saved}

LEMMA Overlap ==
    /\ ListDistance({1}, {1}) = 0
    /\ ListDistance({1}, {1, 2}) = 5
<1>1. {1} \intersect {1, 2} = {1} /\ {1} \union {1, 2} = {1, 2} /\ {1} # {1, 2}
  OBVIOUS
<1>2. Cardinality({1}) = 1
  BY FS_Singleton
<1>3. Cardinality({1, 2}) = 2
  <2>1. {1, 2} = {1} \union {2} /\ 2 \notin {1}
    OBVIOUS
  <2>2. IsFiniteSet({1})
    BY FS_Singleton
  <2>3. Cardinality({1} \union {2}) = Cardinality({1}) + 1
    BY <2>1, <2>2, FS_AddElement
  <2> QED
    BY <1>2, <2>1, <2>3
<1>4. ListDistance({1}, {1, 2}) = 10 - (10 * 1) \div 2
  BY <1>1, <1>2, <1>3 DEF ListDistance
<1>5. (10 * 1) \div 2 = 5
  OBVIOUS
<1> QED
  BY <1>4, <1>5 DEF ListDistance

\* A finding is a change exactly where the snapshots differ in what it measures.
LEMMA DriftExact ==
    ASSUME NEW base \in Baselines, NEW current \in Seen
    PROVE  HasDrift(CompareSnapshots(base, current)) <=> Differs(base, current)
<1>1. NoValue # 1 /\ NoValue # 2 /\ NoValue # 11 /\ NoValue # 21
  BY DriftAssumption DEF DriftAssumption
<1>2. /\ base.model \in {1, NoValue} /\ base.prompt = 1 /\ base.embedding = 1 /\ base.output = 1 /\ base.items = {1}
  BY DEF Baselines, Snapshot
<1>3. /\ current.prompt = 1 /\ current.model \in {1, 2, NoValue} /\ current.embedding \in {1, 2}
      /\ current.output \in {1, 11, 21} /\ current.items \in {{1}, {1, 2}}
  BY DEF Seen, Baselines, Snapshots, Snapshot
<1>4. \A kind, old, new : Hashed(kind, old, new).changed <=> old # new
  <2>1. \A k, c, d : [kind |-> k, changed |-> c, detail |-> d].changed = c
    OBVIOUS
  <2> QED
    BY <2>1, Zenon DEF Hashed
<1> DEFINE model == Given(base.model) \/ Given(current.model)
           prompts == IF Given(base.prompt) \/ Given(current.prompt)
                      THEN {Hashed("prompt", base.prompt, current.prompt)} ELSE {}
           models == IF model THEN {Hashed("model", <<base.model, base.embedding>>,
                                           <<current.model, current.embedding>>)} ELSE {}
           outputs == IF Given(base.output) \/ Given(current.output)
                      THEN {Measured("output", TextDistance(base.output, current.output), OutputThreshold)} ELSE {}
           lists == IF base.items # {} \/ current.items # {}
                    THEN {Measured("retrieval", ListDistance(base.items, current.items), RetrievalThreshold)} ELSE {}
<1>5. CompareSnapshots(base, current) = prompts \union models \union outputs \union lists
  BY DEF CompareSnapshots
<1>6. HasDrift(prompts \union models \union outputs \union lists) <=>
         HasDrift(prompts) \/ HasDrift(models) \/ HasDrift(outputs) \/ HasDrift(lists)
  BY DEF HasDrift
<1>7. ~HasDrift(prompts)
  <2>1. prompts = {Hashed("prompt", 1, 1)} \/ prompts = {}
    BY <1>2, <1>3
  <2> HIDE DEF prompts
  <2>2. ~Hashed("prompt", 1, 1).changed
    BY <1>4
  <2> QED
    BY <2>1, <2>2 DEF HasDrift
<1>8. HasDrift(models) <=>
         current.model # base.model \/ (current.embedding # base.embedding /\ base.model # NoValue)
  <2> DEFINE old == <<base.model, base.embedding>>
             new == <<current.model, current.embedding>>
             f == Hashed("model", old, new)
  <2>1. f.changed <=> old # new
    BY <1>4
  <2>2. old # new <=> base.model # current.model \/ base.embedding # current.embedding
    OBVIOUS
  <2>3. models = IF model THEN {f} ELSE {}
    OBVIOUS
  <2>4. model <=> base.model # NoValue \/ current.model # NoValue
    BY DEF Given
  <2> HIDE DEF old, new, f, model, models
  <2>5. HasDrift(models) <=> model /\ f.changed
    BY <2>3 DEF HasDrift
  <2> QED
    BY <2>1, <2>2, <2>4, <2>5
<1>9. HasDrift(outputs) <=> current.output = 11
  <2>1. outputs = {Measured("output", TextDistance(1, current.output), 2)}
    BY <1>1, <1>2 DEF Given, OutputThreshold
  <2>2. TextDistance(1, current.output) = IF current.output = 11 THEN 3 ELSE IF current.output = 21 THEN 1 ELSE 0
    BY <1>1, <1>3 DEF TextDistance, Given
  <2>3. \A d \in Int : Measured("output", d, 2).changed <=> d >= 2
    BY DEF Measured
  <2> HIDE DEF outputs
  <2>4. HasDrift(outputs) <=> Measured("output", TextDistance(1, current.output), 2).changed
    BY <2>1 DEF HasDrift
  <2> QED
    BY <1>3, <2>2, <2>3, <2>4
<1>10. HasDrift(lists) <=> current.items = {1, 2}
  <2>1. lists = {Measured("retrieval", ListDistance({1}, current.items), 4)}
    BY <1>2 DEF RetrievalThreshold
  <2>2. ListDistance({1}, current.items) = IF current.items = {1, 2} THEN 5 ELSE 0
    BY <1>3, Overlap
  <2>3. \A d \in Int : Measured("retrieval", d, 4).changed <=> d >= 4
    BY DEF Measured
  <2> HIDE DEF lists
  <2>4. HasDrift(lists) <=> Measured("retrieval", ListDistance({1}, current.items), 4).changed
    BY <2>1 DEF HasDrift
  <2> QED
    BY <2>2, <2>3, <2>4
<1> HIDE DEF prompts, models, outputs, lists
<1>11. {1} # {1, 2}
  OBVIOUS
<1>12. (current.output \notin {base.output, base.output + 20}) <=> current.output = 11
  BY <1>2, <1>3
<1>13. current.items # base.items <=> current.items = {1, 2}
  BY <1>2, <1>3, <1>11
<1> QED
  BY <1>5, <1>6, <1>7, <1>8, <1>9, <1>10, <1>12, <1>13 DEF Differs

LEMMA CompareStep ==
    ASSUME DriftInv, NEW ticks \in {0, Cooldown}, NEW s \in Snapshots, Compare(s, ticks) PROVE DriftInv'
<1>1. PICK findings, now, exit, pc :
         /\ findings = CompareSnapshots(job.base, s) /\ now = run.now + ticks
         /\ exit = IF HasDrift(findings) THEN 2 ELSE 0
         /\ pc = IF ShouldEmit(findings, run.alert, now, job.onlyOnChange) THEN "emitting" ELSE "idle"
  OBVIOUS
<1>2. /\ job' = job /\ run.pc = "idle"
      /\ run' = [run EXCEPT !.now = now, !.left = run.left - 1, !.seen = findings, !.current = s,
                            !.exit = exit, !.pc = pc]
  BY <1>1 DEF Compare, Waiting
<1>3. run \in DriftForm /\ job.tool = "drift" /\ job.base \in Baselines
  BY DEF DriftInv
<1>4. findings \in Prints /\ s \in Seen
  BY <1>1, <1>3 DEF Prints, Seen
<1>5. now \in Int /\ run.left - 1 \in Int
  BY <1>1, <1>3, DriftAssumption DEF DriftAssumption, DriftForm
<1>6. exit \in {0, 2} /\ pc \in {"idle", "emitting"} /\ (exit = 2 <=> Differs(job.base, s))
  BY <1>1, <1>3, <1>4, DriftExact
<1>7. pc = "idle" => run.alert.print = findings
  BY <1>1 DEF ShouldEmit
<1>8. /\ run'.now = now /\ run'.seen = findings /\ run'.current = s /\ run'.exit = exit /\ run'.pc = pc
      /\ run'.alert = run.alert /\ run'.saved = run.saved /\ run'.cut = run.cut /\ run' \in DriftForm
  BY <1>2, <1>3, <1>4, <1>5, <1>6 DEF DriftForm
<1>9. ~run.cut => run.alert.print = run.saved
  BY <1>2 DEF DriftInv
<1> QED
  BY <1>2, <1>3, <1>6, <1>7, <1>8, <1>9 DEF DriftInv, Differs

LEMMA WriteStep ==
    ASSUME DriftInv, SaveReport \/ SaveAlertState \/ DriftKilled PROVE DriftInv'
<1>1. run \in DriftForm /\ job.tool = "drift" /\ job.base \in Baselines
  BY DEF DriftInv
<1>2. CASE SaveReport
  <2>1. job' = job /\ run' = [run EXCEPT !.saved = run.seen, !.pc = "recording", !.cut = FALSE]
    BY <1>2 DEF SaveReport
  <2>2. /\ run'.saved = run.seen /\ run'.pc = "recording" /\ run'.cut = FALSE /\ run'.seen = run.seen
        /\ run'.exit = run.exit /\ run'.current = run.current /\ run' \in DriftForm
    BY <1>1, <2>1 DEF DriftForm
  <2> QED
    BY <1>1, <2>1, <2>2 DEF DriftInv, Differs
<1>3. CASE SaveAlertState
  <2>1. PICK alert : alert = [print |-> run.seen, at |-> run.now]
    OBVIOUS
  <2>2. job' = job /\ run.pc = "recording" /\ run' = [run EXCEPT !.alert = alert, !.pc = "idle"]
    BY <1>3, <2>1 DEF SaveAlertState, Waiting
  <2>3. alert.print = run.seen /\ alert \in [print : Prints, at : Int \union {NoValue}]
    BY <1>1, <2>1 DEF DriftForm
  <2>4. /\ run'.saved = run.saved /\ run'.pc = "idle" /\ run'.cut = run.cut /\ run'.seen = run.seen
        /\ run'.exit = run.exit /\ run'.current = run.current /\ run'.alert = alert /\ run' \in DriftForm
    BY <1>1, <2>2, <2>3 DEF DriftForm
  <2> QED
    BY <1>1, <2>2, <2>3, <2>4 DEF DriftInv, Differs
<1>4. CASE DriftKilled
  <2>1. PICK cut : cut = (run.pc = "recording" \/ run.cut)
    OBVIOUS
  <2>2. job' = job /\ run' = [run EXCEPT !.pc = "idle", !.exit = -1, !.cut = cut]
    BY <1>4, <2>1 DEF DriftKilled
  <2>3. cut \in BOOLEAN /\ (~cut => run.pc # "recording" /\ ~run.cut)
    BY <2>1
  <2>4. /\ run'.saved = run.saved /\ run'.pc = "idle" /\ run'.cut = cut
        /\ run'.exit = -1 /\ run'.alert = run.alert /\ run' \in DriftForm
    BY <1>1, <2>2, <2>3 DEF DriftForm
  <2> QED
    BY <1>1, <2>2, <2>3, <2>4 DEF DriftInv
<1> QED
  BY <1>2, <1>3, <1>4

\* What a compare command saw is in the report file unless a command was killed
\* between its two writes, and its exit status says whether the snapshots differ
\* (Drift!DriftReported), for any number of commands and any cooldown.
THEOREM DriftHolds == DriftSpec => []DriftReported
<1>1. DriftInit => DriftInv
  <2> SUFFICES ASSUME DriftInit PROVE DriftInv
    OBVIOUS
  <2>1. /\ job.tool = "drift" /\ job.base \in Baselines
        /\ run = [pc |-> "idle", now |-> 0, left |-> DriftRuns, alert |-> Fresh, saved |-> NoValue,
                  seen |-> NoValue, current |-> job.base, exit |-> 0, cut |-> FALSE]
    BY DEF DriftInit
  <2>2. job.base \in Seen /\ NoValue \in Prints /\ DriftRuns \in Int
    BY <2>1, DriftAssumption DEF DriftAssumption, Seen, Prints
  <2>3. Fresh \in [print : Prints, at : Int \union {NoValue}] /\ Fresh.print = NoValue
    BY <2>2 DEF Fresh
  <2>4. run \in DriftForm
    BY <2>1, <2>2, <2>3 DEF DriftForm
  <2>5. ~Differs(job.base, job.base)
    BY DEF Differs
  <2>6. /\ run.exit = 0 /\ run.current = job.base /\ run.pc = "idle" /\ run.alert.print = run.saved
        /\ run.seen = NoValue
    BY <2>1, <2>3
  <2> QED
    BY <2>1, <2>4, <2>5, <2>6 DEF DriftInv
<1>2. DriftInv /\ [DriftNext]_toolVars => DriftInv'
  <2> SUFFICES ASSUME DriftInv, [DriftNext]_toolVars PROVE DriftInv'
    OBVIOUS
  <2>1. ASSUME NEW ticks \in {0, Cooldown}, NEW s \in Snapshots, Compare(s, ticks) PROVE DriftInv'
    BY <2>1, CompareStep
  <2>2. CASE SaveReport \/ SaveAlertState \/ DriftKilled
    BY <2>2, WriteStep
  <2>3. CASE UNCHANGED toolVars
    BY <2>3 DEF toolVars, DriftInv, Differs
  <2> QED
    BY <2>1, <2>2, <2>3 DEF DriftNext
<1>3. DriftInv => DriftReported
  BY DEF DriftInv, DriftReported, Differs
<1> QED
  BY <1>1, <1>2, <1>3, PTL DEF DriftSpec

-----------------------------------------------------------------------------
(* Topologies.                                                             *)

TopologySpec == TopologyInit /\ [][TopologyNext]_toolVars

\* What a driver looks at: the trackers of these stages, made from its stage First
\* on until it takes one at its stage TakeAt (a trial takes none).
Looked(d) ==
    CASE d = "agent" -> UserStages
      [] d \in Tests -> {"target", "during", "post"}
      [] OTHER -> {"target", "during"}
First(d) == CASE d = "agent" -> 1 [] d \in {"api", "step", "plugin"} -> 3 [] OTHER -> 2
TargetAt(d) == IF d \in {"api", "step", "plugin"} THEN 3 ELSE 2
TakeAt(d) ==
    CASE d \in {"api", "step", "agent"} -> 5 [] d = "plugin" -> 7 [] d = "baseline" -> 4
      [] d = "fuzz" -> 3 [] d = "trial" -> 2

\* The driver of a state, and the stage it is at.
DriverOf(r) == job.drivers[r.number]
AtStage(r, p) ==
    LET stages == Stages(DriverOf(r))
    IN  /\ p \in 1..Len(stages) /\ Len(r.todo) = Len(stages) - p + 1
        /\ \A k \in 1..Len(r.todo) : r.todo[k] = stages[p + k - 1]

\* Contexts of a run, what each had when the driver began to look, and the trackers
\* made in each since.
Contexts(r) == IF DriverOf(r) \in Tests THEN {"main", "task"} ELSE {"main"}
TargetContext(r) == IF DriverOf(r) \in Tests /\ job.tests # "plain" THEN "task" ELSE "main"
Base(r, c) == IF DriverOf(r) \in Tests THEN r.before[c] ELSE NoTracker
MadeIn(r, t, stages) == r.made[t].run = r.number /\ r.made[t].stage \in stages
Mine(r, c) == {t \in DOMAIN r.made : MadeIn(r, t, Looked(DriverOf(r))) /\ r.made[t].context = c}

StageNames == {"pre", "note", "reset", "target", "bind", "during", "take", "post"}
TrackerType ==
    [run : Nat, stage : StageNames \union {"before"}, context : {"main", "task"}, token : Int, nodes : [Agents -> Nat]]
ReportType == [tracker : Nat, attached : BOOLEAN, left : Nat, nodes : {<<>>} \union [Agents -> Nat]]
RunType ==
    [number : Nat, todo : Seq(StageNames), made : Seq(TrackerType),
     active : [{"main", "task"} -> Nat], before : [{"main", "task"} -> Nat],
     handle : Nat, attached : BOOLEAN, left : Nat, report : {NoValue} \union ReportType]

\* Numbers are of runs and trackers there are; a node was registered by a run that the
\* tracker was made for, or by a later one.
TrackerOK(r, t) ==
    /\ r.made[t].run <= r.number
    /\ r.made[t].token # Used => r.made[t].token \in 0..Len(r.made)
    /\ \A a \in Agents : r.made[t].nodes[a] # Unregistered => r.made[t].nodes[a] \in r.made[t].run..r.number
TrackersOK(r) ==
    /\ r \in RunType /\ r.number \in 1..Len(job.drivers)
    /\ \A t \in DOMAIN r.made : TrackerOK(r, t)
    /\ \A c \in {"main", "task"} : r.active[c] <= Len(r.made) /\ r.before[c] <= Len(r.made)
    /\ r.handle <= Len(r.made) /\ r.left <= Len(r.made)

\* Stages that have not begun have made no tracker.
Passed(r, p) ==
    \A t \in DOMAIN r.made :
        r.made[t].run = r.number => \E q \in 1..p : r.made[t].stage = Stages(DriverOf(r))[q]

\* While the driver looks, what is active in a context, and what its trackers give
\* back, is what was active at first or a tracker made since.
Looking(r) ==
    /\ \A c \in Contexts(r) : r.active[c] \in {Base(r, c)} \union Mine(r, c) /\ Base(r, c) \notin Mine(r, c)
    /\ \A t \in DOMAIN r.made : MadeIn(r, t, Looked(DriverOf(r))) =>
          /\ r.made[t].context \in Contexts(r)
          /\ r.made[t].token \in {Used, Base(r, r.made[t].context)} \union Mine(r, r.made[t].context)
          /\ r.made[t].stage = "target" => r.made[t].context = TargetContext(r)
          /\ r.made[t].stage # "target" => r.made[t].context = "main"

\* After the target, what it left active is still active, or is the handle.
Replaced(r) == \E t \in DOMAIN r.made : MadeIn(r, t, Looked(DriverOf(r)) \ {"pre", "target"})
LeftOver(r, p) ==
    /\ TargetContext(r) = "main" /\ ~Replaced(r) => r.active["main"] = r.left
    /\ TargetContext(r) = "task" /\ p = TargetAt(DriverOf(r)) + 1 => r.active["task"] = r.left
    /\ r.left \in {Base(r, TargetContext(r))} \union Mine(r, TargetContext(r))

\* The handle of a test that attached none.
Bound(r, p) ==
    DriverOf(r) \in Tests /\ ~r.attached =>
        r.handle = IF /\ p > TargetAt(DriverOf(r)) + 1 /\ job.tests = "bound"
                      /\ r.left \notin {NoTracker, r.before["task"]}
                   THEN r.left ELSE NoTracker

InPlace(r, p) ==
    /\ Passed(r, p)
    /\ p \in First(DriverOf(r))..TakeAt(DriverOf(r)) => Looking(r) /\ Bound(r, p)
    /\ p \in (TargetAt(DriverOf(r)) + 1)..TakeAt(DriverOf(r)) => LeftOver(r, p)
    /\ p <= TakeAt(DriverOf(r)) => r.report = NoValue

\* What a report shows (Topology!OwnTopology).
Shows(r) ==
    r.report # NoValue /\ ~r.report.attached =>
        /\ r.report.tracker # NoTracker =>
              /\ MadeIn(r, r.report.tracker, Looked(DriverOf(r)))
              /\ \A a \in Agents : r.report.nodes[a] \in {Unregistered, r.number}
        /\ r.report.left # NoTracker /\ MadeIn(r, r.report.left, {"target"}) /\ ~Replaced(r)
             /\ (DriverOf(r) \in Tests => job.tests # "copied") => r.report.tracker = r.report.left
Reported(r) ==
    /\ r.report # NoValue => r.report.tracker <= Len(r.made) /\ r.report.left <= Len(r.made)
    /\ Shows(r)

\* A plugin's test that was interrupted only has its task unbound.
Cut(r) == DriverOf(r) = "plugin" /\ r.todo = <<"bind">> /\ r.report = NoValue
TopologyInv(r) ==
    /\ TrackersOK(r) /\ Reported(r)
    /\ (r.todo = <<>> \/ Cut(r) \/ \E p \in 1..7 : AtStage(r, p) /\ InPlace(r, p))

\* What the stages of a driver have to do with where it looks.
InTime(d, p) ==
    LET stage == Stages(d)[p]
    IN  /\ stage = "target" <=> p = TargetAt(d)
        /\ stage = "take" => p = TakeAt(d)
        /\ stage = "note" => d \in Tests /\ p + 1 = First(d)
        /\ stage = "reset" => d \notin Tests /\ (p + 1 = First(d) \/ p > TakeAt(d))
        /\ stage = "bind" => d \in Tests /\ p = TargetAt(d) + 1
        /\ d \in Tests /\ p = TargetAt(d) + 1 => stage = "bind"
        /\ stage \in UserStages => (stage \in Looked(d) <=> p \in First(d)..TakeAt(d))
        /\ stage \in UserStages => (stage \in Looked(d) \ {"pre", "target"} <=> p \in (TargetAt(d) + 1)..TakeAt(d))
        /\ stage \in UserStages => p + 1 # First(d)
        /\ stage \in Looked(d) => p >= First(d)
        /\ d = "agent" => First(d) = 1 /\ d \notin Tests /\ (p = Len(Stages(d)) => stage = "reset")
        /\ d # "agent" => First(d) > 1

-----------------------------------------------------------------------------
LEMMA Timetable ==
    ASSUME NEW d \in DriverKinds, NEW n, n = Len(Stages(d))
    PROVE  /\ Stages(d) \in Seq(StageNames) /\ n \in 3..7
           /\ First(d) \in 1..3 /\ First(d) <= TargetAt(d) /\ TargetAt(d) \in 2..3 /\ TakeAt(d) \in TargetAt(d)..n
           /\ \A p \in 1..n : InTime(d, p)
<1> DEFINE Fits == /\ Stages(d) \in Seq(StageNames) /\ n \in 3..7
                   /\ First(d) \in 1..3 /\ First(d) <= TargetAt(d) /\ TargetAt(d) \in 2..3 /\ TakeAt(d) \in TargetAt(d)..n
                   /\ \A p \in 1..n : InTime(d, p)
<1>1. CASE d = "api"
  <2>1. Stages(d) = <<"pre", "reset", "target", "during", "take", "reset", "post">>
    BY <1>1 DEF Stages
  <2>2. n = 7 /\ Len(Stages(d)) = n
    BY <1>1, <2>1
  <2>5. Stages(d) \in Seq(StageNames)
    <3>1. \A p \in 1..n : Stages(d)[p] \in StageNames
      BY <2>1, <2>2 DEF StageNames
    <3>2. Stages(d) = [p \in 1..n |-> Stages(d)[p]]
      BY <2>1, <2>2
    <3> QED
      BY <2>2, <3>1, <3>2, SeqDef
  <2>3. First(d) = 3 /\ TargetAt(d) = 3 /\ TakeAt(d) = 5 /\ Looked(d) = {"target", "during"} /\ (d \in Tests <=> FALSE)
    BY <1>1 DEF First, TargetAt, TakeAt, Looked, Tests, UserStages
  <2>4. \A p \in 1..n : InTime(d, p)
    BY <1>1, <2>1, <2>2, <2>3 DEF InTime, UserStages
  <2> QED
    BY <2>2, <2>3, <2>4, <2>5
<1>2. CASE d = "step"
  <2>1. Stages(d) = <<"pre", "reset", "target", "during", "take", "reset">>
    BY <1>2 DEF Stages
  <2>2. n = 6 /\ Len(Stages(d)) = n
    BY <1>2, <2>1
  <2>5. Stages(d) \in Seq(StageNames)
    <3>1. \A p \in 1..n : Stages(d)[p] \in StageNames
      BY <2>1, <2>2 DEF StageNames
    <3>2. Stages(d) = [p \in 1..n |-> Stages(d)[p]]
      BY <2>1, <2>2
    <3> QED
      BY <2>2, <3>1, <3>2, SeqDef
  <2>3. First(d) = 3 /\ TargetAt(d) = 3 /\ TakeAt(d) = 5 /\ Looked(d) = {"target", "during"} /\ (d \in Tests <=> FALSE)
    BY <1>2 DEF First, TargetAt, TakeAt, Looked, Tests, UserStages
  <2>4. \A p \in 1..n : InTime(d, p)
    BY <1>2, <2>1, <2>2, <2>3 DEF InTime, UserStages
  <2> QED
    BY <2>2, <2>3, <2>4, <2>5
<1>3. CASE d = "agent"
  <2>1. Stages(d) = <<"pre", "target", "during", "post", "take", "reset">>
    BY <1>3 DEF Stages
  <2>2. n = 6 /\ Len(Stages(d)) = n
    BY <1>3, <2>1
  <2>5. Stages(d) \in Seq(StageNames)
    <3>1. \A p \in 1..n : Stages(d)[p] \in StageNames
      BY <2>1, <2>2 DEF StageNames
    <3>2. Stages(d) = [p \in 1..n |-> Stages(d)[p]]
      BY <2>1, <2>2
    <3> QED
      BY <2>2, <3>1, <3>2, SeqDef
  <2>3. First(d) = 1 /\ TargetAt(d) = 2 /\ TakeAt(d) = 5 /\ Looked(d) = {"pre", "target", "during", "post"} /\ (d \in Tests <=> FALSE)
    BY <1>3 DEF First, TargetAt, TakeAt, Looked, Tests, UserStages
  <2>4. \A p \in 1..n : InTime(d, p)
    <3> SUFFICES ASSUME NEW p \in 1..6 PROVE InTime(d, p)
      BY <2>2
    <3>1. UserStages = Looked(d) /\ d \notin Tests /\ d = "agent"
      BY <1>3, <2>3 DEF UserStages
    <3>2. CASE p = 1
      <4>1. Stages(d)[p] = "pre"
        BY <2>1, <3>2
      <4> QED
        BY <2>2, <2>3, <3>1, <3>2, <4>1 DEF InTime
    <3>3. CASE p = 2
      <4>1. Stages(d)[p] = "target"
        BY <2>1, <3>3
      <4> QED
        BY <2>2, <2>3, <3>1, <3>3, <4>1 DEF InTime
    <3>4. CASE p = 3
      <4>1. Stages(d)[p] = "during"
        BY <2>1, <3>4
      <4> QED
        BY <2>2, <2>3, <3>1, <3>4, <4>1 DEF InTime
    <3>5. CASE p = 4
      <4>1. Stages(d)[p] = "post"
        BY <2>1, <3>5
      <4> QED
        BY <2>2, <2>3, <3>1, <3>5, <4>1 DEF InTime
    <3>6. CASE p = 5
      <4>1. Stages(d)[p] = "take"
        BY <2>1, <3>6
      <4> QED
        BY <2>2, <2>3, <3>1, <3>6, <4>1 DEF InTime
    <3>7. CASE p = 6
      <4>1. Stages(d)[p] = "reset"
        BY <2>1, <3>7
      <4> QED
        BY <2>2, <2>3, <3>1, <3>7, <4>1 DEF InTime
    <3> QED
      BY <3>2, <3>3, <3>4, <3>5, <3>6, <3>7
  <2> QED
    BY <2>2, <2>3, <2>4, <2>5
<1>4. CASE d = "plugin"
  <2>1. Stages(d) = <<"pre", "note", "target", "bind", "during", "post", "take">>
    BY <1>4 DEF Stages
  <2>2. n = 7 /\ Len(Stages(d)) = n
    BY <1>4, <2>1
  <2>5. Stages(d) \in Seq(StageNames)
    <3>1. \A p \in 1..n : Stages(d)[p] \in StageNames
      BY <2>1, <2>2 DEF StageNames
    <3>2. Stages(d) = [p \in 1..n |-> Stages(d)[p]]
      BY <2>1, <2>2
    <3> QED
      BY <2>2, <3>1, <3>2, SeqDef
  <2>3. First(d) = 3 /\ TargetAt(d) = 3 /\ TakeAt(d) = 7 /\ Looked(d) = {"target", "during", "post"} /\ (d \in Tests <=> TRUE)
    BY <1>4 DEF First, TargetAt, TakeAt, Looked, Tests, UserStages
  <2>4. \A p \in 1..n : InTime(d, p)
    BY <1>4, <2>1, <2>2, <2>3 DEF InTime, UserStages
  <2> QED
    BY <2>2, <2>3, <2>4, <2>5
<1>5. CASE d = "baseline"
  <2>1. Stages(d) = <<"note", "target", "bind", "take">>
    BY <1>5 DEF Stages
  <2>2. n = 4 /\ Len(Stages(d)) = n
    BY <1>5, <2>1
  <2>5. Stages(d) \in Seq(StageNames)
    <3>1. \A p \in 1..n : Stages(d)[p] \in StageNames
      BY <2>1, <2>2 DEF StageNames
    <3>2. Stages(d) = [p \in 1..n |-> Stages(d)[p]]
      BY <2>1, <2>2
    <3> QED
      BY <2>2, <3>1, <3>2, SeqDef
  <2>3. First(d) = 2 /\ TargetAt(d) = 2 /\ TakeAt(d) = 4 /\ Looked(d) = {"target", "during", "post"} /\ (d \in Tests <=> TRUE)
    BY <1>5 DEF First, TargetAt, TakeAt, Looked, Tests, UserStages
  <2>4. \A p \in 1..n : InTime(d, p)
    BY <1>5, <2>1, <2>2, <2>3 DEF InTime, UserStages
  <2> QED
    BY <2>2, <2>3, <2>4, <2>5
<1>6. CASE d = "fuzz"
  <2>1. Stages(d) = <<"reset", "target", "take", "reset">>
    BY <1>6 DEF Stages
  <2>2. n = 4 /\ Len(Stages(d)) = n
    BY <1>6, <2>1
  <2>5. Stages(d) \in Seq(StageNames)
    <3>1. \A p \in 1..n : Stages(d)[p] \in StageNames
      BY <2>1, <2>2 DEF StageNames
    <3>2. Stages(d) = [p \in 1..n |-> Stages(d)[p]]
      BY <2>1, <2>2
    <3> QED
      BY <2>2, <3>1, <3>2, SeqDef
  <2>3. First(d) = 2 /\ TargetAt(d) = 2 /\ TakeAt(d) = 3 /\ Looked(d) = {"target", "during"} /\ (d \in Tests <=> FALSE)
    BY <1>6 DEF First, TargetAt, TakeAt, Looked, Tests, UserStages
  <2>4. \A p \in 1..n : InTime(d, p)
    BY <1>6, <2>1, <2>2, <2>3 DEF InTime, UserStages
  <2> QED
    BY <2>2, <2>3, <2>4, <2>5
<1>7. CASE d = "trial"
  <2>1. Stages(d) = <<"reset", "target", "reset">>
    BY <1>7 DEF Stages
  <2>2. n = 3 /\ Len(Stages(d)) = n
    BY <1>7, <2>1
  <2>5. Stages(d) \in Seq(StageNames)
    <3>1. \A p \in 1..n : Stages(d)[p] \in StageNames
      BY <2>1, <2>2 DEF StageNames
    <3>2. Stages(d) = [p \in 1..n |-> Stages(d)[p]]
      BY <2>1, <2>2
    <3> QED
      BY <2>2, <3>1, <3>2, SeqDef
  <2>3. First(d) = 2 /\ TargetAt(d) = 2 /\ TakeAt(d) = 2 /\ Looked(d) = {"target", "during"} /\ (d \in Tests <=> FALSE)
    BY <1>7 DEF First, TargetAt, TakeAt, Looked, Tests, UserStages
  <2>4. \A p \in 1..n : InTime(d, p)
    BY <1>7, <2>1, <2>2, <2>3 DEF InTime, UserStages
  <2> QED
    BY <2>2, <2>3, <2>4, <2>5
<1> QED
  BY <1>1, <1>2, <1>3, <1>4, <1>5, <1>6, <1>7 DEF DriverKinds

JobOK == job \in TopologyJobs

LEMMA JobIs ==
    ASSUME JobOK
    PROVE  /\ job.tool = "topology" /\ job.tests \in {"plain", "bound", "copied"}
           /\ job.drivers \in Seq(DriverKinds) /\ Len(job.drivers) \in Nat \ {0}
           /\ \A i \in 1..Len(job.drivers) : job.drivers[i] \in DriverKinds
           /\ \A i, k \in 1..Len(job.drivers) : job.drivers[i] = "agent" => job.drivers[k] = "agent"
<1>1. /\ job.tool = "topology" /\ job.tests \in {"plain", "bound", "copied"}
      /\ job.drivers \in Seq(DriverKinds) /\ job.drivers # <<>>
      /\ \A i, k \in DOMAIN job.drivers : job.drivers[i] = "agent" => job.drivers[k] = "agent"
  BY TopologyAssumption DEF TopologyAssumption, JobOK
<1> QED
  BY <1>1, LenProperties, ElementOfSeq, EmptySeq

\* Two states that differ only in what is to be done.
Alike(r, s) ==
    /\ s.number = r.number /\ s.made = r.made /\ s.active = r.active /\ s.before = r.before
    /\ s.handle = r.handle /\ s.attached = r.attached /\ s.left = r.left /\ s.report = r.report

LEMMA AlikeInPlace ==
    ASSUME NEW r, NEW s, Alike(r, s), NEW p, InPlace(r, p)
    PROVE  InPlace(s, p)
<1>1. DriverOf(s) = DriverOf(r) /\ TargetContext(s) = TargetContext(r) /\ Contexts(s) = Contexts(r)
  BY DEF Alike, DriverOf, TargetContext, Contexts
<1>2. \A c : Base(s, c) = Base(r, c)
  BY <1>1 DEF Alike, Base
<1>3. \A t, stages : MadeIn(s, t, stages) <=> MadeIn(r, t, stages)
  BY DEF Alike, MadeIn
<1>4. \A c : Mine(s, c) = Mine(r, c)
  BY <1>1, <1>3 DEF Alike, Mine
<1>5. Passed(s, p) <=> Passed(r, p)
  BY <1>1 DEF Alike, Passed
<1>6. Looking(s) <=> Looking(r)
  BY <1>1, <1>2, <1>3, <1>4 DEF Alike, Looking
<1>7. LeftOver(s, p) <=> LeftOver(r, p)
  BY <1>1, <1>2, <1>3, <1>4 DEF Alike, LeftOver, Replaced
<1>8. Bound(s, p) <=> Bound(r, p)
  BY <1>1 DEF Alike, Bound
<1> QED
  BY <1>1, <1>5, <1>6, <1>7, <1>8 DEF InPlace, Alike

LEMMA AlikeReported ==
    ASSUME NEW r, NEW s, Alike(r, s), Reported(r)
    PROVE  Reported(s)
<1>1. DriverOf(s) = DriverOf(r)
  BY DEF Alike, DriverOf
<1>2. \A t, stages : MadeIn(s, t, stages) <=> MadeIn(r, t, stages)
  BY DEF Alike, MadeIn
<1>3. Replaced(s) <=> Replaced(r)
  BY <1>1, <1>2 DEF Alike, Replaced
<1> QED
  BY <1>1, <1>2, <1>3 DEF Alike, Reported, Shows

LEMMA AlikeTrackers ==
    ASSUME NEW r, NEW s, Alike(r, s), TrackersOK(r), s \in RunType
    PROVE  TrackersOK(s)
  BY DEF Alike, TrackersOK, TrackerOK

\* Where a step of a driver leads to.
LEMMA AdvancedIs ==
    ASSUME NEW r \in RunType, NEW a, a = Advanced(r)
    PROVE  /\ Len(r.todo) > 1 => Alike(r, a) /\ a.todo = Tail(r.todo) /\ a \in RunType
           /\ Len(r.todo) <= 1 /\ r.number = Len(job.drivers) => Alike(r, a) /\ a.todo = <<>> /\ a \in RunType
           /\ Len(r.todo) <= 1 /\ r.number # Len(job.drivers) =>
                 /\ a.number = r.number + 1 /\ a.todo = Stages(job.drivers[r.number + 1])
                 /\ a.made = r.made /\ a.active = r.active /\ a.before = r.before /\ a.handle = r.handle
                 /\ a.attached = r.attached /\ a.left = NoTracker /\ a.report = NoValue
                 /\ a = [r EXCEPT !.number = @ + 1, !.todo = Stages(job.drivers[r.number + 1]),
                                  !.left = NoTracker, !.report = NoValue]
<1>1. r.todo \in Seq(StageNames) /\ Len(r.todo) \in Nat
  BY LenProperties DEF RunType
<1>2. CASE Len(r.todo) > 1
  <2>1. a = [r EXCEPT !.todo = Tail(@)] /\ Tail(r.todo) \in Seq(StageNames)
    BY <1>1, <1>2 DEF Advanced
  <2>2. Alike(r, a) /\ a.todo = Tail(r.todo) /\ a \in RunType
    BY <2>1 DEF Alike, RunType
  <2> QED
    BY <1>1, <1>2, <2>2
<1>3. CASE Len(r.todo) <= 1 /\ r.number = Len(job.drivers)
  <2>1. a = [r EXCEPT !.todo = <<>>] /\ <<>> \in Seq(StageNames)
    BY <1>1, <1>3 DEF Advanced
  <2>2. Alike(r, a) /\ a.todo = <<>> /\ a \in RunType
    BY <2>1 DEF Alike, RunType
  <2> QED
    BY <1>1, <1>3, <2>2
<1>4. CASE Len(r.todo) <= 1 /\ r.number # Len(job.drivers)
  <2>1. a = [r EXCEPT !.number = @ + 1, !.todo = Stages(job.drivers[r.number + 1]),
                                  !.left = NoTracker, !.report = NoValue]
    BY <1>1, <1>4 DEF Advanced
  <2>2. /\ a.number = r.number + 1 /\ a.todo = Stages(job.drivers[r.number + 1])
        /\ a.made = r.made /\ a.active = r.active /\ a.before = r.before /\ a.handle = r.handle
        /\ a.attached = r.attached /\ a.left = NoTracker /\ a.report = NoValue
    BY <2>1 DEF RunType
  <2> QED
    BY <1>1, <1>4, <2>1, <2>2
<1> QED
  BY <1>1, <1>2, <1>3, <1>4

\* A run that ends leads to an end, or to the first stage of the next run.
LEMMA Ended ==
    ASSUME JobOK, NEW r, TrackersOK(r), Reported(r), Len(r.todo) <= 1,
           DriverOf(r) = "agent" => r.active["main"] = NoTracker
    PROVE  TopologyInv(Advanced(r))
<1>1. r \in RunType /\ r.number \in 1..Len(job.drivers)
  BY DEF TrackersOK
<1>2. PICK a : a = Advanced(r)
  OBVIOUS
<1>3. CASE r.number = Len(job.drivers)
  <2>1. Alike(r, a) /\ a.todo = <<>> /\ a \in RunType
    BY <1>1, <1>2, <1>3, AdvancedIs
  <2> QED
    BY <1>2, <2>1, AlikeTrackers, AlikeReported DEF TopologyInv
<1>4. CASE r.number # Len(job.drivers)
  <2>1. PICK n : n = r.number + 1
    OBVIOUS
  <2>2. PICK d : d = job.drivers[n]
    OBVIOUS
  <2>3. n \in 1..Len(job.drivers) /\ d \in DriverKinds /\ (d = "agent" => r.active["main"] = NoTracker)
    BY <1>1, <1>4, <2>1, <2>2, JobIs DEF DriverOf
  <2>4. /\ Stages(d) \in Seq(StageNames) /\ Len(Stages(d)) \in 3..7 /\ InTime(d, 1)
        /\ First(d) \in 1..3 /\ TargetAt(d) \in 2..3 /\ TakeAt(d) >= 2
    <3>1. PICK m : m = Len(Stages(d))
      OBVIOUS
    <3>2. /\ Stages(d) \in Seq(StageNames) /\ m \in 3..7
          /\ First(d) \in 1..3 /\ TargetAt(d) \in 2..3 /\ TakeAt(d) \in TargetAt(d)..m
          /\ \A p \in 1..m : InTime(d, p)
      BY <2>3, <3>1, Timetable
    <3> QED
      BY <3>1, <3>2
  <2>5. /\ a.number = n /\ a.todo = Stages(d)
        /\ a.made = r.made /\ a.active = r.active /\ a.before = r.before /\ a.handle = r.handle
        /\ a.attached = r.attached /\ a.left = NoTracker /\ a.report = NoValue
    BY <1>1, <1>2, <1>4, <2>1, <2>2, AdvancedIs
  <2>6. a = [r EXCEPT !.number = n, !.todo = Stages(d), !.left = NoTracker, !.report = NoValue]
    BY <1>1, <1>2, <1>4, <2>1, <2>2, AdvancedIs
  <2>7. a \in RunType
    <3>1. n \in Nat /\ NoTracker \in Nat /\ Stages(d) \in Seq(StageNames)
      BY <1>1, <2>1, <2>4 DEF RunType, NoTracker
    <3>2. PICK todo \in Seq(StageNames) : todo = Stages(d)
      BY <3>1
    <3> QED
      BY <1>1, <2>6, <3>1, <3>2 DEF RunType
  <2>8. TrackersOK(a)
    <3>1. ASSUME NEW t \in DOMAIN a.made PROVE TrackerOK(a, t)
      <4>1. TrackerOK(r, t) /\ r.made[t] \in TrackerType
        BY <2>5 DEF TrackersOK, RunType
      <4> QED
        BY <1>1, <2>1, <2>5, <4>1 DEF TrackerOK, TrackerType
    <3>2. Len(r.made) \in Nat
      BY <1>1, LenProperties DEF RunType
    <3> QED
      BY <2>3, <2>5, <2>7, <3>1, <3>2 DEF TrackersOK, NoTracker
  <2>9. DriverOf(a) = d
    BY <2>2, <2>5 DEF DriverOf
  <2>10. AtStage(a, 1)
    <3>1. PICK m \in 3..7 : m = Len(Stages(d))
      BY <2>4
    <3> QED
      BY <2>5, <2>9, <3>1 DEF AtStage
  <2>11. \A t \in DOMAIN a.made : a.made[t].run # a.number
    <3> SUFFICES ASSUME NEW t \in DOMAIN a.made PROVE a.made[t].run # a.number
      OBVIOUS
    <3>1. r.made[t].run <= r.number /\ r.made[t] \in TrackerType
      BY <2>5 DEF TrackersOK, TrackerOK, RunType
    <3> QED
      BY <1>1, <2>1, <2>5, <3>1 DEF TrackerType
  <2>12. Passed(a, 1)
    BY <2>11 DEF Passed
  <2>13. d = "agent" => Looking(a) /\ Bound(a, 1)
    <3> SUFFICES ASSUME d = "agent" PROVE Looking(a) /\ Bound(a, 1)
      OBVIOUS
    <3>1. d \notin Tests /\ Contexts(a) = {"main"}
      BY <2>9 DEF Tests, Contexts
    <3>2. Mine(a, "main") = {} /\ Base(a, "main") = NoTracker
      BY <2>9, <2>11, <3>1 DEF Mine, MadeIn, Base
    <3>3. a.active["main"] = NoTracker
      BY <2>3, <2>5
    <3> QED
      BY <2>9, <2>11, <3>1, <3>2, <3>3 DEF Looking, Bound, MadeIn
  <2>14. InPlace(a, 1)
    BY <2>4, <2>5, <2>9, <2>12, <2>13 DEF InPlace, InTime
  <2>15. Reported(a)
    BY <2>5 DEF Reported, Shows
  <2> QED
    BY <1>2, <2>8, <2>10, <2>14, <2>15 DEF TopologyInv
<1> QED
  BY <1>3, <1>4

\* A stage that ends leads to the next one.
LEMMA Advances ==
    ASSUME JobOK, NEW r, TrackersOK(r), Reported(r), NEW p, AtStage(r, p),
           p < Len(Stages(DriverOf(r))) => InPlace(r, p + 1),
           p = Len(Stages(DriverOf(r))) /\ DriverOf(r) = "agent" => r.active["main"] = NoTracker
    PROVE  TopologyInv(Advanced(r))
<1>1. r \in RunType /\ r.number \in 1..Len(job.drivers)
  BY DEF TrackersOK
<1>2. PICK d : d = DriverOf(r)
  OBVIOUS
<1>3. d \in DriverKinds
  BY <1>1, <1>2, JobIs DEF DriverOf
<1>4. PICK n : n = Len(Stages(d))
  OBVIOUS
<1>5. n \in 3..7
  BY <1>3, <1>4, Timetable
<1>6. p \in 1..n /\ Len(r.todo) = n - p + 1 /\ \A k \in 1..Len(r.todo) : r.todo[k] = Stages(d)[p + k - 1]
  BY <1>2, <1>4 DEF AtStage
<1>7. CASE p = n
  <2>1. Len(r.todo) <= 1 /\ (DriverOf(r) = "agent" => r.active["main"] = NoTracker)
    BY <1>2, <1>4, <1>5, <1>6, <1>7
  <2> QED
    BY <2>1, Ended
<1>8. CASE p < n
  <2>1. PICK a : a = Advanced(r)
    OBVIOUS
  <2>2. Alike(r, a) /\ a.todo = Tail(r.todo) /\ a \in RunType
    <3>1. Len(r.todo) > 1
      BY <1>5, <1>6, <1>8
    <3> QED
      BY <1>1, <2>1, <3>1, AdvancedIs
  <2>3. TrackersOK(a) /\ Reported(a)
    BY <2>2, AlikeTrackers, AlikeReported
  <2>4. InPlace(r, p + 1)
    BY <1>2, <1>4, <1>8
  <2>5. InPlace(a, p + 1)
    BY <2>2, <2>4, AlikeInPlace
  <2>6. DriverOf(a) = d
    BY <1>2, <2>2 DEF DriverOf, Alike
  <2>7. Len(a.todo) = n - (p + 1) + 1 /\ \A k \in 1..Len(a.todo) : a.todo[k] = Stages(d)[(p + 1) + k - 1]
    <3>1. r.todo \in Seq(StageNames) /\ r.todo # <<>>
      BY <1>1, <1>5, <1>6, EmptySeq DEF RunType
    <3>2. Len(Tail(r.todo)) = Len(r.todo) - 1 /\ \A k \in 1..Len(Tail(r.todo)) : Tail(r.todo)[k] = r.todo[k + 1]
      BY <3>1, HeadTailProperties
    <3> QED
      BY <1>5, <1>6, <2>2, <3>2
  <2>8. AtStage(a, p + 1) /\ p + 1 \in 1..7
    <3>1. p + 1 \in 1..n /\ n <= 7
      BY <1>5, <1>6, <1>8
    <3> QED
      BY <1>4, <1>5, <2>6, <2>7, <3>1 DEF AtStage
  <2> QED
    BY <2>1, <2>3, <2>5, <2>8 DEF TopologyInv
<1> QED
  BY <1>5, <1>6, <1>7, <1>8

\* Where a state is: its driver, the stage at hand and what that has to do with looking.
LEMMA AtPlace ==
    ASSUME JobOK, NEW r, TrackersOK(r), NEW p, AtStage(r, p), NEW d, d = DriverOf(r), NEW n, n = Len(Stages(d))
    PROVE  /\ d \in DriverKinds /\ n \in 3..7 /\ p \in 1..n
           /\ First(d) \in 1..3 /\ First(d) <= TargetAt(d) /\ TargetAt(d) \in 2..3 /\ TakeAt(d) \in TargetAt(d)..n
           /\ InTime(d, p) /\ (p < n => InTime(d, p + 1))
           /\ r.todo # <<>> /\ Head(r.todo) = Stages(d)[p]
<1>1. r \in RunType /\ r.number \in 1..Len(job.drivers)
  BY DEF TrackersOK
<1>2. d \in DriverKinds
  BY <1>1, JobIs DEF DriverOf
<1>3. /\ n \in 3..7 /\ \A q \in 1..n : InTime(d, q)
      /\ First(d) \in 1..3 /\ First(d) <= TargetAt(d) /\ TargetAt(d) \in 2..3 /\ TakeAt(d) \in TargetAt(d)..n
  BY <1>2, Timetable
<1>4. p \in 1..n /\ Len(r.todo) = n - p + 1 /\ \A k \in 1..Len(r.todo) : r.todo[k] = Stages(d)[p + k - 1]
  BY DEF AtStage
<1>5. p < n => p + 1 \in 1..n
  BY <1>3, <1>4
<1>6. r.todo # <<>> /\ Head(r.todo) = r.todo[1] /\ 1 \in 1..Len(r.todo)
  <2>1. r.todo \in Seq(StageNames) /\ Len(r.todo) > 0
    BY <1>1, <1>3, <1>4 DEF RunType
  <2> QED
    BY <1>3, <1>4, <2>1, EmptySeq
<1>7. r.todo[1] = Stages(d)[p]
  <2>1. r.todo[1] = Stages(d)[p + 1 - 1]
    BY <1>4, <1>6
  <2>2. p + 1 - 1 = p
    BY <1>3, <1>4
  <2> QED
    BY <2>1, <2>2
<1> QED
  BY <1>2, <1>3, <1>4, <1>5, <1>6, <1>7

LEMMA SomePlace ==
    ASSUME JobOK, NEW r, TopologyInv(r), r.todo # <<>>, Head(r.todo) # "bind"
    PROVE  \E p \in 1..7 : AtStage(r, p) /\ InPlace(r, p)
<1>1. ~Cut(r)
  BY DEF Cut
<1> QED
  BY <1>1 DEF TopologyInv

\* Steps that make no tracker.
Keeps(r, s) ==
    /\ s.number = r.number /\ DOMAIN s.made = DOMAIN r.made /\ Len(s.made) = Len(r.made)
    /\ \A t \in DOMAIN r.made : /\ s.made[t].run = r.made[t].run /\ s.made[t].stage = r.made[t].stage
                                /\ s.made[t].context = r.made[t].context

LEMMA KeepsMade ==
    ASSUME NEW r, NEW s, Keeps(r, s)
    PROVE  /\ DriverOf(s) = DriverOf(r) /\ TargetContext(s) = TargetContext(r) /\ Contexts(s) = Contexts(r)
           /\ \A stages : \A t \in DOMAIN r.made : MadeIn(s, t, stages) <=> MadeIn(r, t, stages)
           /\ \A c : Mine(s, c) = Mine(r, c)
           /\ Replaced(s) <=> Replaced(r)
           /\ \A p : Passed(s, p) <=> Passed(r, p)
<1>1. DriverOf(s) = DriverOf(r) /\ TargetContext(s) = TargetContext(r) /\ Contexts(s) = Contexts(r)
  BY DEF Keeps, DriverOf, TargetContext, Contexts
<1>2. \A stages : \A t \in DOMAIN r.made : MadeIn(s, t, stages) <=> MadeIn(r, t, stages)
  BY DEF Keeps, MadeIn
<1>3. \A c : Mine(s, c) = Mine(r, c)
  BY <1>1, <1>2 DEF Keeps, Mine
<1>4. Replaced(s) <=> Replaced(r)
  BY <1>1, <1>2 DEF Keeps, Replaced
<1>5. \A p : Passed(s, p) <=> Passed(r, p)
  BY <1>1 DEF Keeps, Passed
<1> QED
  BY <1>1, <1>2, <1>3, <1>4, <1>5

LEMMA KeepsReported ==
    ASSUME NEW r \in RunType, NEW s, Keeps(r, s), s.report = r.report, Reported(r)
    PROVE  Reported(s)
<1>1. /\ DriverOf(s) = DriverOf(r) /\ (Replaced(s) <=> Replaced(r))
      /\ \A stages : \A t \in DOMAIN r.made : MadeIn(s, t, stages) <=> MadeIn(r, t, stages)
  BY KeepsMade
<1>2. CASE r.report = NoValue
  BY <1>2 DEF Reported, Shows
<1>3. CASE r.report # NoValue
  <2>1. /\ r.report \in ReportType /\ DOMAIN r.made = 1..Len(r.made)
        /\ r.report.tracker <= Len(r.made) /\ r.report.left <= Len(r.made)
    BY <1>3, LenProperties DEF RunType, Reported
  <2>2. /\ r.report.tracker # NoTracker => r.report.tracker \in DOMAIN r.made
        /\ r.report.left # NoTracker => r.report.left \in DOMAIN r.made
    BY <2>1, LenProperties DEF ReportType, RunType, NoTracker
  <2> QED
    BY <1>1, <1>3, <2>1, <2>2 DEF Reported, Shows, Keeps
<1> QED
  BY <1>2, <1>3

\* A tracker that is deactivated.
LEMMA ReleasedIs ==
    ASSUME NEW r, TrackersOK(r), NEW t \in DOMAIN r.made, NEW s, s = Released(r, t)
    PROVE  /\ TrackersOK(s) /\ Keeps(r, s)
           /\ s.todo = r.todo /\ s.before = r.before /\ s.handle = r.handle /\ s.attached = r.attached
           /\ s.left = r.left /\ s.report = r.report
           /\ \A x \in DOMAIN r.made : s.made[x].token \in {Used, r.made[x].token} /\ s.made[x].nodes = r.made[x].nodes
           /\ \A c \in {"main", "task"} :
                 s.active[c] = IF c = r.made[t].context /\ r.made[t].token # Used THEN r.made[t].token ELSE r.active[c]
<1>1. r \in RunType /\ r.made[t] \in TrackerType /\ TrackerOK(r, t)
  BY DEF TrackersOK, RunType
<1>2. CASE r.made[t].token = Used
  <2>1. s = r
    BY <1>2 DEF Released
  <2> QED
    BY <1>2, <2>1 DEF Keeps
<1>3. CASE r.made[t].token # Used
  <2>1. PICK token, context : token = r.made[t].token /\ context = r.made[t].context
    OBVIOUS
  <2>2. token \in 0..Len(r.made) /\ Len(r.made) \in Nat /\ context \in {"main", "task"} /\ token \in Nat
    BY <1>1, <1>3, <2>1, LenProperties DEF TrackerOK, TrackerType, RunType
  <2>3. s = [r EXCEPT !.active[context] = token, !.made[t].token = Used]
    BY <1>3, <2>1 DEF Released
  <2>4. PICK old, new : old = r.made[t] /\ new = [old EXCEPT !.token = Used]
    OBVIOUS
  <2>5. new \in TrackerType /\ new.run = old.run /\ new.stage = old.stage /\ new.context = old.context
        /\ new.token = Used /\ new.nodes = old.nodes
    BY <1>1, <2>4 DEF TrackerType, Used
  <2>6. PICK made : made = [r.made EXCEPT ![t] = new]
    OBVIOUS
  <2>7. PICK active : active = [r.active EXCEPT ![context] = token]
    OBVIOUS
  <2>8. s = [r EXCEPT !.active = active, !.made = made]
    BY <1>1, <2>3, <2>4, <2>6, <2>7 DEF RunType
  <2>9. /\ made \in Seq(TrackerType) /\ Len(made) = Len(r.made) /\ DOMAIN made = DOMAIN r.made
        /\ made[t] = new /\ \A x \in DOMAIN r.made : x # t => made[x] = r.made[x]
    BY <1>1, <2>5, <2>6, ExceptSeq DEF RunType
  <2>10. /\ active \in [{"main", "task"} -> Nat] /\ active[context] = token
         /\ \A c \in {"main", "task"} : c # context => active[c] = r.active[c]
    BY <1>1, <2>2, <2>7 DEF RunType
  <2>11. /\ s \in RunType /\ s.made = made /\ s.active = active /\ s.number = r.number
         /\ s.todo = r.todo /\ s.before = r.before /\ s.handle = r.handle /\ s.attached = r.attached
         /\ s.left = r.left /\ s.report = r.report
    BY <1>1, <2>8, <2>9, <2>10 DEF RunType
  <2>12. Keeps(r, s)
    BY <2>4, <2>5, <2>9, <2>11 DEF Keeps
  <2>13. \A x \in DOMAIN r.made : s.made[x].token \in {Used, r.made[x].token} /\ s.made[x].nodes = r.made[x].nodes
    BY <2>4, <2>5, <2>9, <2>11
  <2>14. \A x \in DOMAIN s.made : TrackerOK(s, x)
    BY <2>9, <2>11, <2>12, <2>13 DEF TrackersOK, TrackerOK, Keeps
  <2>15. TrackersOK(s)
    BY <2>2, <2>9, <2>10, <2>11, <2>14 DEF TrackersOK
  <2> QED
    BY <1>3, <2>1, <2>10, <2>11, <2>12, <2>13, <2>15
<1> QED
  BY <1>2, <1>3

LEMMA StageKept ==
    ASSUME NEW r, NEW s, s.todo = r.todo, DriverOf(s) = DriverOf(r), NEW p, AtStage(r, p)
    PROVE  AtStage(s, p)
  BY DEF AtStage

LEMMA PassedIs ==
    ASSUME NEW r, NEW p, NEW d, d = DriverOf(r)
    PROVE  Passed(r, p) <=>
              \A t \in DOMAIN r.made : r.made[t].run = r.number => \E q \in 1..p : r.made[t].stage = Stages(d)[q]
  BY DEF Passed

\* A tracker that is made.
MadeOne(r, s, stage, context) ==
    s = [r EXCEPT !.made = Append(@, Tracker(r.number, stage, context, r.active[context])),
                  !.active[context] = Len(r.made) + 1]

LEMMA TrackerMade ==
    ASSUME JobOK, NEW r, TopologyInv(r), NEW p, AtStage(r, p), InPlace(r, p),
           NEW stage, stage = Head(r.todo), stage \in UserStages,
           NEW context, context = IF DriverOf(r) \in Tests /\ stage = "target" /\ job.tests # "plain" THEN "task" ELSE "main",
           NEW s, MadeOne(r, s, stage, context)
    PROVE  TopologyInv(s)
<1>1. PICK d : d = DriverOf(r)
  OBVIOUS
<1>2. PICK n : n = Len(Stages(d))
  OBVIOUS
<1>3. TrackersOK(r) /\ r \in RunType /\ r.number \in Nat /\ r.made \in Seq(TrackerType) /\ context \in {"main", "task"}
  BY DEF TopologyInv, TrackersOK, RunType
<1>4. /\ d \in DriverKinds /\ n \in 3..7 /\ p \in 1..n
      /\ First(d) \in 1..3 /\ First(d) <= TargetAt(d) /\ TargetAt(d) \in 2..3 /\ TakeAt(d) \in TargetAt(d)..n
      /\ InTime(d, p) /\ r.todo # <<>> /\ Head(r.todo) = Stages(d)[p]
  BY <1>1, <1>2, <1>3, AtPlace
<1>5. PICK m : m = Len(r.made)
  OBVIOUS
<1>6. m \in Nat /\ DOMAIN r.made = 1..m
  BY <1>3, <1>5, LenProperties
<1>7. PICK own : own = Tracker(r.number, stage, context, r.active[context])
  OBVIOUS
<1>8. /\ own \in TrackerType /\ own.run = r.number /\ own.stage = stage /\ own.context = context
      /\ own.token = r.active[context] /\ own.nodes = [a \in Agents |-> Unregistered]
  BY <1>3, <1>7 DEF Tracker, TrackerType, RunType, UserStages, StageNames, Unregistered
<1>9. PICK made : made = Append(r.made, own)
  OBVIOUS
<1>10. PICK active : active = [r.active EXCEPT ![context] = m + 1]
  OBVIOUS
<1>11. /\ made \in Seq(TrackerType) /\ Len(made) = m + 1 /\ DOMAIN made = 1..(m + 1)
       /\ made[m + 1] = own /\ \A t \in 1..m : made[t] = r.made[t]
  BY <1>3, <1>5, <1>6, <1>8, <1>9, AppendProperties, LenProperties
<1>12. /\ active \in [{"main", "task"} -> Nat] /\ active[context] = m + 1
       /\ \A c \in {"main", "task"} : c # context => active[c] = r.active[c]
  BY <1>3, <1>6, <1>10 DEF RunType
<1>13. /\ s \in RunType /\ s.made = made /\ s.active = active /\ s.number = r.number
       /\ s.todo = r.todo /\ s.before = r.before /\ s.handle = r.handle /\ s.attached = r.attached
       /\ s.left = r.left /\ s.report = r.report
  <2>1. s = [r EXCEPT !.made = made, !.active = active]
    BY <1>3, <1>5, <1>7, <1>9, <1>10 DEF RunType, MadeOne
  <2> QED
    BY <1>3, <1>11, <1>12, <2>1 DEF RunType
<1>14. TrackersOK(s)
  <2>1. ASSUME NEW t \in 1..m PROVE TrackerOK(s, t)
    <3>1. TrackerOK(r, t) /\ r.made[t] \in TrackerType
      BY <1>3, <1>6 DEF TrackersOK
    <3>2. s.made[t] = r.made[t] /\ s.number = r.number /\ Len(s.made) = m + 1
      BY <1>11, <1>13
    <3>3. r.made[t].token # Used => r.made[t].token \in 0..(m + 1)
      BY <1>5, <1>6, <3>1 DEF TrackerOK, TrackerType
    <3> QED
      BY <3>1, <3>2, <3>3 DEF TrackerOK
  <2>2. TrackerOK(s, m + 1)
    <3>1. r.active[context] \in 0..m
      BY <1>3, <1>5, <1>6 DEF TrackersOK, RunType
    <3>2. s.made[m + 1] = own /\ s.number = r.number /\ Len(s.made) = m + 1
      BY <1>11, <1>13
    <3>3. own.token \in 0..(m + 1) /\ own.run <= r.number /\ \A a \in Agents : own.nodes[a] = Unregistered
      BY <1>3, <1>6, <1>8, <3>1
    <3> QED
      BY <3>2, <3>3 DEF TrackerOK
  <2>3. \A t \in 1..(m + 1) : t \in 1..m \/ t = m + 1
    BY <1>6
  <2> QED
    <3>1. \A t \in DOMAIN s.made : TrackerOK(s, t)
      BY <1>11, <1>13, <2>1, <2>2, <2>3
    <3>2. /\ r.number \in 1..Len(job.drivers)
          /\ \A c \in {"main", "task"} : r.active[c] <= m /\ r.before[c] <= m /\ r.active[c] \in Nat /\ r.before[c] \in Nat
          /\ r.handle <= m /\ r.left <= m /\ r.handle \in Nat /\ r.left \in Nat
      BY <1>3, <1>5 DEF TrackersOK, RunType
    <3>3. /\ \A c \in {"main", "task"} : s.active[c] <= m + 1 /\ s.before[c] <= m + 1
          /\ s.handle <= m + 1 /\ s.left <= m + 1
      BY <1>6, <1>12, <1>13, <3>2
    <3> QED
      BY <1>11, <1>13, <3>1, <3>2, <3>3 DEF TrackersOK
<1>15. DriverOf(s) = d /\ Contexts(s) = Contexts(r) /\ TargetContext(s) = TargetContext(r)
  BY <1>1, <1>13 DEF DriverOf, Contexts, TargetContext
<1>16. \A c : Base(s, c) = Base(r, c)
  BY <1>1, <1>13, <1>15 DEF Base
<1>17. /\ \A stages : \A t \in 1..m : MadeIn(s, t, stages) <=> MadeIn(r, t, stages)
       /\ \A stages : MadeIn(s, m + 1, stages) <=> stage \in stages
  BY <1>8, <1>11, <1>13 DEF MadeIn
<1>18. /\ \A c : Mine(r, c) \subseteq Mine(s, c)
       /\ \A c : \A t \in Mine(s, c) : t \in Mine(r, c) \/ (t = m + 1 /\ c = context)
       /\ stage \in Looked(d) => m + 1 \in Mine(s, context)
  <2>1. \A t : t \in 1..(m + 1) <=> t \in 1..m \/ t = m + 1
    BY <1>6
  <2> QED
    BY <1>1, <1>6, <1>8, <1>11, <1>13, <1>15, <1>17, <2>1 DEF Mine
<1>19. Replaced(s) <=> Replaced(r) \/ stage \in Looked(d) \ {"pre", "target"}
  <2>1. \A t : t \in 1..(m + 1) <=> t \in 1..m \/ t = m + 1
    BY <1>6
  <2> QED
    BY <1>1, <1>6, <1>11, <1>13, <1>15, <1>17, <2>1 DEF Replaced
<1>20. Passed(s, p)
  <2>1. Passed(r, p)
    BY DEF InPlace
  <2>2. \A t \in 1..(m + 1) : t \in 1..m \/ t = m + 1
    BY <1>6
  <2>3. p \in 1..p
    BY <1>4
  <2> QED
    <3>1. \A t \in 1..m : s.made[t] = r.made[t]
      BY <1>11, <1>13
    <3>2. s.made[m + 1].stage = Stages(d)[p]
      BY <1>4, <1>8, <1>11, <1>13
    <3>3. \A t \in 1..m : r.made[t].run = r.number => \E q \in 1..p : r.made[t].stage = Stages(d)[q]
      BY <1>1, <1>6, <2>1 DEF Passed
    <3>4. \A t \in 1..(m + 1) : s.made[t].run = r.number => \E q \in 1..p : s.made[t].stage = Stages(d)[q]
      BY <2>2, <2>3, <3>1, <3>2, <3>3
    <3>5. ASSUME NEW z, DriverOf(z) = d
          PROVE  Passed(z, p) <=>
                    \A t \in DOMAIN z.made : z.made[t].run = z.number => \E q \in 1..p : z.made[t].stage = Stages(d)[q]
      BY <3>5, PassedIs
    <3>6. DOMAIN s.made = 1..(m + 1) /\ s.number = r.number /\ DriverOf(s) = d
      BY <1>11, <1>13, <1>15
    <3>7. \A t \in DOMAIN s.made : s.made[t].run = s.number => \E q \in 1..p : s.made[t].stage = Stages(d)[q]
      BY <3>4, <3>6
    <3> QED
      BY <3>5, <3>6, <3>7
<1>21. CASE p \in First(d)..TakeAt(d)
  <2>1. Looking(r) /\ Bound(r, p) /\ stage \in Looked(d) /\ s.report = NoValue
    BY <1>1, <1>4, <1>13, <1>21 DEF InPlace, InTime
  <2>2. context \in Contexts(r) /\ (stage = "target" => context = TargetContext(r)) /\ (stage # "target" => context = "main")
    BY <1>1 DEF Contexts, TargetContext
  <2>3. ASSUME NEW c \in Contexts(r)
        PROVE  s.active[c] \in {Base(s, c)} \union Mine(s, c) /\ Base(s, c) \notin Mine(s, c)
    <3>1. r.active[c] \in {Base(r, c)} \union Mine(r, c) /\ Base(r, c) \notin Mine(r, c) /\ c \in {"main", "task"}
      BY <2>1, <2>3 DEF Looking, Contexts
    <3>2. Base(r, c) <= m /\ Base(r, c) \in Nat
      BY <1>3, <1>5, <1>6, <3>1 DEF Base, TrackersOK, RunType, NoTracker
    <3>3. Base(r, c) # m + 1
      BY <1>6, <3>2
    <3> QED
      BY <1>12, <1>13, <1>16, <1>18, <2>1, <3>1, <3>3
  <2>4. Looking(s)
    <3>1. ASSUME NEW t \in 1..m, MadeIn(r, t, Looked(d))
          PROVE  /\ s.made[t].context \in Contexts(r)
                 /\ s.made[t].token \in {Used, Base(s, s.made[t].context)} \union Mine(s, s.made[t].context)
                 /\ s.made[t].stage = "target" => s.made[t].context = TargetContext(s)
                 /\ s.made[t].stage # "target" => s.made[t].context = "main"
      <4>1. /\ r.made[t].context \in Contexts(r)
            /\ r.made[t].token \in {Used, Base(r, r.made[t].context)} \union Mine(r, r.made[t].context)
            /\ r.made[t].stage = "target" => r.made[t].context = TargetContext(r)
            /\ r.made[t].stage # "target" => r.made[t].context = "main"
        BY <1>1, <1>6, <2>1, <3>1 DEF Looking
      <4>2. s.made[t] = r.made[t]
        BY <1>11, <1>13
      <4> QED
        BY <1>15, <1>16, <1>18, <4>1, <4>2
    <3>2. /\ s.made[m + 1].context \in Contexts(r)
          /\ s.made[m + 1].token \in {Used, Base(s, s.made[m + 1].context)} \union Mine(s, s.made[m + 1].context)
          /\ s.made[m + 1].stage = "target" => s.made[m + 1].context = TargetContext(s)
          /\ s.made[m + 1].stage # "target" => s.made[m + 1].context = "main"
      <4>1. r.active[context] \in {Base(r, context)} \union Mine(r, context)
        BY <2>1, <2>2 DEF Looking
      <4>2. s.made[m + 1] = own
        BY <1>11, <1>13
      <4>3. r.active[context] \in {Used, Base(s, context)} \union Mine(s, context)
        BY <1>16, <1>18, <4>1
      <4>4. own.context = context /\ own.token = r.active[context] /\ own.stage = stage
        BY <1>8
      <4> QED
        BY <1>15, <2>2, <4>2, <4>3, <4>4
    <3>3. \A t \in 1..(m + 1) : t \in 1..m \/ t = m + 1
      BY <1>6
    <3> QED
      BY <1>11, <1>13, <1>15, <1>17, <2>3, <3>1, <3>2, <3>3 DEF Looking
  <2>5. Bound(s, p)
    BY <1>1, <1>13, <1>15, <2>1 DEF Bound
  <2>6. p > TargetAt(d) => LeftOver(s, p)
    <3> SUFFICES ASSUME p > TargetAt(d) PROVE LeftOver(s, p)
      OBVIOUS
    <3>1. p \in (TargetAt(d) + 1)..TakeAt(d)
      BY <1>4, <1>21
    <3>2. LeftOver(r, p) /\ Replaced(s)
      BY <1>1, <1>4, <1>19, <3>1 DEF InPlace, InTime
    <3>3. ~(TargetContext(r) = "task" /\ p = TargetAt(d) + 1)
      BY <1>1, <1>4 DEF InTime, TargetContext, UserStages
    <3> QED
      BY <1>13, <1>15, <1>16, <1>18, <3>2, <3>3 DEF LeftOver
  <2>7. InPlace(s, p)
    <3>1. p \in (TargetAt(d) + 1)..TakeAt(d) => p > TargetAt(d)
      BY <1>4
    <3> QED
      BY <1>15, <1>20, <2>1, <2>4, <2>5, <2>6, <3>1 DEF InPlace
  <2>8. Reported(s)
    BY <2>1 DEF Reported, Shows
  <2>9. AtStage(s, p) /\ p \in 1..7
    <3>1. p \in 1..7
      BY <1>4
    <3> QED
      BY <1>1, <1>13, <1>15, <3>1, StageKept
  <2> QED
    BY <1>14, <2>7, <2>8, <2>9 DEF TopologyInv
<1>22. CASE p \notin First(d)..TakeAt(d)
  <2>1. stage \notin Looked(d) /\ p \notin (TargetAt(d) + 1)..TakeAt(d)
    BY <1>4, <1>22 DEF InTime
  <2>2. p <= TakeAt(d) => s.report = NoValue
    BY <1>1, <1>13 DEF InPlace
  <2>3. InPlace(s, p)
    BY <1>15, <1>20, <1>22, <2>1, <2>2 DEF InPlace
  <2>4. Reported(s)
    <3>1. CASE r.report = NoValue
      BY <1>13, <3>1 DEF Reported, Shows
    <3>2. CASE r.report # NoValue
      <4>1. /\ r.report \in ReportType /\ Reported(r)
            /\ r.report.tracker <= m /\ r.report.left <= m
        BY <1>3, <1>5, <3>2 DEF RunType, Reported, TopologyInv
      <4>2. /\ r.report.tracker # NoTracker => r.report.tracker \in 1..m
            /\ r.report.left # NoTracker => r.report.left \in 1..m
        BY <1>6, <4>1 DEF ReportType, NoTracker
      <4>3. Replaced(s) <=> Replaced(r)
        BY <1>19, <2>1
      <4>4. Shows(r)
        BY <4>1 DEF Reported
      <4>5. Shows(s)
        BY <1>1, <1>13, <1>15, <1>17, <4>2, <4>3, <4>4 DEF Shows
      <4>6. r.report.tracker <= m + 1 /\ r.report.left <= m + 1
        BY <1>6, <4>1 DEF ReportType
      <4> QED
        BY <1>11, <1>13, <4>5, <4>6 DEF Reported
    <3> QED
      BY <3>1, <3>2
  <2>5. AtStage(s, p) /\ p \in 1..7
    <3>1. p \in 1..7
      BY <1>4
    <3> QED
      BY <1>1, <1>13, <1>15, <3>1, StageKept
  <2> QED
    BY <1>14, <2>3, <2>4, <2>5 DEF TopologyInv
<1> QED
  BY <1>21, <1>22

\* A tracker that a stage deactivates.
LEMMA TrackerReleased ==
    ASSUME JobOK, NEW r, TopologyInv(r), NEW p, AtStage(r, p), InPlace(r, p), Head(r.todo) \in UserStages,
           NEW t \in DOMAIN r.made, MadeIn(r, t, {Head(r.todo)}), r.made[t].token # Used
    PROVE  TopologyInv(Released(r, t))
<1>1. PICK d, n, stage : d = DriverOf(r) /\ n = Len(Stages(d)) /\ stage = Head(r.todo)
  OBVIOUS
<1>2. PICK s : s = Released(r, t)
  OBVIOUS
<1>3. TrackersOK(r) /\ r \in RunType /\ Reported(r)
  BY DEF TopologyInv, TrackersOK
<1>4. /\ d \in DriverKinds /\ n \in 3..7 /\ p \in 1..n
      /\ First(d) \in 1..3 /\ First(d) <= TargetAt(d) /\ TargetAt(d) \in 2..3 /\ TakeAt(d) \in TargetAt(d)..n
      /\ InTime(d, p) /\ r.todo # <<>> /\ stage = Stages(d)[p]
  BY <1>1, <1>3, AtPlace
<1>5. /\ TrackersOK(s) /\ Keeps(r, s)
      /\ s.todo = r.todo /\ s.before = r.before /\ s.handle = r.handle /\ s.attached = r.attached
      /\ s.left = r.left /\ s.report = r.report
      /\ \A x \in DOMAIN r.made : s.made[x].token \in {Used, r.made[x].token} /\ s.made[x].nodes = r.made[x].nodes
      /\ \A c \in {"main", "task"} :
            s.active[c] = IF c = r.made[t].context /\ r.made[t].token # Used THEN r.made[t].token ELSE r.active[c]
  BY <1>2, <1>3, ReleasedIs
<1>6. /\ DriverOf(s) = d /\ TargetContext(s) = TargetContext(r) /\ Contexts(s) = Contexts(r)
      /\ \A stages : \A x \in DOMAIN r.made : MadeIn(s, x, stages) <=> MadeIn(r, x, stages)
      /\ \A c : Mine(s, c) = Mine(r, c)
      /\ Replaced(s) <=> Replaced(r)
      /\ Passed(s, p) <=> Passed(r, p)
  BY <1>1, <1>5, KeepsMade
<1>7. \A c : Base(s, c) = Base(r, c)
  BY <1>1, <1>5, <1>6 DEF Base
<1>8. Reported(s)
  BY <1>3, <1>5, KeepsReported
<1>9. AtStage(s, p) /\ p \in 1..7
  <2>1. p \in 1..7
    BY <1>4
  <2> QED
    BY <1>1, <1>5, <1>6, <2>1, StageKept
<1>10. p \in First(d)..TakeAt(d) => Looking(s) /\ Bound(s, p)
  <2> SUFFICES ASSUME p \in First(d)..TakeAt(d) PROVE Looking(s) /\ Bound(s, p)
    OBVIOUS
  <2>1. Looking(r) /\ Bound(r, p) /\ stage \in Looked(d)
    BY <1>1, <1>4 DEF InPlace, InTime
  <2>2. MadeIn(r, t, Looked(d))
    BY <1>1, <2>1 DEF MadeIn
  <2>3. PICK c0, t0 : c0 = r.made[t].context /\ t0 = r.made[t].token
    OBVIOUS
  <2>4. c0 \in Contexts(r) /\ t0 \in {Base(r, c0)} \union Mine(r, c0)
    BY <1>1, <2>1, <2>2, <2>3 DEF Looking
  <2>5. ASSUME NEW c \in Contexts(r) PROVE s.active[c] \in {Base(s, c)} \union Mine(s, c) /\ Base(s, c) \notin Mine(s, c)
    <3>1. c \in {"main", "task"} /\ r.active[c] \in {Base(r, c)} \union Mine(r, c) /\ Base(r, c) \notin Mine(r, c)
      BY <2>1 DEF Looking, Contexts
    <3>2. s.active[c] = IF c = c0 THEN t0 ELSE r.active[c]
      BY <1>5, <2>3, <3>1
    <3> QED
      BY <1>6, <1>7, <2>4, <3>1, <3>2
  <2>6. ASSUME NEW x \in DOMAIN r.made, MadeIn(r, x, Looked(d))
        PROVE  /\ s.made[x].context \in Contexts(s)
               /\ s.made[x].token \in {Used, Base(s, s.made[x].context)} \union Mine(s, s.made[x].context)
               /\ s.made[x].stage = "target" => s.made[x].context = TargetContext(s)
               /\ s.made[x].stage # "target" => s.made[x].context = "main"
    <3>1. /\ r.made[x].context \in Contexts(r)
          /\ r.made[x].token \in {Used, Base(r, r.made[x].context)} \union Mine(r, r.made[x].context)
          /\ r.made[x].stage = "target" => r.made[x].context = TargetContext(r)
          /\ r.made[x].stage # "target" => r.made[x].context = "main"
      BY <1>1, <2>1, <2>6 DEF Looking
    <3>2. /\ s.made[x].context = r.made[x].context /\ s.made[x].stage = r.made[x].stage
          /\ s.made[x].token \in {Used, r.made[x].token}
      BY <1>5 DEF Keeps
    <3> QED
      BY <1>6, <1>7, <3>1, <3>2
  <2>7. Looking(s)
    BY <1>5, <1>6, <2>5, <2>6 DEF Looking, Keeps
  <2> QED
    BY <1>1, <1>5, <1>6, <2>1, <2>7 DEF Bound
<1>11. p \in (TargetAt(d) + 1)..TakeAt(d) => LeftOver(s, p)
  <2> SUFFICES ASSUME p \in (TargetAt(d) + 1)..TakeAt(d) PROVE LeftOver(s, p)
    OBVIOUS
  <2>1. LeftOver(r, p) /\ stage \in Looked(d) \ {"pre", "target"}
    BY <1>1, <1>4 DEF InPlace, InTime
  <2>2. Replaced(s)
    BY <1>1, <1>6, <2>1 DEF Replaced, MadeIn
  <2>3. ~(TargetContext(r) = "task" /\ p = TargetAt(d) + 1)
    BY <1>1, <1>4 DEF InTime, TargetContext, UserStages
  <2> QED
    BY <1>5, <1>6, <1>7, <2>1, <2>2, <2>3 DEF LeftOver
<1>12. InPlace(s, p)
  BY <1>1, <1>5, <1>6, <1>10, <1>11 DEF InPlace
<1> QED
  BY <1>2, <1>5, <1>8, <1>9, <1>12 DEF TopologyInv

\* Steps that leave alone what is active, and what trackers give back.
Unmoved(r, s) ==
    /\ TrackersOK(s) /\ Keeps(r, s)
    /\ s.todo = r.todo /\ s.active = r.active /\ s.before = r.before /\ s.left = r.left /\ s.report = r.report
    /\ \A t \in DOMAIN r.made : s.made[t].token = r.made[t].token

LEMMA UnmovedInPlace ==
    ASSUME JobOK, NEW r, TopologyInv(r), NEW p \in 1..7, AtStage(r, p), InPlace(r, p), NEW s, Unmoved(r, s),
           Bound(r, p) => Bound(s, p)
    PROVE  TopologyInv(s)
<1>1. TrackersOK(r) /\ r \in RunType /\ Reported(r)
  BY DEF TopologyInv, TrackersOK
<1>2. /\ DriverOf(s) = DriverOf(r) /\ TargetContext(s) = TargetContext(r) /\ Contexts(s) = Contexts(r)
      /\ \A stages : \A t \in DOMAIN r.made : MadeIn(s, t, stages) <=> MadeIn(r, t, stages)
      /\ \A c : Mine(s, c) = Mine(r, c)
      /\ Replaced(s) <=> Replaced(r)
      /\ Passed(s, p) <=> Passed(r, p)
  BY KeepsMade DEF Unmoved
<1>3. \A c : Base(s, c) = Base(r, c)
  BY <1>2 DEF Base, Unmoved
<1>4. Reported(s)
  BY <1>1, KeepsReported DEF Unmoved
<1>5. AtStage(s, p)
  BY <1>2, StageKept DEF Unmoved
<1>6. Looking(r) => Looking(s)
  <2> SUFFICES ASSUME Looking(r) PROVE Looking(s)
    OBVIOUS
  <2>1. \A c \in Contexts(s) : s.active[c] \in {Base(s, c)} \union Mine(s, c) /\ Base(s, c) \notin Mine(s, c)
    BY <1>2, <1>3 DEF Looking, Unmoved
  <2>2. ASSUME NEW x \in DOMAIN r.made, MadeIn(r, x, Looked(DriverOf(r)))
        PROVE  /\ s.made[x].context \in Contexts(s)
               /\ s.made[x].token \in {Used, Base(s, s.made[x].context)} \union Mine(s, s.made[x].context)
               /\ s.made[x].stage = "target" => s.made[x].context = TargetContext(s)
               /\ s.made[x].stage # "target" => s.made[x].context = "main"
    <3>1. /\ r.made[x].context \in Contexts(r)
          /\ r.made[x].token \in {Used, Base(r, r.made[x].context)} \union Mine(r, r.made[x].context)
          /\ r.made[x].stage = "target" => r.made[x].context = TargetContext(r)
          /\ r.made[x].stage # "target" => r.made[x].context = "main"
      BY <2>2 DEF Looking
    <3>2. /\ s.made[x].context = r.made[x].context /\ s.made[x].stage = r.made[x].stage
          /\ s.made[x].token = r.made[x].token
      BY DEF Keeps, Unmoved
    <3> QED
      BY <1>2, <1>3, <3>1, <3>2
  <2> QED
    BY <1>2, <2>1, <2>2 DEF Looking, Keeps, Unmoved
<1>7. LeftOver(r, p) => LeftOver(s, p)
  BY <1>2, <1>3 DEF LeftOver, Unmoved
<1>8. InPlace(s, p)
  BY <1>2, <1>6, <1>7 DEF InPlace, Unmoved
<1> QED
  BY <1>4, <1>5, <1>8 DEF TopologyInv, Unmoved

\* A visit, and a tracker attached to a test.
Visited(r, s, t, nodes) ==
    s = [r EXCEPT !.made[t].nodes =
            [a \in Agents |-> IF a \in nodes /\ @[a] = Unregistered THEN r.number ELSE @[a]]]

LEMMA VisitKeeps ==
    ASSUME JobOK, NEW r, TopologyInv(r), NEW p \in 1..7, AtStage(r, p), InPlace(r, p),
           NEW t \in DOMAIN r.made, NEW nodes, NEW s, Visited(r, s, t, nodes)
    PROVE  TopologyInv(s)
<1>1. TrackersOK(r) /\ r \in RunType /\ r.number \in Nat /\ r.made[t] \in TrackerType /\ TrackerOK(r, t)
  BY DEF TopologyInv, TrackersOK, RunType
<1>2. PICK old : old = r.made[t]
  OBVIOUS
<1>3. PICK now : now = [a \in Agents |-> IF a \in nodes /\ old.nodes[a] = Unregistered THEN r.number ELSE old.nodes[a]]
  OBVIOUS
<1>4. now \in [Agents -> Nat] /\ \A a \in Agents : now[a] # Unregistered => now[a] \in old.run..r.number
  BY <1>1, <1>2, <1>3 DEF TrackerOK, TrackerType
<1>5. PICK new : new = [old EXCEPT !.nodes = now]
  OBVIOUS
<1>6. /\ new \in TrackerType /\ new.run = old.run /\ new.stage = old.stage /\ new.context = old.context
      /\ new.token = old.token /\ new.nodes = now
  BY <1>1, <1>2, <1>4, <1>5 DEF TrackerType
<1>7. PICK made : made = [r.made EXCEPT ![t] = new]
  OBVIOUS
<1>8. s = [r EXCEPT !.made = made]
  BY <1>1, <1>2, <1>3, <1>5, <1>7 DEF Visited, RunType
<1>9. /\ made \in Seq(TrackerType) /\ Len(made) = Len(r.made) /\ DOMAIN made = DOMAIN r.made
      /\ made[t] = new /\ \A x \in DOMAIN r.made : x # t => made[x] = r.made[x]
  BY <1>1, <1>6, <1>7, ExceptSeq DEF RunType
<1>10. /\ s \in RunType /\ s.made = made /\ s.active = r.active /\ s.number = r.number
       /\ s.todo = r.todo /\ s.before = r.before /\ s.handle = r.handle /\ s.attached = r.attached
       /\ s.left = r.left /\ s.report = r.report
  BY <1>1, <1>8, <1>9 DEF RunType
<1>11. Keeps(r, s) /\ \A x \in DOMAIN r.made : s.made[x].token = r.made[x].token
  BY <1>2, <1>6, <1>9, <1>10 DEF Keeps
<1>12. \A x \in DOMAIN s.made : TrackerOK(s, x)
  <2>1. TrackerOK(s, t)
    BY <1>1, <1>2, <1>4, <1>6, <1>9, <1>10 DEF TrackerOK
  <2>2. ASSUME NEW x \in DOMAIN r.made, x # t PROVE TrackerOK(s, x)
    BY <1>1, <1>9, <1>10, <2>2 DEF TrackersOK, TrackerOK
  <2> QED
    BY <1>9, <1>10, <2>1, <2>2
<1>13. TrackersOK(s)
  BY <1>1, <1>9, <1>10, <1>12 DEF TrackersOK
<1>14. Unmoved(r, s)
  BY <1>10, <1>11, <1>13 DEF Unmoved
<1>15. Bound(r, p) => Bound(s, p)
  BY <1>10 DEF Bound, DriverOf
<1> QED
  BY <1>14, <1>15, UnmovedInPlace

Attached(r, s, t) == s = [r EXCEPT !.handle = t, !.attached = TRUE]

LEMMA AttachKeeps ==
    ASSUME JobOK, NEW r, TopologyInv(r), NEW p \in 1..7, AtStage(r, p), InPlace(r, p),
           NEW t \in DOMAIN r.made, NEW s, Attached(r, s, t)
    PROVE  TopologyInv(s)
<1>1. TrackersOK(r) /\ r \in RunType
  BY DEF TopologyInv, TrackersOK
<1>2. t \in Nat /\ t <= Len(r.made) /\ Len(r.made) \in Nat
  <2>1. DOMAIN r.made = 1..Len(r.made) /\ Len(r.made) \in Nat
    BY <1>1, LenProperties DEF RunType
  <2> QED
    BY <2>1
<1>3. s \in RunType
  BY <1>1, <1>2 DEF Attached, RunType
<1>4. /\ s.made = r.made /\ s.active = r.active /\ s.number = r.number
      /\ s.todo = r.todo /\ s.before = r.before /\ s.handle = t
      /\ s.left = r.left /\ s.report = r.report
  BY <1>1 DEF Attached, RunType
<1>5. s.attached = TRUE
  BY <1>1 DEF Attached, RunType
<1>6. TrackersOK(s)
  BY <1>1, <1>2, <1>3, <1>4 DEF TrackersOK, TrackerOK
<1>7. Unmoved(r, s)
  BY <1>4, <1>6 DEF Unmoved, Keeps
<1>8. Bound(s, p)
  BY <1>5 DEF Bound
<1> QED
  BY <1>7, <1>8, UnmovedInPlace

\* A stage of user code ends.
LEMMA StageEnds ==
    ASSUME JobOK, NEW r, TopologyInv(r), NEW p \in 1..7, AtStage(r, p), InPlace(r, p),
           Head(r.todo) \in UserStages, Head(r.todo) # "target"
    PROVE  TopologyInv(Advanced(r))
<1>1. PICK d, n, stage : d = DriverOf(r) /\ n = Len(Stages(d)) /\ stage = Head(r.todo)
  OBVIOUS
<1>2. TrackersOK(r) /\ Reported(r)
  BY DEF TopologyInv
<1>3. /\ d \in DriverKinds /\ n \in 3..7 /\ p \in 1..n
      /\ First(d) \in 1..3 /\ First(d) <= TargetAt(d) /\ TargetAt(d) \in 2..3 /\ TakeAt(d) \in TargetAt(d)..n
      /\ InTime(d, p) /\ stage = Stages(d)[p]
  BY <1>1, <1>2, AtPlace
<1>4. stage \in UserStages /\ stage # "bind" /\ p # TargetAt(d) /\ p + 1 # First(d)
  BY <1>1, <1>3 DEF InTime, UserStages
<1>5. Passed(r, p + 1)
  <2>1. \A q \in 1..p : q \in 1..(p + 1)
    BY <1>3
  <2> QED
    BY <2>1 DEF InPlace, Passed
<1>6. p + 1 \in First(d)..TakeAt(d) => Looking(r) /\ Bound(r, p + 1)
  <2> SUFFICES ASSUME p + 1 \in First(d)..TakeAt(d) PROVE Looking(r) /\ Bound(r, p + 1)
    OBVIOUS
  <2>1. p \in First(d)..TakeAt(d)
    BY <1>3, <1>4
  <2>2. Looking(r) /\ Bound(r, p)
    BY <1>1, <2>1 DEF InPlace
  <2>3. d \in Tests => (p > TargetAt(d) + 1 <=> p + 1 > TargetAt(d) + 1)
    BY <1>3, <1>4 DEF InTime
  <2> QED
    BY <1>1, <2>2, <2>3 DEF Bound
<1>7. p + 1 \in (TargetAt(d) + 1)..TakeAt(d) => LeftOver(r, p + 1)
  <2> SUFFICES ASSUME p + 1 \in (TargetAt(d) + 1)..TakeAt(d) PROVE LeftOver(r, p + 1)
    OBVIOUS
  <2>1. p \in (TargetAt(d) + 1)..TakeAt(d) /\ p + 1 # TargetAt(d) + 1
    BY <1>3, <1>4
  <2> QED
    BY <1>1, <2>1 DEF InPlace, LeftOver
<1>8. p + 1 <= TakeAt(d) => r.report = NoValue
  BY <1>1, <1>3 DEF InPlace
<1>9. InPlace(r, p + 1)
  BY <1>1, <1>5, <1>6, <1>7, <1>8 DEF InPlace
<1>10. ~(p = n /\ d = "agent")
  BY <1>3, <1>4, <1>1 DEF InTime, UserStages
<1> QED
  BY <1>1, <1>2, <1>9, <1>10, Advances

\* The target ends, leaving a tracker active.
LEMMA TargetEnds ==
    ASSUME JobOK, NEW r, TopologyInv(r), NEW p \in 1..7, AtStage(r, p), InPlace(r, p),
           Head(r.todo) = "target", NEW s, s = [r EXCEPT !.left = r.active[TargetContext(r)]]
    PROVE  TopologyInv(Advanced(s))
<1>1. PICK d, n : d = DriverOf(r) /\ n = Len(Stages(d))
  OBVIOUS
<1>2. TrackersOK(r) /\ Reported(r) /\ r \in RunType
  BY DEF TopologyInv, TrackersOK
<1>3. /\ d \in DriverKinds /\ n \in 3..7 /\ p \in 1..n
      /\ First(d) \in 1..3 /\ First(d) <= TargetAt(d) /\ TargetAt(d) \in 2..3 /\ TakeAt(d) \in TargetAt(d)..n
      /\ InTime(d, p) /\ "target" = Stages(d)[p]
  BY <1>1, <1>2, AtPlace
<1>4. p = TargetAt(d) /\ p \in First(d)..TakeAt(d) /\ ~(p = n /\ d = "agent")
  BY <1>1, <1>3 DEF InTime
<1>5. TargetContext(r) \in {"main", "task"} /\ TargetContext(r) \in Contexts(r)
  BY DEF TargetContext, Contexts
<1>6. PICK left : left = r.active[TargetContext(r)]
  OBVIOUS
<1>7. left \in Nat /\ left <= Len(r.made) /\ left \in {Base(r, TargetContext(r))} \union Mine(r, TargetContext(r))
  <2>1. Looking(r)
    BY <1>1, <1>4 DEF InPlace
  <2> QED
    BY <1>2, <1>5, <1>6, <2>1 DEF Looking, TrackersOK, RunType
<1>8. s = [r EXCEPT !.left = left]
  BY <1>6
<1>9. /\ s \in RunType /\ s.made = r.made /\ s.active = r.active /\ s.number = r.number
      /\ s.todo = r.todo /\ s.before = r.before /\ s.handle = r.handle /\ s.attached = r.attached
      /\ s.left = left /\ s.report = r.report
  BY <1>2, <1>7, <1>8 DEF RunType
<1>10. PICK z : z = s
  OBVIOUS
<1>11. TrackersOK(z)
  BY <1>2, <1>7, <1>9, <1>10 DEF TrackersOK, TrackerOK
<1>12. Keeps(r, z)
  BY <1>9, <1>10 DEF Keeps
<1>13. /\ DriverOf(z) = d /\ TargetContext(z) = TargetContext(r) /\ Contexts(z) = Contexts(r)
       /\ \A stages : \A t \in DOMAIN r.made : MadeIn(z, t, stages) <=> MadeIn(r, t, stages)
       /\ \A c : Mine(z, c) = Mine(r, c)
       /\ Replaced(z) <=> Replaced(r)
       /\ Passed(z, p + 1) <=> Passed(r, p + 1)
  BY <1>1, <1>12, KeepsMade
<1>14. \A c : Base(z, c) = Base(r, c)
  BY <1>1, <1>9, <1>10, <1>13 DEF Base
<1>15. Reported(z)
  BY <1>2, <1>9, <1>10, <1>12, KeepsReported
<1>16. AtStage(z, p)
  BY <1>1, <1>9, <1>10, <1>13, StageKept
<1>17. Passed(z, p + 1)
  <2>1. \A q \in 1..p : q \in 1..(p + 1)
    BY <1>3
  <2>2. Passed(r, p + 1)
    BY <2>1 DEF InPlace, Passed
  <2> QED
    BY <1>13, <2>2
<1>18. Looking(z)
  <2>1. Looking(r)
    BY <1>1, <1>4 DEF InPlace
  <2>2. z.made = r.made /\ z.active = r.active
    BY <1>9, <1>10
  <2> QED
    BY <1>1, <1>13, <1>14, <2>1, <2>2 DEF Looking
<1>19. Bound(z, p + 1)
  <2>1. Bound(r, p)
    BY <1>1, <1>4 DEF InPlace
  <2>2. z.handle = r.handle /\ z.attached = r.attached
    BY <1>9, <1>10
  <2>3. ~(p > TargetAt(d) + 1) /\ ~(p + 1 > TargetAt(d) + 1)
    BY <1>3, <1>4
  <2> QED
    BY <1>1, <1>13, <2>1, <2>2, <2>3 DEF Bound
<1>20. LeftOver(z, p + 1)
  <2>1. z.active = r.active /\ z.left = left
    BY <1>9, <1>10
  <2> QED
    BY <1>6, <1>7, <1>13, <1>14, <2>1 DEF LeftOver
<1>21. p + 1 <= TakeAt(d) => z.report = NoValue
  BY <1>1, <1>3, <1>9, <1>10 DEF InPlace
<1>22. InPlace(z, p + 1)
  BY <1>13, <1>17, <1>18, <1>19, <1>20, <1>21 DEF InPlace
<1> QED
  BY <1>1, <1>4, <1>10, <1>11, <1>13, <1>15, <1>16, <1>22, Advances

\* Before a driver looks, none of the trackers is one it will look at.
LEMMA NoneYet ==
    ASSUME JobOK, NEW r, TrackersOK(r), NEW p, AtStage(r, p), p + 1 = First(DriverOf(r)), Passed(r, p)
    PROVE  \A t \in DOMAIN r.made : ~MadeIn(r, t, Looked(DriverOf(r)))
<1>1. PICK d, n : d = DriverOf(r) /\ n = Len(Stages(d))
  OBVIOUS
<1>2. d \in DriverKinds /\ n \in 3..7 /\ p \in 1..n
  BY <1>1, AtPlace
<1>3. First(d) \in 1..3 /\ \A q \in 1..n : InTime(d, q)
  BY <1>1, <1>2, Timetable
<1>4. \A q \in 1..p : Stages(d)[q] \notin Looked(d)
  <2> SUFFICES ASSUME NEW q \in 1..p PROVE Stages(d)[q] \notin Looked(d)
    OBVIOUS
  <2>1. InTime(d, q) /\ ~(q >= First(d))
    BY <1>1, <1>2, <1>3
  <2> QED
    BY <2>1 DEF InTime
<1> QED
  BY <1>1, <1>4 DEF Passed, MadeIn

\* The driver forgets what was active.
LEMMA ResetEnds ==
    ASSUME JobOK, NEW r, TopologyInv(r), NEW p \in 1..7, AtStage(r, p), InPlace(r, p),
           Head(r.todo) = "reset", NEW s, s = [r EXCEPT !.active.main = NoTracker]
    PROVE  TopologyInv(Advanced(s))
<1>1. PICK d, n : d = DriverOf(r) /\ n = Len(Stages(d))
  OBVIOUS
<1>2. TrackersOK(r) /\ Reported(r) /\ r \in RunType
  BY DEF TopologyInv, TrackersOK
<1>3. /\ d \in DriverKinds /\ n \in 3..7 /\ p \in 1..n
      /\ First(d) \in 1..3 /\ First(d) <= TargetAt(d) /\ TargetAt(d) \in 2..3 /\ TakeAt(d) \in TargetAt(d)..n
      /\ InTime(d, p) /\ "reset" = Stages(d)[p]
  BY <1>1, <1>2, AtPlace
<1>4. d \notin Tests /\ (p + 1 = First(d) \/ p > TakeAt(d))
  BY <1>3 DEF InTime
<1>5. PICK active : active = [r.active EXCEPT !.main = NoTracker]
  OBVIOUS
<1>6. active \in [{"main", "task"} -> Nat] /\ active["main"] = NoTracker /\ active["task"] = r.active["task"]
  BY <1>2, <1>5 DEF RunType, NoTracker
<1>7. s = [r EXCEPT !.active = active]
  BY <1>2, <1>5 DEF RunType
<1>8. /\ s \in RunType /\ s.made = r.made /\ s.active = active /\ s.number = r.number
      /\ s.todo = r.todo /\ s.before = r.before /\ s.handle = r.handle /\ s.attached = r.attached
      /\ s.left = r.left /\ s.report = r.report
  BY <1>2, <1>6, <1>7 DEF RunType
<1>9. PICK z : z = s
  OBVIOUS
<1>10. Len(r.made) \in Nat
  BY <1>2, LenProperties DEF RunType
<1>11. TrackersOK(z)
  <2>1. \A c \in {"main", "task"} : active[c] <= Len(r.made)
    BY <1>2, <1>6, <1>10 DEF TrackersOK, NoTracker
  <2> QED
    BY <1>2, <1>8, <1>9, <2>1 DEF TrackersOK, TrackerOK
<1>12. Keeps(r, z)
  BY <1>8, <1>9 DEF Keeps
<1>13. /\ DriverOf(z) = d
       /\ \A stages : \A t \in DOMAIN r.made : MadeIn(z, t, stages) <=> MadeIn(r, t, stages)
       /\ Passed(z, p + 1) <=> Passed(r, p + 1)
  BY <1>1, <1>12, KeepsMade
<1>14. Reported(z)
  BY <1>2, <1>8, <1>9, <1>12, KeepsReported
<1>15. AtStage(z, p)
  BY <1>1, <1>8, <1>9, <1>13, StageKept
<1>16. Passed(z, p + 1)
  <2>1. \A q \in 1..p : q \in 1..(p + 1)
    BY <1>3
  <2>2. Passed(r, p + 1)
    BY <2>1 DEF InPlace, Passed
  <2> QED
    BY <1>13, <2>2
<1>17. p + 1 = First(d) => Looking(z)
  <2> SUFFICES ASSUME p + 1 = First(d) PROVE Looking(z)
    OBVIOUS
  <2>1. \A t \in DOMAIN z.made : ~MadeIn(z, t, Looked(d))
    BY <1>1, <1>2, <1>8, <1>9, <1>13, NoneYet DEF InPlace
  <2>2. Contexts(z) = {"main"} /\ Base(z, "main") = NoTracker /\ Mine(z, "main") = {} /\ z.active["main"] = NoTracker
    BY <1>4, <1>6, <1>8, <1>9, <1>13, <2>1 DEF Contexts, Base, Mine
  <2> QED
    BY <1>13, <2>1, <2>2 DEF Looking
<1>18. Bound(z, p + 1)
  BY <1>4, <1>13 DEF Bound
<1>19. p + 1 <= TakeAt(d) => z.report = NoValue
  BY <1>1, <1>3, <1>8, <1>9 DEF InPlace
<1>20. p + 1 \notin (TargetAt(d) + 1)..TakeAt(d) /\ (p + 1 \in First(d)..TakeAt(d) => p + 1 = First(d))
  BY <1>3, <1>4
<1>21. InPlace(z, p + 1)
  BY <1>13, <1>16, <1>17, <1>18, <1>19, <1>20 DEF InPlace
<1>22. z.active["main"] = NoTracker
  BY <1>6, <1>8, <1>9
<1> QED
  BY <1>1, <1>9, <1>11, <1>13, <1>14, <1>15, <1>21, <1>22, Advances

\* A test notes what is active before it.
NotedBy(r, s, task) ==
    s = [r EXCEPT !.active.task = task, !.handle = NoTracker, !.attached = FALSE,
                  !.before = [main |-> r.active.main, task |-> task]]

LEMMA NoteEnds ==
    ASSUME JobOK, NEW r, TopologyInv(r), NEW p \in 1..7, AtStage(r, p), InPlace(r, p), Head(r.todo) = "note",
           NEW task \in {r.active.main, r.active.task}, NEW s, NotedBy(r, s, task)
    PROVE  TopologyInv(Advanced(s))
<1>1. PICK d, n : d = DriverOf(r) /\ n = Len(Stages(d))
  OBVIOUS
<1>2. TrackersOK(r) /\ Reported(r) /\ r \in RunType
  BY DEF TopologyInv, TrackersOK
<1>3. /\ d \in DriverKinds /\ n \in 3..7 /\ p \in 1..n
      /\ First(d) \in 1..3 /\ First(d) <= TargetAt(d) /\ TargetAt(d) \in 2..3 /\ TakeAt(d) \in TargetAt(d)..n
      /\ InTime(d, p) /\ "note" = Stages(d)[p]
  BY <1>1, <1>2, AtPlace
<1>4. d \in Tests /\ p + 1 = First(d) /\ d # "agent"
  BY <1>3 DEF InTime, Tests
<1>5. PICK active, before : /\ active = [r.active EXCEPT !.task = task]
                            /\ before = [main |-> r.active.main, task |-> task]
  OBVIOUS
<1>6. task \in Nat /\ task <= Len(r.made) /\ r.active["main"] \in Nat /\ r.active["main"] <= Len(r.made)
  BY <1>2 DEF TrackersOK, RunType
<1>7. /\ active \in [{"main", "task"} -> Nat] /\ active["main"] = r.active["main"] /\ active["task"] = task
      /\ before \in [{"main", "task"} -> Nat] /\ before["main"] = r.active["main"] /\ before["task"] = task
  BY <1>2, <1>5, <1>6 DEF RunType
<1>8. s = [r EXCEPT !.active = active, !.handle = NoTracker, !.attached = FALSE, !.before = before]
  BY <1>2, <1>5 DEF RunType, NotedBy
<1>9. /\ s \in RunType /\ s.made = r.made /\ s.active = active /\ s.number = r.number
      /\ s.todo = r.todo /\ s.before = before /\ s.handle = NoTracker
      /\ s.left = r.left /\ s.report = r.report
  BY <1>2, <1>7, <1>8 DEF RunType, NoTracker
<1>10. Len(r.made) \in Nat
  BY <1>2, LenProperties DEF RunType
<1>11. TrackersOK(s)
  <2>1. \A c \in {"main", "task"} : active[c] <= Len(r.made) /\ before[c] <= Len(r.made)
    BY <1>6, <1>7
  <2>2. NoTracker <= Len(r.made)
    BY <1>10 DEF NoTracker
  <2> QED
    BY <1>2, <1>9, <2>1, <2>2 DEF TrackersOK, TrackerOK
<1>12. Keeps(r, s)
  BY <1>9 DEF Keeps
<1>13. /\ DriverOf(s) = d
       /\ \A stages : \A t \in DOMAIN r.made : MadeIn(s, t, stages) <=> MadeIn(r, t, stages)
       /\ Passed(s, p + 1) <=> Passed(r, p + 1)
  BY <1>1, <1>12, KeepsMade
<1>14. Reported(s)
  BY <1>2, <1>9, <1>12, KeepsReported
<1>15. AtStage(s, p)
  BY <1>1, <1>9, <1>13, StageKept
<1>16. Passed(s, p + 1)
  <2>1. \A q \in 1..p : q \in 1..(p + 1)
    BY <1>3
  <2>2. Passed(r, p + 1)
    BY <2>1 DEF InPlace, Passed
  <2> QED
    BY <1>13, <2>2
<1>17. Looking(s)
  <2>1. \A t \in DOMAIN s.made : ~MadeIn(s, t, Looked(d))
    BY <1>1, <1>2, <1>4, <1>9, <1>13, NoneYet DEF InPlace
  <2>2. \A c \in {"main", "task"} : s.active[c] = Base(s, c) /\ Mine(s, c) = {}
    BY <1>4, <1>7, <1>9, <1>13, <2>1 DEF Base, Mine
  <2> QED
    BY <1>13, <2>1, <2>2 DEF Looking, Contexts
<1>18. Bound(s, p + 1)
  <2>1. ~(p + 1 > TargetAt(d) + 1)
    BY <1>3, <1>4
  <2> QED
    BY <1>9, <1>13, <2>1 DEF Bound
<1>19. p + 1 <= TakeAt(d) => s.report = NoValue
  BY <1>1, <1>3, <1>9 DEF InPlace
<1>20. p + 1 \notin (TargetAt(d) + 1)..TakeAt(d)
  BY <1>3, <1>4
<1>21. InPlace(s, p + 1)
  BY <1>13, <1>16, <1>17, <1>18, <1>19, <1>20 DEF InPlace
<1> QED
  BY <1>1, <1>4, <1>11, <1>13, <1>14, <1>15, <1>21, Advances

\* The target is interrupted.
LEMMA CutShort ==
    ASSUME JobOK, NEW r, TopologyInv(r), NEW p \in 1..7, AtStage(r, p), InPlace(r, p), Head(r.todo) = "target",
           NEW todo \in {<<>>, <<"bind">>, <<"target">>}, NEW s, s = [r EXCEPT !.todo = todo]
    PROVE  /\ todo = <<>> => TopologyInv(s)
           /\ todo = <<"bind">> /\ DriverOf(r) = "plugin" => TopologyInv(s)
           /\ todo = <<"target">> /\ DriverOf(r) # "agent" => TopologyInv(Advanced(s))
<1>1. PICK d, n : d = DriverOf(r) /\ n = Len(Stages(d))
  OBVIOUS
<1>2. TrackersOK(r) /\ Reported(r) /\ r \in RunType
  BY DEF TopologyInv, TrackersOK
<1>3. TargetAt(d) <= TakeAt(d) /\ InTime(d, p) /\ "target" = Stages(d)[p] /\ TargetAt(d) \in 2..3
  <2>1. /\ TargetAt(d) \in 2..3 /\ TakeAt(d) \in TargetAt(d)..n /\ n \in 3..7
        /\ InTime(d, p) /\ "target" = Stages(d)[p]
    BY <1>1, <1>2, AtPlace
  <2> QED
    BY <2>1
<1>4. r.report = NoValue
  BY <1>1, <1>3 DEF InTime, InPlace
<1>5. todo \in Seq(StageNames)
  <2>1. <<>> \in Seq(StageNames) /\ <<"bind">> \in Seq(StageNames) /\ <<"target">> \in Seq(StageNames)
    BY DEF StageNames
  <2> QED
    BY <2>1
<1>6. PICK z : z = s
  OBVIOUS
<1>7. Alike(r, z) /\ z.todo = todo /\ z \in RunType
  BY <1>2, <1>5, <1>6 DEF Alike, RunType
<1>8. TrackersOK(z) /\ Reported(z) /\ DriverOf(z) = d /\ z.report = NoValue
  BY <1>1, <1>2, <1>4, <1>7, AlikeTrackers, AlikeReported DEF Alike, DriverOf
<1>9. todo = <<>> => TopologyInv(z)
  BY <1>7, <1>8 DEF TopologyInv
<1>10. todo = <<"bind">> /\ d = "plugin" => TopologyInv(z)
  BY <1>7, <1>8 DEF TopologyInv, Cut
<1>11. todo = <<"target">> /\ d # "agent" => TopologyInv(Advanced(z))
  <2> SUFFICES ASSUME todo = <<"target">>, d # "agent" PROVE TopologyInv(Advanced(z))
    OBVIOUS
  <2>1. Len(z.todo) <= 1
    BY <1>7
  <2> QED
    BY <1>8, <2>1, Ended
<1> QED
  BY <1>1, <1>6, <1>9, <1>10, <1>11

LEMMA LookingReleased ==
    ASSUME NEW r, NEW t \in DOMAIN r.made, MadeIn(r, t, Looked(DriverOf(r))), Looking(r), NEW s, Keeps(r, s),
           s.before = r.before,
           \A x \in DOMAIN r.made : s.made[x].token \in {Used, r.made[x].token},
           \A c \in {"main", "task"} :
               s.active[c] = IF c = r.made[t].context /\ r.made[t].token # Used THEN r.made[t].token ELSE r.active[c]
    PROVE  Looking(s)
<1>1. PICK d : d = DriverOf(r)
  OBVIOUS
<1>2. /\ DriverOf(s) = d /\ TargetContext(s) = TargetContext(r) /\ Contexts(s) = Contexts(r)
      /\ \A stages : \A x \in DOMAIN r.made : MadeIn(s, x, stages) <=> MadeIn(r, x, stages)
      /\ \A c : Mine(s, c) = Mine(r, c)
  BY <1>1, KeepsMade
<1>3. \A c : Base(s, c) = Base(r, c)
  BY <1>1, <1>2 DEF Base
<1>4. PICK c0, t0 : c0 = r.made[t].context /\ t0 = r.made[t].token
  OBVIOUS
<1>5. c0 \in Contexts(r) /\ t0 \in {Used, Base(r, c0)} \union Mine(r, c0)
  BY <1>4 DEF Looking
<1>6. ASSUME NEW c \in Contexts(r) PROVE s.active[c] \in {Base(s, c)} \union Mine(s, c) /\ Base(s, c) \notin Mine(s, c)
  <2>1. c \in {"main", "task"} /\ r.active[c] \in {Base(r, c)} \union Mine(r, c) /\ Base(r, c) \notin Mine(r, c)
    BY DEF Looking, Contexts
  <2>2. s.active[c] = IF c = c0 /\ t0 # Used THEN t0 ELSE r.active[c]
    BY <1>4, <2>1
  <2> QED
    BY <1>2, <1>3, <1>5, <2>1, <2>2
<1>7. ASSUME NEW x \in DOMAIN r.made, MadeIn(r, x, Looked(d))
      PROVE  /\ s.made[x].context \in Contexts(s)
             /\ s.made[x].token \in {Used, Base(s, s.made[x].context)} \union Mine(s, s.made[x].context)
             /\ s.made[x].stage = "target" => s.made[x].context = TargetContext(s)
             /\ s.made[x].stage # "target" => s.made[x].context = "main"
  <2>1. /\ r.made[x].context \in Contexts(r)
        /\ r.made[x].token \in {Used, Base(r, r.made[x].context)} \union Mine(r, r.made[x].context)
        /\ r.made[x].stage = "target" => r.made[x].context = TargetContext(r)
        /\ r.made[x].stage # "target" => r.made[x].context = "main"
    BY <1>1, <1>7 DEF Looking
  <2>2. /\ s.made[x].context = r.made[x].context /\ s.made[x].stage = r.made[x].stage
        /\ s.made[x].token \in {Used, r.made[x].token}
    BY DEF Keeps
  <2> QED
    BY <1>2, <1>3, <2>1, <2>2
<1> QED
  BY <1>2, <1>6, <1>7 DEF Looking, Keeps

\* What _bind_session leaves: the session's tracker bound and released, or nothing changed.
BoundTo(r) ==
    LET t == r.active.task
    IN  IF job.tests = "bound" /\ t \notin {NoTracker, r.before.task}
        THEN Released([r EXCEPT !.handle = IF @ = NoTracker THEN t ELSE @], t)
        ELSE r

LEMMA BoundToIs ==
    ASSUME NEW r, TrackersOK(r), Reported(r), NEW t, t = r.active["task"],
           job.tests = "bound", t # NoTracker, t # r.before["task"], NEW s, s = BoundTo(r)
    PROVE  /\ TrackersOK(s) /\ Reported(s) /\ Keeps(r, s) /\ t \in DOMAIN r.made
           /\ s.todo = r.todo /\ s.before = r.before /\ s.attached = r.attached
           /\ s.handle = IF r.handle = NoTracker THEN t ELSE r.handle
           /\ s.left = r.left /\ s.report = r.report
           /\ \A x \in DOMAIN r.made : s.made[x].token \in {Used, r.made[x].token}
           /\ \A c \in {"main", "task"} :
                 s.active[c] = IF c = r.made[t].context /\ r.made[t].token # Used THEN r.made[t].token ELSE r.active[c]
<1>1. r \in RunType /\ Len(r.made) \in Nat /\ DOMAIN r.made = 1..Len(r.made)
  BY LenProperties DEF TrackersOK, RunType
<1>2. t \in Nat /\ t <= Len(r.made) /\ t \in DOMAIN r.made
  BY <1>1 DEF TrackersOK, RunType, NoTracker
<1>3. PICK handle : handle = IF r.handle = NoTracker THEN t ELSE r.handle
  OBVIOUS
<1>4. handle \in Nat /\ handle <= Len(r.made)
  BY <1>1, <1>2, <1>3 DEF TrackersOK, RunType
<1>5. PICK y : y = [r EXCEPT !.handle = handle]
  OBVIOUS
<1>6. s = Released(y, t)
  BY <1>3, <1>5 DEF BoundTo
<1>7. /\ y \in RunType /\ y.made = r.made /\ y.active = r.active /\ y.number = r.number
      /\ y.todo = r.todo /\ y.before = r.before /\ y.handle = handle /\ y.attached = r.attached
      /\ y.left = r.left /\ y.report = r.report
  BY <1>1, <1>4, <1>5 DEF RunType
<1>8. PICK x : x = y
  OBVIOUS
<1>9. TrackersOK(x)
  BY <1>4, <1>7, <1>8 DEF TrackersOK, TrackerOK
<1>10. /\ TrackersOK(s) /\ Keeps(x, s)
       /\ s.todo = x.todo /\ s.before = x.before /\ s.handle = x.handle /\ s.attached = x.attached
       /\ s.left = x.left /\ s.report = x.report
       /\ \A k \in DOMAIN x.made : s.made[k].token \in {Used, x.made[k].token}
       /\ \A c \in {"main", "task"} :
             s.active[c] = IF c = x.made[t].context /\ x.made[t].token # Used THEN x.made[t].token ELSE x.active[c]
  <2>1. t \in DOMAIN x.made /\ s = Released(x, t)
    BY <1>2, <1>6, <1>7, <1>8
  <2> QED
    BY <1>9, <2>1, ReleasedIs
<1>11. Keeps(r, s) /\ s.report = r.report
  BY <1>7, <1>8, <1>10 DEF Keeps
<1>12. Reported(s)
  BY <1>1, <1>11, KeepsReported
<1> QED
  BY <1>2, <1>3, <1>7, <1>8, <1>10, <1>11, <1>12

LEMMA BindEnds ==
    ASSUME JobOK, NEW r, TopologyInv(r), NEW p \in 1..7, AtStage(r, p), InPlace(r, p), Head(r.todo) = "bind"
    PROVE  TopologyInv(Advanced(BoundTo(r)))
<1>1. PICK d, n : d = DriverOf(r) /\ n = Len(Stages(d))
  OBVIOUS
<1>2. TrackersOK(r) /\ Reported(r)
  BY DEF TopologyInv
<1>3. /\ d \in DriverKinds /\ n \in 3..7 /\ p \in 1..n
      /\ First(d) \in 1..3 /\ First(d) <= TargetAt(d) /\ TargetAt(d) \in 2..3 /\ TakeAt(d) \in TargetAt(d)..n
      /\ InTime(d, p) /\ "bind" = Stages(d)[p]
  BY <1>1, <1>2, AtPlace
<1>4. d \in Tests /\ p = TargetAt(d) + 1 /\ d # "agent"
  BY <1>3 DEF InTime, Tests
<1>5. PICK t : t = r.active["task"]
  OBVIOUS
<1>6. PICK s : s = BoundTo(r)
  OBVIOUS
<1>7. PICK bound \in BOOLEAN : bound <=> (job.tests = "bound" /\ t # NoTracker /\ t # r.before["task"])
  OBVIOUS
<1>8. ~bound => s = r
  BY <1>5, <1>6, <1>7 DEF BoundTo
<1>9. bound => /\ TrackersOK(s) /\ Reported(s) /\ Keeps(r, s) /\ t \in DOMAIN r.made
               /\ s.todo = r.todo /\ s.before = r.before /\ s.attached = r.attached
               /\ s.handle = IF r.handle = NoTracker THEN t ELSE r.handle
               /\ s.left = r.left /\ s.report = r.report
               /\ \A x \in DOMAIN r.made : s.made[x].token \in {Used, r.made[x].token}
               /\ \A c \in {"main", "task"} :
                     s.active[c] = IF c = r.made[t].context /\ r.made[t].token # Used THEN r.made[t].token ELSE r.active[c]
  BY <1>2, <1>5, <1>6, <1>7, BoundToIs
<1>10. /\ TrackersOK(s) /\ Reported(s) /\ Keeps(r, s)
       /\ s.todo = r.todo /\ s.before = r.before /\ s.left = r.left /\ s.report = r.report
  BY <1>2, <1>8, <1>9 DEF Keeps
<1>11. /\ DriverOf(s) = d /\ TargetContext(s) = TargetContext(r)
       /\ \A c : Mine(s, c) = Mine(r, c)
       /\ Replaced(s) <=> Replaced(r)
       /\ Passed(s, p + 1) <=> Passed(r, p + 1)
  BY <1>1, <1>10, KeepsMade
<1>12. \A c : Base(s, c) = Base(r, c)
  BY <1>1, <1>10, <1>11 DEF Base
<1>13. AtStage(s, p)
  BY <1>1, <1>10, <1>11, StageKept
<1>14. Passed(s, p + 1)
  <2>1. \A q \in 1..p : q \in 1..(p + 1)
    BY <1>3
  <2>2. Passed(r, p + 1)
    BY <2>1 DEF InPlace, Passed
  <2> QED
    BY <1>11, <2>2
<1>15. p + 1 <= TakeAt(d) => Looking(s) /\ Bound(s, p + 1) /\ LeftOver(s, p + 1)
  <2> SUFFICES ASSUME p + 1 <= TakeAt(d) PROVE Looking(s) /\ Bound(s, p + 1) /\ LeftOver(s, p + 1)
    OBVIOUS
  <2>1. p \in First(d)..TakeAt(d) /\ p \in (TargetAt(d) + 1)..TakeAt(d)
    BY <1>3, <1>4
  <2>2. Looking(r) /\ Bound(r, p) /\ LeftOver(r, p)
    BY <1>1, <2>1 DEF InPlace
  <2>3. job.tests = "bound" => TargetContext(r) = "task" /\ r.left = t
    BY <1>1, <1>4, <1>5, <2>2 DEF LeftOver, TargetContext
  <2>4. ~(p > TargetAt(d) + 1) /\ p + 1 > TargetAt(d) + 1 /\ p + 1 # TargetAt(d) + 1
    BY <1>3, <1>4
  <2>5. ~r.attached => r.handle = NoTracker
    BY <1>1, <1>4, <2>2, <2>4 DEF Bound
  <2>6. CASE ~bound
    <3>1. Bound(r, p + 1)
      BY <1>1, <1>7, <2>3, <2>5, <2>6 DEF Bound
    <3>2. LeftOver(r, p + 1)
      BY <1>1, <2>2, <2>4 DEF LeftOver
    <3> QED
      BY <1>8, <2>2, <2>6, <3>1, <3>2
  <2>7. CASE bound
    <3>1. Base(r, "task") = r.before["task"] /\ "task" \in Contexts(r)
      BY <1>1, <1>4 DEF Base, Contexts
    <3>2. t \in Mine(r, "task")
      BY <1>5, <1>7, <2>2, <2>7, <3>1 DEF Looking
    <3>3. t \in DOMAIN r.made /\ MadeIn(r, t, Looked(d)) /\ r.made[t].context = "task"
      BY <1>1, <3>2 DEF Mine
    <3>4. Looking(s)
      BY <1>1, <1>9, <1>10, <2>2, <2>7, <3>3, LookingReleased
    <3>5. Bound(s, p + 1)
      <4> SUFFICES ASSUME ~s.attached PROVE s.handle = r.left /\ r.left # NoTracker /\ r.left # r.before["task"]
        BY <1>4, <1>7, <1>10, <1>11, <2>4, <2>7 DEF Bound
      <4>1. s.handle = IF r.handle = NoTracker THEN t ELSE r.handle
        BY <1>9, <2>7
      <4>2. r.handle = NoTracker
        BY <1>9, <2>5, <2>7
      <4> QED
        BY <1>7, <2>3, <2>7, <4>1, <4>2
    <3>6. LeftOver(s, p + 1)
      <4>1. TargetContext(s) = "task"
        BY <1>7, <1>11, <2>3, <2>7
      <4>2. r.left \in {Base(r, "task")} \union Mine(r, "task")
        BY <1>7, <2>2, <2>3, <2>7 DEF LeftOver
      <4> QED
        BY <1>10, <1>11, <1>12, <2>4, <4>1, <4>2 DEF LeftOver
    <3> QED
      BY <3>4, <3>5, <3>6
  <2> QED
    BY <2>6, <2>7
<1>16. p + 1 <= TakeAt(d) => s.report = NoValue
  BY <1>1, <1>3, <1>10 DEF InPlace
<1>17. /\ p + 1 \in First(d)..TakeAt(d) => p + 1 <= TakeAt(d)
       /\ p + 1 \in (TargetAt(d) + 1)..TakeAt(d) => p + 1 <= TakeAt(d)
  BY <1>3
<1>18. InPlace(s, p + 1)
  BY <1>11, <1>14, <1>15, <1>16, <1>17 DEF InPlace
<1> QED
  BY <1>1, <1>4, <1>6, <1>10, <1>11, <1>13, <1>18, Advances

LEMMA BindCut ==
    ASSUME JobOK, NEW r, TopologyInv(r), Cut(r)
    PROVE  TopologyInv(Advanced(BoundTo(r)))
<1>1. TrackersOK(r) /\ Reported(r) /\ DriverOf(r) = "plugin" /\ r.todo = <<"bind">>
  BY DEF TopologyInv, Cut
<1>2. PICK s, t : s = BoundTo(r) /\ t = r.active["task"]
  OBVIOUS
<1>3. TrackersOK(s) /\ Reported(s) /\ Keeps(r, s) /\ s.todo = r.todo
  <2>1. CASE job.tests = "bound" /\ t # NoTracker /\ t # r.before["task"]
    BY <1>1, <1>2, <2>1, BoundToIs
  <2>2. CASE ~(job.tests = "bound" /\ t # NoTracker /\ t # r.before["task"])
    <3>1. s = r
      BY <1>2, <2>2 DEF BoundTo
    <3> QED
      BY <1>1, <3>1 DEF Keeps
  <2> QED
    BY <2>1, <2>2
<1>4. Len(s.todo) <= 1
  BY <1>1, <1>3
<1>5. DriverOf(s) # "agent"
  BY <1>1, <1>3, KeepsMade
<1> QED
  BY <1>2, <1>3, <1>4, <1>5, Ended

\* What a driver takes when no tracker was attached: one that was made since it looks,
\* and the one the target left if no other replaced it.
LEMMA ShownIs ==
    ASSUME JobOK, NEW r, r = run, TopologyInv(r), NEW p \in 1..7, AtStage(r, p), InPlace(r, p), Head(r.todo) = "take",
           NEW shown, shown = Shown
    PROVE  /\ shown \in Nat /\ shown <= Len(r.made) /\ p = TakeAt(DriverOf(r)) /\ p > TargetAt(DriverOf(r))
           /\ DriverOf(r) # "agent" \/ p # Len(Stages(DriverOf(r)))
           /\ ~(DriverOf(r) \in Tests /\ r.attached) /\ shown # NoTracker => MadeIn(r, shown, Looked(DriverOf(r)))
           /\ /\ ~(DriverOf(r) \in Tests /\ r.attached) /\ HasNodes(r.left) /\ MadeIn(r, r.left, {"target"}) /\ ~Replaced(r)
              /\ DriverOf(r) \in Tests => job.tests # "copied"
              => shown = r.left
<1>1. PICK d, n : d = DriverOf(r) /\ n = Len(Stages(d))
  OBVIOUS
<1>2. TrackersOK(r) /\ r \in RunType
  BY DEF TopologyInv, TrackersOK
<1>3. /\ d \in DriverKinds /\ n \in 3..7 /\ p \in 1..n
      /\ First(d) \in 1..3 /\ First(d) <= TargetAt(d) /\ TargetAt(d) \in 2..3 /\ TakeAt(d) \in TargetAt(d)..n
      /\ InTime(d, p) /\ "take" = Stages(d)[p]
  BY <1>1, <1>2, AtPlace
<1>4. p = TakeAt(d) /\ p # TargetAt(d) /\ ~(p = n /\ d = "agent") /\ (d \in Tests => p # TargetAt(d) + 1)
  BY <1>1, <1>3 DEF InTime
<1>5. p \in First(d)..TakeAt(d) /\ p \in (TargetAt(d) + 1)..TakeAt(d) /\ p > TargetAt(d)
      /\ (d \in Tests => p > TargetAt(d) + 1)
  BY <1>3, <1>4
<1>6. Looking(r) /\ Bound(r, p) /\ LeftOver(r, p)
  BY <1>1, <1>5 DEF InPlace
<1>7. Driver = d
  BY <1>1 DEF Driver, DriverOf
<1>8. PICK active : active = r.active["main"]
  OBVIOUS
<1>9. /\ active \in Nat /\ active <= Len(r.made) /\ r.handle \in Nat /\ r.handle <= Len(r.made)
      /\ NoTracker \in Nat /\ NoTracker <= Len(r.made)
  BY <1>2, <1>8, LenProperties DEF TrackersOK, RunType, NoTracker
<1>10. /\ d \in Tests /\ r.handle # NoTracker => shown = r.handle
       /\ d \in Tests /\ r.handle = NoTracker =>
             shown = IF active # NoTracker /\ active # r.before["main"] THEN active ELSE NoTracker
       /\ d \notin Tests => shown = IF HasNodes(active) THEN active ELSE NoTracker
  BY <1>7, <1>8 DEF Shown, NewlyActive
<1>11. "main" \in Contexts(r) /\ TargetContext(r) \in Contexts(r)
  BY DEF Contexts, TargetContext
<1>12. active \in {Base(r, "main")} \union Mine(r, "main")
  BY <1>6, <1>8, <1>11 DEF Looking
<1>13. \A c : \A t \in Mine(r, c) : MadeIn(r, t, Looked(d))
  BY <1>1 DEF Mine
<1>14. shown \in Nat /\ shown <= Len(r.made)
  BY <1>9, <1>10
<1>15. ASSUME ~(d \in Tests /\ r.attached), shown # NoTracker PROVE MadeIn(r, shown, Looked(d))
  <2>1. CASE d \in Tests /\ r.handle # NoTracker
    <3>1. /\ shown = r.left /\ r.left # r.before["task"] /\ job.tests = "bound"
      BY <1>1, <1>6, <1>10, <1>15, <2>1 DEF Bound
    <3>2. TargetContext(r) = "task" /\ Base(r, "task") = r.before["task"]
      BY <1>1, <2>1, <3>1 DEF TargetContext, Base
    <3> QED
      BY <1>6, <1>13, <3>1, <3>2 DEF LeftOver
  <2>2. CASE d \in Tests /\ r.handle = NoTracker
    <3>1. shown = active /\ active # r.before["main"]
      BY <1>10, <1>15, <2>2
    <3>2. Base(r, "main") = r.before["main"]
      BY <1>1, <2>2 DEF Base
    <3> QED
      BY <1>12, <1>13, <3>1, <3>2
  <2>3. CASE d \notin Tests
    <3>1. shown = active /\ Base(r, "main") = NoTracker
      BY <1>1, <1>10, <1>15, <2>3 DEF Base
    <3> QED
      BY <1>12, <1>13, <1>15, <3>1
  <2> QED
    BY <2>1, <2>2, <2>3
<1>16. ASSUME ~(d \in Tests /\ r.attached), HasNodes(r.left), MadeIn(r, r.left, {"target"}), ~Replaced(r),
              d \in Tests => job.tests # "copied"
       PROVE  shown = r.left
  <2>1. PICK left : left = r.left
    OBVIOUS
  <2>2. left # NoTracker /\ left \in DOMAIN r.made
    <3>1. left # NoTracker
      BY <1>16, <2>1 DEF HasNodes
    <3>2. DOMAIN r.made = 1..Len(r.made) /\ Len(r.made) \in Nat
      BY <1>2, LenProperties DEF RunType
    <3>3. left \in Nat /\ left <= Len(r.made)
      BY <1>2, <2>1 DEF TrackersOK, RunType
    <3> QED
      BY <3>1, <3>2, <3>3 DEF NoTracker
  <2>3. "target" \in Looked(d)
    BY DEF Looked, UserStages
  <2>4. MadeIn(r, left, Looked(d)) /\ r.made[left].stage = "target"
    BY <1>16, <2>1, <2>3 DEF MadeIn
  <2>5. r.made[left].context = TargetContext(r)
    BY <1>1, <1>6, <2>2, <2>4 DEF Looking
  <2>6. left \in Mine(r, TargetContext(r))
    BY <1>1, <2>2, <2>4, <2>5 DEF Mine
  <2>7. left # Base(r, TargetContext(r))
    BY <1>6, <1>11, <2>6 DEF Looking
  <2>8. CASE TargetContext(r) = "main"
    <3>1. active = left
      BY <1>6, <1>8, <1>16, <2>1, <2>8 DEF LeftOver
    <3>2. CASE d \notin Tests
      BY <1>10, <1>16, <2>1, <3>1, <3>2
    <3>3. CASE d \in Tests
      <4>1. job.tests = "plain" /\ Base(r, "main") = r.before["main"]
        BY <1>1, <2>8, <3>3 DEF TargetContext, Base
      <4>2. r.handle = NoTracker
        BY <1>1, <1>6, <1>16, <3>3, <4>1 DEF Bound
      <4> QED
        BY <1>10, <2>1, <2>2, <2>7, <2>8, <3>1, <3>3, <4>1, <4>2
    <3> QED
      BY <3>2, <3>3
  <2>9. CASE TargetContext(r) # "main"
    <3>1. d \in Tests /\ TargetContext(r) = "task" /\ job.tests # "plain"
      BY <1>1, <2>9 DEF TargetContext
    <3>2. job.tests = "bound" /\ Base(r, "task") = r.before["task"]
      BY <1>1, <1>16, <3>1, JobIs DEF Base
    <3>3. r.handle = left
      BY <1>1, <1>5, <1>6, <1>16, <2>1, <2>2, <2>7, <3>1, <3>2 DEF Bound
    <3> QED
      BY <1>10, <2>1, <2>2, <3>1, <3>3
  <2> QED
    BY <2>8, <2>9
<1> QED
  BY <1>1, <1>4, <1>5, <1>14, <1>15, <1>16

\* A tracker is taken into the report.
LEMMA TakeKeeps ==
    ASSUME JobOK, TopologyInv(run), NEW p \in 1..7, AtStage(run, p), InPlace(run, p), Take
    PROVE  TopologyInv(run')
<1>1. PICK r : r = run
  OBVIOUS
<1>2. PICK d, n : d = DriverOf(r) /\ n = Len(Stages(d))
  OBVIOUS
<1>3. PICK shown, left : shown = Shown /\ left = IF HasNodes(r.left) THEN r.left ELSE NoTracker
  OBVIOUS
<1>4. PICK nodes : nodes = IF shown = NoTracker THEN <<>> ELSE r.made[shown].nodes
  OBVIOUS
<1>5. PICK attached \in BOOLEAN : attached <=> (Driver \in Tests /\ r.attached)
  OBVIOUS
<1>6. PICK report : report = [tracker |-> shown, attached |-> attached, left |-> left, nodes |-> nodes]
  OBVIOUS
<1>7. PICK after : after = IF Driver \in Tests /\ r.handle = NoTracker /\ NewlyActive
                           THEN Released(r, r.active.main) ELSE r
  OBVIOUS
<1>8. PICK s : s = [after EXCEPT !.report = report, !.handle = NoTracker, !.attached = FALSE]
  OBVIOUS
<1>9. Head(r.todo) = "take" /\ TopologyInv(r) /\ AtStage(r, p) /\ InPlace(r, p) /\ TrackersOK(r) /\ r \in RunType
  BY <1>1 DEF Take, OnStage, TopologyInv, TrackersOK
<1>10. run' = Advanced(s)
  <2>1. attached = (Driver \in Tests /\ run.attached)
    BY <1>1, <1>5
  <2> QED
    BY <1>1, <1>3, <1>4, <1>6, <1>7, <1>8, <2>1 DEF Take
<1>11. Driver = d
  BY <1>1, <1>2 DEF Driver, DriverOf
<1>12. /\ shown \in Nat /\ shown <= Len(r.made) /\ p = TakeAt(d) /\ p > TargetAt(d)
       /\ d # "agent" \/ p # n
       /\ ~attached /\ shown # NoTracker => MadeIn(r, shown, Looked(d))
       /\ /\ ~attached /\ HasNodes(r.left) /\ MadeIn(r, r.left, {"target"}) /\ ~Replaced(r)
          /\ d \in Tests => job.tests # "copied"
          => shown = r.left
  BY <1>1, <1>2, <1>3, <1>5, <1>9, <1>11, ShownIs
<1>13. DOMAIN r.made = 1..Len(r.made) /\ Len(r.made) \in Nat
  BY <1>9, LenProperties DEF RunType
<1>14. left \in Nat /\ left <= Len(r.made) /\ (left # NoTracker => left = r.left /\ HasNodes(r.left))
  BY <1>3, <1>9, <1>13 DEF TrackersOK, RunType, NoTracker
<1>15. shown # NoTracker => /\ shown \in DOMAIN r.made /\ nodes = r.made[shown].nodes
                            /\ nodes \in [Agents -> Nat] /\ TrackerOK(r, shown)
  <2> SUFFICES ASSUME shown # NoTracker
               PROVE  /\ shown \in DOMAIN r.made /\ nodes = r.made[shown].nodes
                      /\ nodes \in [Agents -> Nat] /\ TrackerOK(r, shown)
    OBVIOUS
  <2>1. shown \in DOMAIN r.made
    BY <1>12, <1>13 DEF NoTracker
  <2>2. r.made[shown] \in TrackerType
    BY <1>9, <1>13, <2>1 DEF RunType
  <2> QED
    BY <1>4, <1>9, <2>1, <2>2 DEF TrackerType, TrackersOK
<1>16. report \in ReportType /\ report.tracker = shown /\ report.left = left /\ report.nodes = nodes
  <2>1. nodes \in {<<>>} \union [Agents -> Nat]
    BY <1>4, <1>15
  <2> QED
    BY <1>6, <1>12, <1>14, <2>1 DEF ReportType
<1>17. report.attached = attached
  BY <1>6
<1>18. /\ TrackersOK(after) /\ Keeps(r, after) /\ after.todo = r.todo
  <2>1. CASE Driver \in Tests /\ r.handle = NoTracker /\ NewlyActive
    <3>1. r.active["main"] \in DOMAIN r.made
      BY <1>1, <1>9, <1>13, <2>1 DEF NewlyActive, TrackersOK, RunType, NoTracker
    <3>2. after = Released(r, r.active["main"])
      BY <1>7, <2>1
    <3> QED
      BY <1>9, <3>1, <3>2, ReleasedIs
  <2>2. CASE ~(Driver \in Tests /\ r.handle = NoTracker /\ NewlyActive)
    BY <1>7, <1>9, <2>2 DEF Keeps
  <2> QED
    BY <2>1, <2>2
<1>19. /\ s \in RunType /\ s.made = after.made /\ s.active = after.active /\ s.number = after.number
       /\ s.todo = r.todo /\ s.before = after.before /\ s.handle = NoTracker /\ s.left = after.left /\ s.report = report
  <2>1. after \in RunType
    BY <1>18 DEF TrackersOK
  <2> QED
    BY <1>8, <1>16, <1>18, <2>1 DEF RunType, NoTracker
<1>20. PICK z : z = s
  OBVIOUS
<1>21. TrackersOK(z)
  <2>1. NoTracker <= Len(after.made)
    BY <1>13, <1>18 DEF Keeps, NoTracker
  <2> QED
    BY <1>18, <1>19, <1>20, <2>1 DEF TrackersOK, TrackerOK
<1>22. Keeps(r, z)
  BY <1>18, <1>19, <1>20 DEF Keeps
<1>23. /\ DriverOf(z) = d
       /\ \A stages : \A t \in DOMAIN r.made : MadeIn(z, t, stages) <=> MadeIn(r, t, stages)
       /\ Replaced(z) <=> Replaced(r)
       /\ Passed(z, p + 1) <=> Passed(r, p + 1)
  BY <1>2, <1>22, KeepsMade
<1>24. z.report = report /\ z.number = r.number /\ Len(z.made) = Len(r.made) /\ z.todo = r.todo
  BY <1>19, <1>20, <1>22 DEF Keeps
<1>25. Shows(z)
  <2>1. ASSUME ~attached, shown # NoTracker
        PROVE  MadeIn(z, shown, Looked(d)) /\ \A a \in Agents : nodes[a] \in {Unregistered, r.number}
    <3>1. MadeIn(r, shown, Looked(d)) /\ shown \in DOMAIN r.made /\ nodes = r.made[shown].nodes /\ TrackerOK(r, shown)
      BY <1>12, <1>15, <2>1
    <3>2. r.made[shown].run = r.number /\ r.number \in Nat
      BY <1>9, <3>1 DEF MadeIn, RunType
    <3>3. \A a \in Agents : nodes[a] = Unregistered \/ nodes[a] \in r.number..r.number
      BY <3>1, <3>2 DEF TrackerOK
    <3> QED
      BY <1>23, <3>1, <3>2, <3>3
  <2>2. ASSUME ~attached, left # NoTracker, MadeIn(z, left, {"target"}), ~Replaced(z), d \in Tests => job.tests # "copied"
        PROVE  shown = left
    <3>1. left \in DOMAIN r.made
      BY <1>13, <1>14, <2>2 DEF NoTracker
    <3>2. MadeIn(r, left, {"target"}) /\ left = r.left /\ HasNodes(r.left)
      BY <1>14, <1>23, <2>2, <3>1
    <3> QED
      BY <1>12, <1>23, <2>2, <3>2
  <2>3. ~z.report.attached => ~attached
    BY <1>17, <1>24
  <2> QED
    BY <1>16, <1>23, <1>24, <2>1, <2>2, <2>3 DEF Shows
<1>26. Reported(z)
  BY <1>12, <1>14, <1>16, <1>24, <1>25 DEF Reported
<1>27. p \in 1..n /\ TakeAt(d) \in Nat /\ TargetAt(d) \in Nat
  <2>1. TargetAt(d) \in 2..3 /\ TakeAt(d) \in TargetAt(d)..n /\ n \in 3..7 /\ p \in 1..n
    BY <1>2, <1>9, AtPlace
  <2> QED
    BY <2>1
<1>28. Passed(z, p + 1)
  <2>1. \A q \in 1..p : q \in 1..(p + 1)
    BY <1>27
  <2>2. Passed(r, p + 1)
    BY <1>9, <2>1 DEF InPlace, Passed
  <2> QED
    BY <1>23, <2>2
<1>29. InPlace(z, p + 1)
  <2>1. ~(p + 1 <= TakeAt(d)) /\ (\A k : p + 1 \notin k..TakeAt(d))
    BY <1>12, <1>27
  <2> QED
    BY <1>23, <1>28, <2>1 DEF InPlace
<1>30. AtStage(z, p)
  BY <1>2, <1>9, <1>23, <1>24, StageKept
<1> QED
  BY <1>2, <1>10, <1>12, <1>20, <1>21, <1>23, <1>26, <1>29, <1>30, Advances
LEMMA BeginsInPlace ==
    ASSUME TopologyInit
    PROVE  JobOK /\ TopologyInv(run)
<1>1. JobOK
  BY DEF TopologyInit, JobOK
<1>2. PICK made \in {<<>>, <<Tracker(0, "before", "main", NoTracker)>>} :
        /\ job.drivers[1] = "agent" => made = <<>>
        /\ \E first \in {NoTracker, Len(made)} :
           run = [number |-> 1, todo |-> Stages(job.drivers[1]), made |-> made,
                  active |-> [main |-> first, task |-> NoTracker],
                  before |-> [main |-> NoTracker, task |-> NoTracker],
                  handle |-> NoTracker, attached |-> FALSE, left |-> NoTracker, report |-> NoValue]
  BY DEF TopologyInit
<1>3. PICK first \in {NoTracker, Len(made)} :
           run = [number |-> 1, todo |-> Stages(job.drivers[1]), made |-> made,
                  active |-> [main |-> first, task |-> NoTracker],
                  before |-> [main |-> NoTracker, task |-> NoTracker],
                  handle |-> NoTracker, attached |-> FALSE, left |-> NoTracker, report |-> NoValue]
  BY <1>2
<1>4. PICK r : r = run
  OBVIOUS
<1>5. PICK d, n : d = job.drivers[1] /\ n = Len(Stages(d))
  OBVIOUS
<1>6. /\ d \in DriverKinds /\ Stages(d) \in Seq(StageNames) /\ n \in 3..7 /\ InTime(d, 1) /\ 1 \in 1..Len(job.drivers)
      /\ First(d) \in 1..3 /\ TargetAt(d) \in 2..3
  <2>1. 1 \in 1..Len(job.drivers)
    BY <1>1, JobIs
  <2>2. d \in DriverKinds
    BY <1>1, <1>5, <2>1, JobIs
  <2>3. Stages(d) \in Seq(StageNames) /\ n \in 3..7 /\ \A p \in 1..n : InTime(d, p)
        /\ First(d) \in 1..3 /\ TargetAt(d) \in 2..3
    BY <1>5, <2>2, Timetable
  <2> QED
    BY <2>1, <2>2, <2>3
<1>7. \/ made = <<>> /\ Len(made) = 0 /\ DOMAIN made = {}
      \/ /\ d # "agent" /\ Len(made) = 1 /\ DOMAIN made = 1..1
         /\ made[1] = Tracker(0, "before", "main", NoTracker)
  BY <1>2, <1>5
<1>8. /\ made \in Seq(TrackerType) /\ DOMAIN made = 1..Len(made) /\ Len(made) \in 0..1
      /\ \A t \in DOMAIN made : made[t] = Tracker(0, "before", "main", NoTracker)
  <2>1. Tracker(0, "before", "main", NoTracker) \in TrackerType
    BY DEF Tracker, TrackerType, NoTracker, Unregistered
  <2>2. CASE made = <<>>
    BY <2>2
  <2>3. CASE made # <<>>
    <3>1. made = <<Tracker(0, "before", "main", NoTracker)>>
      BY <1>2, <2>3
    <3>2. PICK t : t = Tracker(0, "before", "main", NoTracker)
      OBVIOUS
    <3>3. <<t>> \in Seq(TrackerType) /\ DOMAIN <<t>> = 1..1 /\ Len(<<t>>) = 1 /\ <<t>>[1] = t
      BY <2>1, <3>2
    <3>4. \A i \in 1..1 : i = 1
      OBVIOUS
    <3> QED
      BY <3>1, <3>2, <3>3, <3>4
  <2> QED
    BY <2>2, <2>3
<1>9. \A t \in DOMAIN made : /\ made[t].run = 0 /\ made[t].token = NoTracker
                             /\ \A a \in Agents : made[t].nodes[a] = Unregistered
  BY <1>8 DEF Tracker
<1>10. first \in Nat /\ first <= Len(made)
  <2>1. first = 0 \/ first = Len(made)
    BY <1>3 DEF NoTracker
  <2> QED
    BY <1>8, <2>1
<1>11. /\ r.number = 1 /\ r.todo = Stages(d) /\ r.made = made /\ r.active["main"] = first /\ r.active["task"] = NoTracker
       /\ r.before["main"] = NoTracker /\ r.before["task"] = NoTracker /\ r.handle = NoTracker /\ r.attached = FALSE
       /\ r.left = NoTracker /\ r.report = NoValue
  BY <1>3, <1>4, <1>5
<1>12. TrackersOK(r)
  <2>1. r \in RunType
    <3>1. [main |-> first, task |-> NoTracker] \in [{"main", "task"} -> Nat]
      BY <1>10 DEF NoTracker
    <3>2. [main |-> NoTracker, task |-> NoTracker] \in [{"main", "task"} -> Nat]
      BY DEF NoTracker
    <3> QED
      BY <1>3, <1>4, <1>5, <1>6, <1>8, <3>1, <3>2 DEF RunType, NoTracker
  <2>2. \A t \in DOMAIN r.made : TrackerOK(r, t)
    <3>1. ASSUME NEW t \in DOMAIN made
          PROVE  /\ made[t].run <= 1 /\ made[t].token \in 0..Len(made)
                 /\ \A a \in Agents : made[t].nodes[a] = Unregistered
      <4>1. made[t].run = 0 /\ made[t].token = 0 /\ \A a \in Agents : made[t].nodes[a] = Unregistered
        BY <1>9, <3>1 DEF NoTracker
      <4>2. 0 \in 0..Len(made) /\ 0 <= 1
        BY <1>8
      <4> QED
        BY <4>1, <4>2
    <3> QED
      BY <1>11, <3>1 DEF TrackerOK
  <2> QED
    BY <1>6, <1>8, <1>10, <1>11, <2>1, <2>2 DEF TrackersOK, NoTracker
<1>13. DriverOf(r) = d
  BY <1>5, <1>11 DEF DriverOf
<1>14. AtStage(r, 1)
  <2>1. 1 \in 1..n /\ n = n - 1 + 1 /\ \A k \in 1..n : k = 1 + k - 1
    BY <1>6
  <2>2. \A k \in 1..n : r.todo[k] = Stages(d)[1 + k - 1]
    BY <1>11, <2>1
  <2> QED
    BY <1>5, <1>11, <1>13, <2>1, <2>2 DEF AtStage
<1>15. \A stages : \A t \in DOMAIN r.made : ~MadeIn(r, t, stages)
  BY <1>9, <1>11 DEF MadeIn
<1>16. InPlace(r, 1)
  <2>1. Passed(r, 1)
    BY <1>9, <1>11 DEF Passed
  <2>2. ASSUME 1 \in First(d)..TakeAt(d)
        PROVE  Looking(r) /\ Bound(r, 1)
    <3>1. d = "agent" /\ d \notin Tests
      BY <1>6, <2>2 DEF InTime
    <3>2. DOMAIN r.made = {} /\ first = NoTracker
      BY <1>3, <1>7, <1>11, <3>1 DEF NoTracker
    <3> QED
      BY <1>11, <1>13, <3>1, <3>2 DEF Looking, Bound, Contexts, Base, Mine
  <2>3. 1 \notin (TargetAt(d) + 1)..TakeAt(d)
    BY <1>6
  <2> QED
    BY <1>11, <1>13, <2>1, <2>2, <2>3 DEF InPlace
<1>17. Reported(r)
  BY <1>11 DEF Reported, Shows
<1> QED
  BY <1>1, <1>4, <1>12, <1>14, <1>16, <1>17 DEF TopologyInv
\* The stage of the code at hand.
LEMMA AtUserCode ==
    ASSUME JobOK, TopologyInv(run), InUserCode
    PROVE  /\ Head(run.todo) \in UserStages /\ run.todo # <<>>
           /\ \E p \in 1..7 : AtStage(run, p) /\ InPlace(run, p)
<1>1. Head(run.todo) \in UserStages /\ run.todo # <<>> /\ Head(run.todo) # "bind"
  BY DEF InUserCode, UserStages
<1> QED
  BY <1>1, SomePlace

LEMMA ContextIs ==
    ASSUME JobOK, run.todo # <<>>
    PROVE  /\ Context = IF DriverOf(run) \in Tests /\ Head(run.todo) = "target" /\ job.tests # "plain" THEN "task" ELSE "main"
           /\ OnStage("target") => Context = TargetContext(run)
<1>1. job.tool = "topology"
  BY JobIs
<1> QED
  BY <1>1 DEF Context, OnStage, TargetContext, Driver, DriverOf

LEMMA MakingKeeps ==
    ASSUME JobOK, TopologyInv(run), MakeTracker
    PROVE  TopologyInv(run')
<1>1. InUserCode
  BY DEF MakeTracker
<1>2. PICK p \in 1..7 : AtStage(run, p) /\ InPlace(run, p)
  BY <1>1, AtUserCode
<1>3. Head(run.todo) \in UserStages /\ run.todo # <<>>
  BY <1>1, AtUserCode
<1>4. PICK stage, context : stage = Head(run.todo) /\ context = Context
  OBVIOUS
<1>5. context = IF DriverOf(run) \in Tests /\ stage = "target" /\ job.tests # "plain" THEN "task" ELSE "main"
  BY <1>3, <1>4, ContextIs
<1>6. MadeOne(run, run', stage, context)
  BY <1>4 DEF MakeTracker, MadeOne
<1> QED
  BY <1>2, <1>3, <1>4, <1>5, <1>6, TrackerMade

LEMMA UsingKeeps ==
    ASSUME JobOK, TopologyInv(run), NEW t \in AtHand,
           Deactivate(t) \/ Attach(t) \/ \E nodes \in (SUBSET Agents) \ {{}} : Visit(t, nodes)
    PROVE  TopologyInv(run')
<1>1. InUserCode /\ t \in DOMAIN run.made
  BY DEF AtHand
<1>2. PICK p \in 1..7 : AtStage(run, p) /\ InPlace(run, p)
  BY <1>1, AtUserCode
<1>3. Head(run.todo) \in UserStages
  BY <1>1, AtUserCode
<1>4. CASE Deactivate(t)
  <2>1. MadeIn(run, t, {Head(run.todo)}) /\ run.made[t].token # Used /\ run' = Released(run, t)
    BY <1>4 DEF Deactivate, MadeIn
  <2> QED
    BY <1>1, <1>2, <1>3, <2>1, TrackerReleased
<1>5. CASE Attach(t)
  <2>1. Attached(run, run', t)
    BY <1>5 DEF Attach, Attached
  <2> QED
    BY <1>1, <1>2, <2>1, AttachKeeps
<1>6. ASSUME NEW nodes, Visit(t, nodes)
      PROVE  TopologyInv(run')
  <2>1. Visited(run, run', t, nodes)
    BY <1>6 DEF Visit, Visited
  <2> QED
    BY <1>1, <1>2, <2>1, VisitKeeps
<1> QED
  BY <1>4, <1>5, <1>6

LEMMA EndingKeeps ==
    ASSUME JobOK, TopologyInv(run), EndStage
    PROVE  TopologyInv(run')
<1>1. InUserCode
  BY DEF EndStage
<1>2. PICK p \in 1..7 : AtStage(run, p) /\ InPlace(run, p)
  BY <1>1, AtUserCode
<1>3. Head(run.todo) \in UserStages /\ run.todo # <<>> /\ job.tool = "topology"
  BY <1>1, AtUserCode, JobIs
<1>4. CASE Head(run.todo) = "target"
  <2>1. OnStage("target") /\ Context = TargetContext(run)
    BY <1>3, <1>4, ContextIs DEF OnStage
  <2>2. PICK s : s = [run EXCEPT !.left = run.active[TargetContext(run)]]
    OBVIOUS
  <2>3. run' = Advanced(s)
    BY <2>1, <2>2 DEF EndStage
  <2>4. TopologyInv(Advanced(s))
    BY <1>2, <1>4, <2>2, TargetEnds
  <2> QED
    BY <2>3, <2>4
<1>5. CASE Head(run.todo) # "target"
  <2>1. run' = Advanced(run)
    BY <1>5 DEF EndStage, OnStage
  <2>2. TopologyInv(Advanced(run))
    BY <1>2, <1>3, <1>5, StageEnds
  <2> QED
    BY <2>1, <2>2
<1> QED
  BY <1>4, <1>5

LEMMA InterruptedKeeps ==
    ASSUME JobOK, TopologyInv(run), Interrupted
    PROVE  TopologyInv(run')
<1>1. Head(run.todo) = "target" /\ run.todo # <<>>
  BY DEF Interrupted, OnStage
<1>2. PICK p \in 1..7 : AtStage(run, p) /\ InPlace(run, p)
  BY <1>1, SomePlace
<1>3. PICK todo \in {<<>>, <<"bind">>, <<"target">>} :
        todo = CASE Driver = "plugin" -> <<"bind">> [] Driver \in {"api", "step"} -> <<"target">> [] OTHER -> <<>>
  OBVIOUS
<1>4. PICK s : s = [run EXCEPT !.todo = todo]
  OBVIOUS
<1>5. Driver = DriverOf(run)
  BY DEF Driver, DriverOf
<1>6. CASE Driver = "plugin"
  <2>1. todo = <<"bind">>
    BY <1>3, <1>6
  <2>2. run' = s
    BY <1>4, <1>6, <2>1 DEF Interrupted
  <2>3. TopologyInv(s)
    BY <1>1, <1>2, <1>4, <1>5, <1>6, <2>1, CutShort
  <2> QED
    BY <2>2, <2>3
<1>7. CASE Driver \in {"api", "step"}
  <2>1. todo = <<"target">> /\ Driver # "agent"
    BY <1>3, <1>7
  <2>2. run' = Advanced(s)
    BY <1>4, <1>7, <2>1 DEF Interrupted
  <2>3. TopologyInv(Advanced(s))
    BY <1>1, <1>2, <1>4, <1>5, <2>1, CutShort
  <2> QED
    BY <2>2, <2>3
<1>8. CASE Driver \notin {"plugin", "api", "step"}
  <2>1. todo = <<>>
    BY <1>3, <1>8
  <2>2. run' = s
    BY <1>4, <1>8, <2>1 DEF Interrupted
  <2>3. TopologyInv(s)
    BY <1>1, <1>2, <1>4, <2>1, CutShort
  <2> QED
    BY <2>2, <2>3
<1> QED
  BY <1>6, <1>7, <1>8

LEMMA ResettingKeeps ==
    ASSUME JobOK, TopologyInv(run), Reset
    PROVE  TopologyInv(run')
<1>1. Head(run.todo) = "reset" /\ run.todo # <<>>
  BY DEF Reset, OnStage
<1>2. PICK p \in 1..7 : AtStage(run, p) /\ InPlace(run, p)
  BY <1>1, SomePlace
<1>3. PICK s : s = [run EXCEPT !.active.main = NoTracker]
  OBVIOUS
<1>4. run' = Advanced(s)
  BY <1>3 DEF Reset
<1>5. TopologyInv(Advanced(s))
  BY <1>1, <1>2, <1>3, ResetEnds
<1> QED
  BY <1>4, <1>5

LEMMA NotingKeeps ==
    ASSUME JobOK, TopologyInv(run), Note
    PROVE  TopologyInv(run')
<1>1. Head(run.todo) = "note" /\ run.todo # <<>>
  BY DEF Note, OnStage
<1>2. PICK p \in 1..7 : AtStage(run, p) /\ InPlace(run, p)
  BY <1>1, SomePlace
<1>3. PICK task \in IF job.tests = "copied" THEN {run.active.main} ELSE {run.active.main, run.active.task} :
          run' = Advanced([run EXCEPT !.active.task = task, !.handle = NoTracker, !.attached = FALSE,
                                      !.before = [main |-> run.active.main, task |-> task]])
  BY DEF Note
<1>4. task \in {run.active.main, run.active.task}
  BY <1>3
<1>5. PICK s : s = [run EXCEPT !.active.task = task, !.handle = NoTracker, !.attached = FALSE,
                               !.before = [main |-> run.active.main, task |-> task]]
  OBVIOUS
<1>6. NotedBy(run, s, task)
  BY <1>5 DEF NotedBy
<1>7. run' = Advanced(s)
  BY <1>3, <1>5
<1>8. TopologyInv(Advanced(s))
  BY <1>1, <1>2, <1>4, <1>6, NoteEnds
<1> QED
  BY <1>7, <1>8

LEMMA BindingKeeps ==
    ASSUME JobOK, TopologyInv(run), Bind
    PROVE  TopologyInv(run')
<1>1. Head(run.todo) = "bind" /\ run.todo # <<>>
  BY DEF Bind, OnStage
<1>2. run' = Advanced(BoundTo(run))
  BY DEF Bind, BoundTo
<1>3. TopologyInv(Advanced(BoundTo(run)))
  <2>1. CASE Cut(run)
    BY <2>1, BindCut
  <2>2. CASE ~Cut(run)
    <3>1. PICK p \in 1..7 : AtStage(run, p) /\ InPlace(run, p)
      BY <1>1, <2>2 DEF TopologyInv
    <3> QED
      BY <1>1, <3>1, BindEnds
  <2> QED
    BY <2>1, <2>2
<1> QED
  BY <1>2, <1>3

LEMMA TakingKeeps ==
    ASSUME JobOK, TopologyInv(run), Take
    PROVE  TopologyInv(run')
<1>1. Head(run.todo) = "take" /\ run.todo # <<>>
  BY DEF Take, OnStage
<1>2. PICK p \in 1..7 : AtStage(run, p) /\ InPlace(run, p)
  BY <1>1, SomePlace
<1> QED
  BY <1>2, TakeKeeps

LEMMA SameJob ==
    ASSUME job' = job
    PROVE  JobOK' <=> JobOK
  BY DEF JobOK

LEMMA SameInv ==
    ASSUME job' = job
    PROVE  TopologyInv(run)' <=> TopologyInv(run')
<1>1. DriverOf(run)' = DriverOf(run')
  BY DEF DriverOf
<1>2. \A p : AtStage(run, p)' <=> AtStage(run', p)
  BY <1>1 DEF AtStage
<1>3. Contexts(run)' = Contexts(run')
  BY <1>1 DEF Contexts
<1>4. TargetContext(run)' = TargetContext(run')
  BY <1>1 DEF TargetContext
<1>5. \A c : Base(run, c)' = Base(run', c)
  BY <1>1 DEF Base
<1>6. \A c : Mine(run, c)' = Mine(run', c)
  BY <1>1 DEF Mine
<1>7. TrackersOK(run)' <=> TrackersOK(run')
  BY DEF TrackersOK
<1>8. \A p : Passed(run, p)' <=> Passed(run', p)
  BY <1>1 DEF Passed
<1>9. Looking(run)' <=> Looking(run')
  BY <1>1, <1>3, <1>4, <1>5, <1>6 DEF Looking
<1>10. Replaced(run)' <=> Replaced(run')
  BY <1>1 DEF Replaced
<1>11. \A p : LeftOver(run, p)' <=> LeftOver(run', p)
  BY <1>1, <1>4, <1>5, <1>6, <1>10 DEF LeftOver
<1>12. \A p : Bound(run, p)' <=> Bound(run', p)
  BY <1>1 DEF Bound
<1>13. \A p : InPlace(run, p)' <=> InPlace(run', p)
  BY <1>1, <1>8, <1>9, <1>11, <1>12 DEF InPlace
<1>14. Reported(run)' <=> Reported(run')
  <2>1. Shows(run)' <=> Shows(run')
    BY <1>1, <1>10 DEF Shows
  <2> QED
    BY <2>1 DEF Reported
<1>15. Cut(run)' <=> Cut(run')
  BY <1>1 DEF Cut
<1> QED
  BY <1>2, <1>7, <1>13, <1>14, <1>15 DEF TopologyInv

LEMMA OwnedIf ==
    ASSUME TopologyInv(run)
    PROVE  OwnTopology
<1> SUFFICES ASSUME job.tool = "topology", run.report # NoValue, ~run.report.attached
             PROVE  LET Made(t, stages) == run.made[t].run = run.number /\ run.made[t].stage \in stages
                        looked == Looked(Driver)
                        replaced == \E t \in DOMAIN run.made : Made(t, looked \ {"pre", "target"})
                        kept == run.report.left # NoTracker /\ Made(run.report.left, {"target"}) /\ ~replaced
                                  /\ (Driver \in Tests => job.tests # "copied")
                    IN  /\ run.report.tracker # NoTracker =>
                              /\ Made(run.report.tracker, looked)
                              /\ \A a \in Agents : run.report.nodes[a] \in {Unregistered, run.number}
                        /\ kept => run.report.tracker = run.report.left
  BY DEF OwnTopology, Looked
<1>1. Driver = DriverOf(run)
  BY DEF Driver, DriverOf
<1>2. Shows(run)
  BY DEF TopologyInv, Reported
<1> QED
  BY <1>1, <1>2 DEF Shows, MadeIn, Replaced

\* A report shows what its own run did (Topology!OwnTopology).
THEOREM TopologyOwned == TopologySpec => []OwnTopology
<1> DEFINE Inv == JobOK /\ TopologyInv(run)
<1>1. TopologyInit => Inv
  BY BeginsInPlace
<1>2. Inv /\ [TopologyNext]_toolVars => Inv'
  <2> SUFFICES ASSUME JobOK, TopologyInv(run), [TopologyNext]_toolVars
               PROVE  JobOK' /\ TopologyInv(run)'
    OBVIOUS
  <2>1. job' = job
    BY DEF TopologyNext, MakeTracker, Deactivate, Attach, Visit, EndStage, Interrupted, Reset, Note, Bind, Take, toolVars
  <2>2. TopologyInv(run')
    <3>1. CASE MakeTracker
      BY <3>1, MakingKeeps
    <3>2. CASE \E t \in AtHand : Deactivate(t) \/ Attach(t) \/ \E nodes \in (SUBSET Agents) \ {{}} : Visit(t, nodes)
      BY <3>2, UsingKeeps
    <3>3. CASE EndStage
      BY <3>3, EndingKeeps
    <3>4. CASE Interrupted
      BY <3>4, InterruptedKeeps
    <3>5. CASE Reset
      BY <3>5, ResettingKeeps
    <3>6. CASE Note
      BY <3>6, NotingKeeps
    <3>7. CASE Bind
      BY <3>7, BindingKeeps
    <3>8. CASE Take
      BY <3>8, TakingKeeps
    <3>9. CASE UNCHANGED toolVars
      BY <3>9 DEF toolVars
    <3> QED
      BY <3>1, <3>2, <3>3, <3>4, <3>5, <3>6, <3>7, <3>8, <3>9 DEF TopologyNext
  <2> QED
    BY <2>1, <2>2, SameJob, SameInv
<1>3. Inv => OwnTopology
  BY OwnedIf
<1> QED
  BY <1>1, <1>2, <1>3, PTL DEF TopologySpec

=============================================================================
