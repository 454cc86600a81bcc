----------------------------- MODULE Campaigns ------------------------------
(***************************************************************************)
(* Campaigns of many sessions: topology fuzzing (workflows/fuzz.py), one   *)
(* randomly placed fault per trial, and the binary search of a breaking    *)
(* point (chaos/advanced.py).  A target is what it calls and how it ends;  *)
(* a node is a step name; a fault of the pool is its own scope.            *)
(***************************************************************************)
EXTENDS ToolRun, Scopes
LOCAL INSTANCE FiniteSetsExt

CONSTANTS
    FuzzJobs,     \* fuzz campaigns: nodes, types, called, scope, pool, sites, n
    Severities    \* the inclusive range searched for a breaking point

\* find_breaking_point refuses anything but an ordered inclusive pair of integers.
ASSUME SearchAssumption ==
    LET low == Min(Severities)
        high == Max(Severities)
    IN  /\ low \in Int /\ high \in Int /\ low <= high
        /\ Severities = low..high /\ NoValue \notin Severities

-----------------------------------------------------------------------------
(* Fuzzing.  job.nodes and job.types are the topology, job.called what the *)
(* baseline run called (NoValue with a given topology), job.sites the      *)
(* calls the target makes: step and provider.                              *)

StepAllowed(s, node) == node \notin s.notSteps /\ (s.steps # Everywhere => node \in s.steps)

\* The pool of a node type, or that of "*" for a type without its own.
Factories(j, node) ==
    LET type == j.types[node]
    IN  IF type \in DOMAIN j.pool THEN j.pool[type]
        ELSE IF "*" \in DOMAIN j.pool THEN j.pool["*"] ELSE {}

Candidates(j) ==
    {node \in j.nodes : /\ j.called # NoValue => node \in j.called
                        /\ StepAllowed(j.scope, node)
                        /\ Factories(j, node) # {}}

\* Lists of names are told from an omitted list, and a list of providers names
\* none that a call without a provider could have.
ASSUME FuzzAssumption ==
    /\ NoValue \notin {0, 1}
    /\ \A j \in FuzzJobs :
          /\ j.tool = "fuzz"
          /\ \A node \in j.nodes :
                /\ Everywhere # {node}
                /\ \A own \in Factories(j, node) :
                      /\ Anonymous \notin own.notProviders
                      /\ Everywhere \notin {j.scope.providers, own.providers} =>
                            j.scope.providers \intersect own.providers # Everywhere

\* Mutation of Placed: the trial's node is forgotten.
PlacedAnywhere(j, node, own) == Intersect(j.scope, own)

\* The fault's scope during a trial at node.
Placed(j, node, own) == Intersect(Intersect(AtStep(node), j.scope), own)
PlacementValid(j, node, own) ==
    /\ ScopeValid(Intersect(AtStep(node), j.scope))
    /\ ScopeValid(Placed(j, node, own))

Reached(j, node, own) == \E c \in j.sites : Allows(Placed(j, node, own), c[1], c[2])

FuzzInit ==
    /\ job \in FuzzJobs
    /\ run = [pc |-> "placing", trials |-> <<>>, saved |-> FALSE, exit |-> NoValue]

Trial(node, own, reached, passed) == [node |-> node, own |-> own, reached |-> reached, passed |-> passed]

Placing == job.tool = "fuzz" /\ run.pc = "placing" /\ Len(run.trials) < job.n
Conducted(t) == run' = [run EXCEPT !.trials = Append(@, t)] /\ UNCHANGED job
Raises == run' = [run EXCEPT !.pc = "raised", !.trials = <<>>, !.exit = 1] /\ UNCHANGED job

\* No candidate, or two scopes without a common name: ValueError, and the
\* trials made so far are gone with it.
CampaignRaises ==
    /\ Placing
    /\ \/ Candidates(job) = {}
       \/ \E node \in Candidates(job) : \E own \in Factories(job, node) :
              Allows(own, node, Anonymous) /\ ~PlacementValid(job, node, own)
    /\ Raises

\* The fault's own scope is asked about the node alone, without a provider.
SkipTrial ==
    /\ Placing
    /\ \E node \in Candidates(job) : \E own \in Factories(job, node) :
           /\ ~Allows(own, node, Anonymous)
           /\ Conducted(Trial(node, own, FALSE, TRUE))

\* A trial fails if the target raises, recovered() rejects its output or a
\* contract does not pass, whether or not the fault fired.
RunTrial ==
    /\ Placing
    /\ \E node \in Candidates(job) : \E own \in Factories(job, node), recovers \in BOOLEAN :
           /\ Allows(own, node, Anonymous) /\ PlacementValid(job, node, own)
           /\ Conducted(Trial(node, own, Reached(job, node, own), recovers))

\* FuzzNodeSummary of each candidate, and FuzzReport.failing_nodes.
Summary(node) ==
    LET at == {i \in DOMAIN run.trials : run.trials[i].node = node}
        missed == {i \in at : ~run.trials[i].reached}
    IN  [trials |-> Cardinality(at), notReached |-> Cardinality(missed),
         failures |-> Cardinality({i \in at \ missed : ~run.trials[i].passed})]
FailingNodes == {node \in Candidates(job) : Summary(node).failures > 0}

\* The report is saved, and the command is red if some node failed a trial.
FuzzDone ==
    /\ job.tool = "fuzz" /\ run.pc = "placing" /\ Len(run.trials) = job.n
    /\ run' = [run EXCEPT !.pc = "done", !.saved = TRUE, !.exit = IF FailingNodes = {} THEN 0 ELSE 1]
    /\ UNCHANGED job

FuzzNext == CampaignRaises \/ SkipTrial \/ RunTrial \/ FuzzDone

-----------------------------------------------------------------------------
(* find_breaking_point: one session per severity.  job.failing are the     *)
(* severities under which the target raises or recovered() rejects.        *)
SearchInit ==
    /\ job \in [tool : {"search"}, failing : SUBSET Severities]
    /\ run = [low |-> Min(Severities), high |-> Max(Severities), point |-> NoValue, trials |-> <<>>]

\* Mutation of TrySeverity: after a failure the search skips a severity.
TrySeverityCoarse ==
    LET severity == (run.low + run.high) \div 2
        passed == severity \notin job.failing
    IN  /\ job.tool = "search" /\ run.low <= run.high
        /\ run' = [run EXCEPT !.low = IF passed THEN severity + 1 ELSE @,
                              !.high = IF passed THEN @ ELSE severity - 2,
                              !.point = IF passed THEN @ ELSE severity,
                              !.trials = Append(@, <<severity, passed>>)]
        /\ UNCHANGED job

TrySeverity ==
    LET severity == (run.low + run.high) \div 2
        passed == severity \notin job.failing
    IN  /\ job.tool = "search" /\ run.low <= run.high
        /\ run' = [run EXCEPT !.low = IF passed THEN severity + 1 ELSE @,
                              !.high = IF passed THEN @ ELSE severity - 1,
                              !.point = IF passed THEN @ ELSE severity,
                              !.trials = Append(@, <<severity, passed>>)]
        /\ UNCHANGED job

-----------------------------------------------------------------------------
\* A node is blamed only for faults that fired at a call of its own, and a
\* trial is unreached only if the target makes no call there that the scopes
\* of the campaign and of the fault allow; the command is green exactly after
\* trials that were all made and recovered where they were reached.  (A fault
\* limited to providers is never tried: fuzz.py:235 asks its scope about the
\* node alone.)
BlameIsLocal ==
    job.tool = "fuzz" =>
        /\ \A node \in FailingNodes : \E c \in job.sites : c[1] = node /\ Allows(job.scope, c[1], c[2])
        /\ run.exit = 0 <=> /\ run.saved /\ Len(run.trials) = job.n
                            /\ \A i \in DOMAIN run.trials : run.trials[i].reached => run.trials[i].passed
        /\ \A i \in DOMAIN run.trials :
              LET t == run.trials[i]
              IN  t.own.providers = Everywhere =>
                     (t.reached <=> \E c \in job.sites : /\ c[1] = t.node
                                                         /\ Allows(job.scope, c[1], c[2])
                                                         /\ Allows(t.own, c[1], c[2]))

\* When the search ends its point failed and the severity below it passed, or
\* is outside the range; without a point the highest severity passed.  Where
\* failing is monotonic, as its result assumes, that is the least failing one.
BreakingPointExact ==
    (job.tool = "search" /\ run.low > run.high) =>
        /\ run.point = NoValue => Max(Severities) \notin job.failing
        /\ run.point # NoValue => run.point \in job.failing /\ run.point - 1 \notin job.failing
        /\ (\A s \in job.failing : \A t \in Severities : t >= s => t \in job.failing) =>
              run.point = IF job.failing = {} THEN NoValue ELSE Min(job.failing)
        /\ \A i, k \in DOMAIN run.trials : i # k => run.trials[i][1] # run.trials[k][1]
=============================================================================
