------------------------------ MODULE Workflow ------------------------------
(***************************************************************************)
(* workflows/engine.py: ChaosWorkflow.run and _Run.  A workflow is a       *)
(* sequence of nodes; the branches of a Parallel node are sequences that   *)
(* run in the threads of a pool of their own, and may hold Parallel nodes. *)
(* A call of _Run.sequence is a frame here: the top frame runs the         *)
(* workflow's nodes, frame <<n, b>> branch b of node n.  The same workflow *)
(* may be run again, from the start or from a gate.  Steps, checks,        *)
(* approvers and probes call foreign code: what it does is the             *)
(* environment's choice, and that it returns is assumed by FairSpec alone. *)
(***************************************************************************)
EXTENDS Naturals, Sequences, FiniteSets

CONSTANTS
  Top,            \* the sequence of top-level nodes
  Branches,       \* the branches of each Parallel node, sequences of nodes
  Steps,          \* Step nodes
  Checks,         \* HealthCheck nodes
  Gates,          \* Suspend nodes
  SoftChecks,     \* the checks with halt_on_failure=False
  Retries,        \* retries of every check
  Workers,        \* max_workers of each Parallel node, or its number of branches
  MaxRuns,        \* bound: how often the workflow is run
  None            \* no status, no terminal, no gate

Parallels == DOMAIN Branches
Nodes == Steps \cup Checks \cup Gates \cup Parallels

Members(s) == {s[i] : i \in DOMAIN s}

TopFrame == <<>>
BranchFrames(n) == {<<n, b>> : b \in DOMAIN Branches[n]}
Frames == {TopFrame} \cup UNION {BranchFrames(n) : n \in Parallels}
NodesOf(f) == IF f = TopFrame THEN Top ELSE Branches[f[1]][f[2]]

Children(n) ==
  IF n \in Parallels THEN UNION {Members(NodesOf(f)) : f \in BranchFrames(n)} ELSE {}

\* walk(): a node and every node nested in its branches, which is the least set
\* that holds the node and the children of its members.
Under ==
  [n \in Nodes |-> {m \in Nodes : \A S \in SUBSET Nodes :
     n \in S /\ (\A k \in S : Children(k) \subseteq S) => m \in S}]

NodeStatuses ==
  {"passed", "failed", "aborted", "skipped", "approved", "rejected",
   "suspended", "resumed", "would_suspend"}
Terminals == {"aborted", "halted", "rejected", "failed", "suspended"}

\* Parallel allows no Suspend inside a block; every name stands in one place
\* of the workflow (_named), and no block is nested in itself.
ASSUME WorkflowAssumption ==
  /\ SoftChecks \subseteq Checks
  /\ Top \in Seq(Nodes)
  /\ \A n \in Parallels : \A b \in DOMAIN Branches[n] : Branches[n][b] \in Seq(Nodes \ Gates)
  /\ Workers \in [Parallels -> Nat \ {0}]
  /\ Retries \in Nat /\ MaxRuns \in Nat
  /\ None \notin NodeStatuses \cup Terminals /\ None \notin BOOLEAN

ASSUME PlanAssumption ==
  /\ Steps \cap Checks = {} /\ Steps \cap Gates = {} /\ Checks \cap Gates = {}
  /\ Parallels \cap (Steps \cup Checks \cup Gates) = {}
  /\ \A f, g \in Frames : \A i \in DOMAIN NodesOf(f), k \in DOMAIN NodesOf(g) :
        NodesOf(f)[i] = NodesOf(g)[k] => f = g /\ i = k
  /\ \A n \in Nodes : \A m \in Children(n) : n \notin Under[m]
  /\ \A n \in Nodes : \E i \in DOMAIN Top : n \in Under[Top[i]]

VARIABLES
  stops,     \* stop_on_failure
  phase,     \* where run() is
  runs,      \* how often it was called
  dry,       \* dry_run
  start,     \* index of the first node this run executes
  pc,        \* where each call of sequence() is
  at,        \* the index it is at
  terminal,  \* the terminal status it returned
  result,    \* the status of each node's NodeResult; None while it has none
  attempts,  \* of the check each node is
  status,    \* status of the WorkflowReport
  posted,    \* the post-chaos probes ran
  recorded   \* the score went to the history

runVars == <<stops, phase, runs, dry, start, status, posted, recorded>>
vars == <<stops, phase, runs, dry, start, pc, at, terminal, result, attempts,
          status, posted, recorded>>

\* What _Run.__init__ sets.
Fresh ==
  [pc |-> [f \in Frames |-> "off"], at |-> [f \in Frames |-> 1],
   terminal |-> [f \in Frames |-> None], result |-> [n \in Nodes |-> None],
   attempts |-> [n \in Nodes |-> 0]]

Init ==
  /\ stops \in BOOLEAN
  /\ phase = "idle" /\ runs = 0 /\ dry = FALSE /\ start = 1
  /\ pc = Fresh.pc /\ at = Fresh.at /\ terminal = Fresh.terminal
  /\ result = Fresh.result /\ attempts = Fresh.attempts
  /\ status = None /\ posted = FALSE /\ recorded = FALSE

-------------------------------------------------------------------------------
(* run(): resume_from must name a top-level gate.                          *)

ResumePoints == {i + 1 : i \in {i \in DOMAIN Top : Top[i] \in Gates}}

Run ==
  /\ phase \in {"idle", "ended", "raised"} /\ runs < MaxRuns
  /\ phase' = "pre" /\ runs' = runs + 1
  /\ dry' \in BOOLEAN
  /\ start' \in {1} \cup ResumePoints
  /\ pc' = Fresh.pc /\ at' = Fresh.at /\ terminal' = Fresh.terminal
  /\ result' = Fresh.result /\ attempts' = Fresh.attempts
  /\ status' = None /\ posted' = FALSE /\ recorded' = FALSE
  /\ UNCHANGED stops

EntryPc(f, i) == IF i > Len(NodesOf(f)) THEN "done" ELSE "next"

\* execute(): pre-chaos probes fail, every node is skipped.
PreProbesFail ==
  /\ phase = "pre"
  /\ result' = [n \in Nodes |-> "skipped"]
  /\ status' = "halted"
  /\ phase' = "finish"
  /\ UNCHANGED <<stops, runs, dry, start, pc, at, terminal, attempts, posted, recorded>>

\* execute(): the nodes before the resume point get a result of their own;
\* those nested in their branches get none.
PreProbesPass ==
  /\ phase = "pre"
  /\ result' = [n \in Nodes |->
                  IF start > 1 /\ n = Top[start - 1] THEN "resumed"
                  ELSE IF \E i \in 1..start - 1 : n = Top[i] THEN "skipped"
                  ELSE None]
  /\ at' = [at EXCEPT ![TopFrame] = start]
  /\ pc' = [pc EXCEPT ![TopFrame] = EntryPc(TopFrame, start)]
  /\ phase' = "nodes"
  /\ UNCHANGED <<stops, runs, dry, start, terminal, attempts, status, posted, recorded>>

-------------------------------------------------------------------------------
(* sequence(): one node after the other, until one returns a terminal      *)
(* status; the rest is skipped, with all that is nested in it.             *)

Node(f) == NodesOf(f)[at[f]]
AtA(f, kind, places) == phase = "nodes" /\ pc[f] \in places /\ Node(f) \in kind

(* A plausible mistake: skipped() forgets the branches. *)
RestFlat(f) == {NodesOf(f)[i] : i \in at[f] + 1..Len(NodesOf(f))}

Rest(f) == UNION {Under[NodesOf(f)[i]] : i \in at[f] + 1..Len(NodesOf(f))}

\* The node of frame f ended with status s and terminal t.
Return(f, s, t) ==
  /\ result' = [n \in Nodes |-> IF n = Node(f) THEN s
                                ELSE IF t # None /\ n \in Rest(f) THEN "skipped"
                                ELSE result[n]]
  /\ terminal' = [terminal EXCEPT ![f] = t]
  /\ at' = [at EXCEPT ![f] = @ + 1]
  /\ pc' = [pc EXCEPT ![f] = IF t # None THEN "done" ELSE EntryPc(f, at[f] + 1)]

\* step(): the session is entered and the target called.
StepBegins(f) ==
  /\ AtA(f, Steps, {"next"})
  /\ pc' = [pc EXCEPT ![f] = "target"]
  /\ UNCHANGED <<runVars, at, terminal, result, attempts>>

\* An abort of the session outweighs what the target raised, and that the contracts.
StepStatus(aborted, crashed, broken) ==
  IF aborted THEN "aborted" ELSE IF crashed \/ broken THEN "failed" ELSE "passed"

(* A plausible mistake: stop_on_failure also decides about aborts. *)
StepTerminalSoft(s) == IF s # "passed" /\ stops THEN s ELSE None

StepTerminal(s) ==
  IF s = "aborted" THEN "aborted"
  ELSE IF s = "failed" /\ stops THEN "failed" ELSE None

\* step(): the target returned, raised, or the breaker aborted its session.
StepEnds(f) ==
  /\ AtA(f, Steps, {"target"})
  /\ \E aborted, crashed, broken \in BOOLEAN :
       LET s == StepStatus(aborted, crashed, broken) IN Return(f, s, StepTerminal(s))
  /\ UNCHANGED <<runVars, attempts>>

CheckTerminal(n, healthy) == IF ~healthy /\ n \notin SoftChecks THEN "halted" ELSE None

\* attempts > retries, the attempt under way counted.
LastAttempt(n) == attempts[n] + 1 > Retries

\* check(): one attempt; a failed one is repeated while retries remain.
Attempt(f) ==
  /\ AtA(f, Checks, {"next", "retry"})
  /\ attempts' = [attempts EXCEPT ![Node(f)] = @ + 1]
  /\ \E healthy \in BOOLEAN :
       IF healthy \/ LastAttempt(Node(f))
       THEN Return(f, IF healthy THEN "passed" ELSE "failed", CheckTerminal(Node(f), healthy))
       ELSE pc' = [pc EXCEPT ![f] = "retry"] /\ UNCHANGED <<at, terminal, result>>
  /\ UNCHANGED runVars

\* suspend(): no approver and an approver without an answer both give None.
GateStatus(decision) ==
  IF decision = None THEN "suspended" ELSE IF decision THEN "approved" ELSE "rejected"

Gate(f) ==
  /\ AtA(f, Gates, {"next"})
  /\ \/ /\ dry
        /\ Return(f, "would_suspend", None)
     \/ /\ ~dry
        /\ \E decision \in {"yes", "no", "later"} :
             LET s == GateStatus(IF decision = "later" THEN None ELSE decision = "yes")
             IN  Return(f, s, IF s = "approved" THEN None ELSE s)
  /\ UNCHANGED <<runVars, attempts>>

\* The approver raises: nothing catches it, run() raises.
ApproverRaises ==
  /\ AtA(TopFrame, Gates, {"next"}) /\ ~dry
  /\ phase' = "raised"
  /\ UNCHANGED <<stops, runs, dry, start, pc, at, terminal, result, attempts,
                 status, posted, recorded>>

-------------------------------------------------------------------------------
(* parallel(): one future per branch, on a pool of the block's own.        *)

Fork(f) ==
  /\ AtA(f, Parallels, {"next"})
  /\ pc' = [g \in Frames |-> IF g = f THEN "join"
                             ELSE IF g \in BranchFrames(Node(f)) THEN "queued"
                             ELSE pc[g]]
  /\ UNCHANGED <<runVars, at, terminal, result, attempts>>

Active(g) == pc[g] \notin {"off", "queued", "done"}

(* A plausible mistake: the blocks of a workflow share one pool. *)
FreeWorkerShared(n) ==
  Cardinality({g \in Frames \ {TopFrame} : Active(g)}) < Workers[n]

FreeWorker(n) == Cardinality({g \in BranchFrames(n) : Active(g)}) < Workers[n]

\* A worker of the pool takes the branch submitted first.
TakeBranch(f) ==
  /\ phase = "nodes" /\ f # TopFrame /\ pc[f] = "queued"
  /\ \A b \in 1..f[2] - 1 : pc[<<f[1], b>>] # "queued"
  /\ FreeWorker(f[1])
  /\ pc' = [pc EXCEPT ![f] = EntryPc(f, 1)]
  /\ UNCHANGED <<runVars, at, terminal, result, attempts>>

(* A plausible mistake: _SEVERITY has failed before halted. *)
WorstFailedFirst(ts) ==
  IF "aborted" \in ts THEN "aborted"
  ELSE IF "failed" \in ts THEN "failed"
  ELSE IF "halted" \in ts THEN "halted" ELSE None

\* _SEVERITY, without "rejected": no gate stands in a branch.
Worst(ts) ==
  IF "aborted" \in ts THEN "aborted"
  ELSE IF "halted" \in ts THEN "halted"
  ELSE IF "failed" \in ts THEN "failed" ELSE None

BlockStatus(ts, nested) ==
  IF "aborted" \in ts \cup nested THEN "aborted"
  ELSE IF ts # {} \/ "failed" \in nested THEN "failed" ELSE "passed"

\* Every future has its result.
Join(f) ==
  /\ AtA(f, Parallels, {"join"})
  /\ \A g \in BranchFrames(Node(f)) : pc[g] = "done"
  /\ LET ts == {terminal[g] : g \in BranchFrames(Node(f))} \ {None}
         nested == {result[m] : m \in Under[Node(f)] \ {Node(f)}}
     IN  Return(f, BlockStatus(ts, nested), Worst(ts))
  /\ UNCHANGED <<runVars, attempts>>

-------------------------------------------------------------------------------
(* execute(): the status of the run, post-chaos probes, finish().          *)

Statuses == {result[n] : n \in Nodes} \ {None}

OverallStatus ==
  IF terminal[TopFrame] # None THEN terminal[TopFrame]
  ELSE IF "aborted" \in Statuses THEN "aborted"
  ELSE IF "failed" \in Statuses THEN "failed" ELSE "passed"

Conclude ==
  /\ phase = "nodes" /\ pc[TopFrame] = "done"
  /\ status' = OverallStatus
  /\ phase' = IF "suspended" \in Statuses THEN "finish" ELSE "post"
  /\ UNCHANGED <<stops, runs, dry, start, pc, at, terminal, result, attempts, posted, recorded>>

PostProbes ==
  /\ phase = "post"
  /\ posted' = TRUE
  /\ phase' = "finish"
  /\ UNCHANGED <<stops, runs, dry, start, pc, at, terminal, result, attempts, status, recorded>>

Finished == status # "suspended"

\* finish(): the score is recorded unless the run is suspended.
Finish ==
  /\ phase = "finish"
  /\ recorded' = Finished
  /\ phase' = "ended"
  /\ UNCHANGED <<stops, runs, dry, start, pc, at, terminal, result, attempts, status, posted>>

FrameNext(f) ==
  \/ StepBegins(f) \/ StepEnds(f) \/ Attempt(f) \/ Gate(f)
  \/ Fork(f) \/ TakeBranch(f) \/ Join(f)

RunNext == PreProbesFail \/ PreProbesPass \/ Conclude \/ PostProbes \/ Finish

Next == Run \/ RunNext \/ ApproverRaises \/ \E f \in Frames : FrameNext(f)

Spec == Init /\ [][Next]_vars

\* Targets, checks, approvers and probes return: nothing in the engine waits
\* for them with a timeout.  Each thread that can go on does.
FairSpec == Spec /\ WF_vars(RunNext) /\ \A f \in Frames : WF_vars(FrameNext(f))

-------------------------------------------------------------------------------
(* Properties.                                                             *)

(* Types; and a check is tried at most once more than retries says, and    *)
(* fails only when it was tried that often (check).                        *)
TypeOK ==
  /\ phase \in {"idle", "pre", "nodes", "post", "finish", "ended", "raised"}
  /\ runs \in 0..MaxRuns
  /\ stops \in BOOLEAN /\ dry \in BOOLEAN /\ posted \in BOOLEAN /\ recorded \in BOOLEAN
  /\ start \in 1..Len(Top) + 1
  /\ pc \in [Frames -> {"off", "queued", "next", "target", "retry", "join", "done"}]
  /\ \A f \in Frames : at[f] \in 1..Len(NodesOf(f)) + 1
  /\ terminal \in [Frames -> Terminals \cup {None}]
  /\ result \in [Nodes -> NodeStatuses \cup {None}]
  /\ attempts \in [Nodes -> 0..Retries + 1]
  /\ status \in {"passed", None} \cup Terminals
  /\ \A n \in Checks : result[n] = "failed" => attempts[n] = Retries + 1

Leaves(n) == Under[n] \ Parallels

\* What a node may have ended with for the nodes after it to run.
LetsThrough(n) ==
  \/ n \in Steps /\ (result[n] = "passed" \/ (result[n] = "failed" /\ ~stops))
  \/ n \in Checks /\ (result[n] = "passed" \/ (result[n] = "failed" /\ n \in SoftChecks))
  \/ n \in Gates /\ (result[n] \in {"approved", "resumed"} \/ (result[n] = "would_suspend" /\ dry))

Executed(f, i) ==
  \/ result[NodesOf(f)[i]] \notin {None, "skipped", "resumed"}
  \/ at[f] = i /\ pc[f] \in {"target", "retry", "join"}

FirstIndex(f) == IF f = TopFrame THEN start ELSE 1

(* A node runs only after every step, check and gate before it in its      *)
(* sequence, those in the branches of parallel blocks included, has ended  *)
(* without stopping the workflow; no node behind a gate runs before the    *)
(* gate is approved, resumed at, or passed in a dry run (sequence, node,   *)
(* parallel, suspend).                                                     *)
RunsInOrder ==
  TypeOK /\ \A f \in Frames : \A k \in DOMAIN NodesOf(f) :
     Executed(f, k) =>
       \A i \in FirstIndex(f)..k - 1 : \A m \in Leaves(NodesOf(f)[i]) : LetsThrough(m)

(* The status a finished run reports agrees with what its nodes did,       *)
(* however the branches interleaved and failed, and the worst of what they *)
(* ended with wins: aborted exactly if a step's breaker aborted it; halted *)
(* or aborted, never failed, if a check failed that halts the workflow,    *)
(* whatever else failed beside it, and halted for nothing else than such a *)
(* check or failed probes; failed only if something failed; passed only if *)
(* every node this run executed passed; a block says passed and aborted    *)
(* likewise (execute, parallel, _SEVERITY).  A run goes                    *)
(* into the history exactly if it is not waiting at a gate, and a run that *)
(* waits has not run its post-chaos probes either ("history records the    *)
(* score of every finished (not suspended) run", run).                     *)
StatusTrue ==
  phase = "ended" =>
    LET executed == UNION {Leaves(Top[i]) : i \in start..Len(Top)}
        some(kind, s) == \E n \in kind \cap executed : result[n] = s
    IN /\ status = "aborted" <=> some(Steps, "aborted")
       /\ status = "failed" => some(Steps \cup Checks, "failed")
       /\ status = "halted" =>
            (\A n \in Nodes : result[n] = "skipped") \/ some(Checks \ SoftChecks, "failed")
       /\ some(Checks \ SoftChecks, "failed") => status \in {"halted", "aborted"}
       /\ status = "rejected" <=> some(Gates, "rejected")
       /\ status = "suspended" <=> some(Gates, "suspended")
       /\ status = "passed" => \A n \in executed :
                                  result[n] \in {"passed", "approved", "would_suspend"}
       /\ \A n \in Parallels : result[n] \notin {None, "skipped"} =>
            /\ result[n] = "passed" <=> \A m \in Leaves(n) : result[m] = "passed"
            /\ result[n] = "aborted" <=> \E m \in Leaves(n) : result[m] = "aborted"
       /\ recorded <=> \A n \in Gates : result[n] # "suspended"
       /\ (\E n \in Gates : result[n] = "suspended") => ~posted

(* A run from the start reports every node, nested ones included, however  *)
(* early it stops (skipped, "Remaining nodes are reported as skipped").    *)
FreshReportFull ==
  phase = "ended" /\ start = 1 => \A n \in Nodes : result[n] # None

(* "Every node name, depth-first, as it will appear in the report"         *)
(* (node_names): the report of any run has a result for every node.        *)
ReportFull == phase = "ended" => \A n \in Nodes : result[n] # None

(* Every run ends: no sequence waits for a branch that waits for a worker, *)
(* however deep the blocks nest and however few workers they have.         *)
RunEnds == phase = "pre" ~> phase \in {"ended", "raised"}
=============================================================================
