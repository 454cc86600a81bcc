--------------------------- MODULE WorkflowProofs ---------------------------
(***************************************************************************)
(* Proofs about the workflow engine, for every plan of nested blocks: the  *)
(* order in which nodes run, the status of a run, and the nodes a report   *)
(* has results for.                                                        *)
(***************************************************************************)
EXTENDS Workflow, SequenceTheorems, TLAPS

\* The calls of sequence() for the branches under node n.
SubFrames(n) == {g \in Frames \ {TopFrame} : g[1] \in Under[n]}

Busy(f) == pc[f] \notin {"off", "done"}
Calm(n) == \A g \in SubFrames(n) : pc[g] \in {"off", "done"}
Quiet(n) == \A g \in SubFrames(n) : pc[g] = "off"

-----------------------------------------------------------------------------
(* What is known of a node, by its place before, at or behind the index of *)
(* the sequence it stands in.                                              *)

Untouched(n) == Quiet(n) /\ \A m \in Under[n] : result[m] = None /\ attempts[m] = 0
Skipped(n) == Quiet(n) /\ \A m \in Under[n] : result[m] = "skipped"

\* A node in front of the gate at which the run was resumed.
Before(n) ==
  /\ Quiet(n) /\ (result[n] = "skipped" \/ (result[n] = "resumed" /\ n \in Gates))
  /\ \A m \in Under[n] \ {n} : result[m] = None

\* What the terminal status t says of the steps, checks and gates L.
Verdict(L, t) ==
  /\ t \in Terminals \cup {None}
  /\ t = None => \A m \in L : LetsThrough(m)
  /\ t = "aborted" <=> \E m \in L \cap Steps : result[m] = "aborted"
  /\ t = "failed" => \E m \in L \cap (Steps \cup Checks) : result[m] = "failed"
  /\ t = "halted" => \E m \in L \cap (Checks \ SoftChecks) : result[m] = "failed"
  /\ \A m \in L \cap (Checks \ SoftChecks) : result[m] = "failed" => t \in {"halted", "aborted"}
  /\ t = "rejected" <=> \E m \in L \cap Gates : result[m] = "rejected"
  /\ t = "suspended" <=> \E m \in L \cap Gates : result[m] = "suspended"

BlockTrue(n) ==
  result[n] \notin {None, "skipped"} =>
    /\ result[n] = "passed" <=> \A m \in Leaves(n) : result[m] = "passed"
    /\ result[n] = "aborted" <=> \E m \in Leaves(n) : result[m] = "aborted"
    /\ result[n] = "failed" => \E m \in Leaves(n) : result[m] = "failed"

\* A node that has ended with the terminal status t.
Ended(n, t) ==
  /\ Calm(n) /\ \A m \in Under[n] : result[m] \notin {None, "resumed"}
  /\ \A m \in Under[n] \cap Parallels : BlockTrue(m)
  /\ Verdict(Leaves(n), t)

-----------------------------------------------------------------------------
(* The invariant: one statement for each call of sequence().               *)

NotBegun(f) ==
  /\ at[f] = 1 /\ terminal[f] = None
  /\ \A i \in DOMAIN NodesOf(f) :
       IF pc[f] = "queued" THEN Untouched(NodesOf(f)[i])
                           ELSE result[NodesOf(f)[i]] \in {None, "skipped"}

UnderWay(f) ==
  /\ at[f] \in FirstIndex(f)..Len(NodesOf(f)) /\ terminal[f] = None
  /\ \A i \in 1..FirstIndex(f) - 1 : Before(NodesOf(f)[i])
  /\ \A i \in FirstIndex(f)..at[f] - 1 : Ended(NodesOf(f)[i], None)
  /\ \A i \in at[f] + 1..Len(NodesOf(f)) : Untouched(NodesOf(f)[i])
  /\ pc[f] \in {"next", "target"} => Untouched(Node(f))
  /\ pc[f] = "target" => Node(f) \in Steps
  /\ pc[f] = "retry" =>
       Node(f) \in Checks /\ attempts[Node(f)] \in 1..Retries /\ result[Node(f)] = None
  /\ pc[f] = "join" =>
       /\ Node(f) \in Parallels /\ result[Node(f)] = None
       /\ \A g \in BranchFrames(Node(f)) : pc[g] # "off"

Over(f) ==
  /\ at[f] \in FirstIndex(f)..Len(NodesOf(f)) + 1 /\ terminal[f] \in Terminals \cup {None}
  /\ \A i \in 1..FirstIndex(f) - 1 : Before(NodesOf(f)[i])
  /\ \A i \in at[f]..Len(NodesOf(f)) : terminal[f] # None /\ Skipped(NodesOf(f)[i])
  /\ terminal[f] # None => at[f] > FirstIndex(f)
  /\ \A i \in FirstIndex(f)..at[f] - 1 :
       Ended(NodesOf(f)[i], IF i = at[f] - 1 THEN terminal[f] ELSE None)

FrameOK(f) ==
  /\ pc[f] \in {"off", "queued"} => NotBegun(f)
  /\ Active(f) => UnderWay(f)
  /\ pc[f] = "done" => Over(f)

\* The run as a whole.
Blank ==
  /\ \A f \in Frames : pc[f] = "off"
  /\ \A n \in Nodes : result[n] = None /\ attempts[n] = 0
Halted ==
  /\ \A f \in Frames : pc[f] = "off"
  /\ \A n \in Nodes : result[n] = "skipped"
  /\ status = "halted" /\ ~posted

RunOK ==
  /\ start \in {1} \cup ResumePoints
  /\ pc[TopFrame] # "queued"
  /\ phase \in {"idle", "pre"} => Blank
  /\ phase = "nodes" => pc[TopFrame] # "off"
  /\ phase \in {"idle", "pre", "nodes", "post", "raised"} => ~posted
  /\ phase \in {"post", "finish", "ended"} =>
       \/ Halted /\ phase # "post"
       \/ pc[TopFrame] = "done" /\ status = OverallStatus
  /\ phase = "post" \/ posted => "suspended" \notin Statuses
  /\ phase = "ended" => (recorded <=> status # "suspended")

Typed ==
  /\ phase \in {"idle", "pre", "nodes", "post", "finish", "ended", "raised"}
  /\ runs \in 0..MaxRuns
  /\ stops \in BOOLEAN /\ dry \in BOOLEAN /\ posted \in BOOLEAN /\ recorded \in BOOLEAN
  /\ start \in 1..Len(Top) + 1
  /\ pc \in [Frames -> {"off", "queued", "next", "target", "retry", "join", "done"}]
  /\ at \in [Frames -> Nat]
  /\ terminal \in [Frames -> Terminals \cup {None}]
  /\ result \in [Nodes -> NodeStatuses \cup {None}]
  /\ attempts \in [Nodes -> 0..Retries + 1]
  /\ status \in {"passed", None} \cup Terminals
  /\ \A n \in Checks : result[n] = "failed" => attempts[n] = Retries + 1

Inv == Typed /\ RunOK /\ \A f \in Frames : FrameOK(f)
-----------------------------------------------------------------------------
(* The plan: what is nested in what.                                       *)

LEMMA FrameType ==
    ASSUME NEW f \in Frames
    PROVE  /\ NodesOf(f) \in Seq(Nodes) /\ Len(NodesOf(f)) \in Nat
           /\ DOMAIN NodesOf(f) = 1..Len(NodesOf(f))
           /\ \A i \in DOMAIN NodesOf(f) : NodesOf(f)[i] \in Nodes
           /\ f # TopFrame => f[1] \in Parallels /\ f \in BranchFrames(f[1])
           /\ f # TopFrame => \A i \in DOMAIN NodesOf(f) : NodesOf(f)[i] \notin Gates
<1>1. CASE f = TopFrame
  <2>1. NodesOf(f) = Top
    BY <1>1 DEF NodesOf
  <2>2. Top \in Seq(Nodes)
    BY WorkflowAssumption
  <2> QED
    BY <1>1, <2>1, <2>2, ElementOfSeq, LenProperties
<1>2. CASE f # TopFrame
  <2>1. PICK n, b : n \in Parallels /\ b \in DOMAIN Branches[n] /\ f = <<n, b>>
    BY <1>2 DEF Frames, BranchFrames
  <2>2. f[1] = n /\ f[2] = b /\ NodesOf(f) = Branches[n][b]
    BY <1>2, <2>1 DEF NodesOf
  <2>3. NodesOf(f) \in Seq(Nodes \ Gates)
    BY <2>1, <2>2, WorkflowAssumption
  <2>4. \A i \in 1..Len(NodesOf(f)) : NodesOf(f)[i] \in Nodes \ Gates
    BY <2>3, ElementOfSeq
  <2>5. Len(NodesOf(f)) \in Nat /\ DOMAIN NodesOf(f) = 1..Len(NodesOf(f)) /\ NodesOf(f) \in Seq(Nodes)
    BY <2>3, LenProperties, SeqDef
  <2> QED
    BY <1>2, <2>1, <2>2, <2>4, <2>5 DEF BranchFrames
<1> QED
  BY <1>1, <1>2

LEMMA BranchType ==
    ASSUME NEW n \in Parallels, NEW g \in BranchFrames(n)
    PROVE  g \in Frames /\ g # TopFrame /\ g[1] = n
  BY DEF Frames, BranchFrames, TopFrame

\* A child stands somewhere in a branch.
LEMMA ChildPlace ==
    ASSUME NEW n, NEW m
    PROVE  m \in Children(n) <=>
             n \in Parallels /\ \E g \in BranchFrames(n) : \E i \in DOMAIN NodesOf(g) : m = NodesOf(g)[i]
  BY DEF Children, Members

LEMMA ChildType ==
    ASSUME NEW n, NEW m \in Children(n)
    PROVE  n \in Parallels /\ m \in Nodes \ Gates
<1>1. PICK g \in BranchFrames(n) : n \in Parallels /\ \E i \in DOMAIN NodesOf(g) : m = NodesOf(g)[i]
  BY ChildPlace
<1> QED
  BY <1>1, BranchType, FrameType

\* Unique names: a node stands in one place, and so has one parent.
LEMMA OnePlace ==
    ASSUME NEW f \in Frames, NEW i \in DOMAIN NodesOf(f), NEW g \in Frames, NEW k \in DOMAIN NodesOf(g),
           NodesOf(f)[i] = NodesOf(g)[k]
    PROVE  f = g /\ i = k
  BY PlanAssumption

LEMMA OneParent ==
    ASSUME NEW m, NEW n, NEW p, m \in Children(n), m \in Children(p)
    PROVE  n = p
<1>1. PICK f, i :
            n \in Parallels /\ f \in BranchFrames(n) /\ i \in DOMAIN NodesOf(f) /\ m = NodesOf(f)[i]
  BY ChildPlace
<1>2. PICK g, k :
            p \in Parallels /\ g \in BranchFrames(p) /\ k \in DOMAIN NodesOf(g) /\ m = NodesOf(g)[k]
  BY ChildPlace
<1>3. f \in Frames /\ f[1] = n
  BY <1>1, BranchType
<1>4. g \in Frames /\ g[1] = p
  BY <1>2, BranchType
<1>5. f = g
  BY <1>1, <1>2, <1>3, <1>4, OnePlace
<1> QED
  BY <1>3, <1>4, <1>5

LEMMA UnderType ==
    ASSUME NEW n \in Nodes
    PROVE  /\ n \in Under[n] /\ Under[n] \subseteq Nodes
           /\ \A m \in Under[n] : Children(m) \subseteq Under[n]
           /\ \A S \in SUBSET Nodes :
                n \in S /\ (\A k \in S : Children(k) \subseteq S) => Under[n] \subseteq S
<1>1. Under[n] = {m \in Nodes : \A S \in SUBSET Nodes :
                    n \in S /\ (\A k \in S : Children(k) \subseteq S) => m \in S}
  BY DEF Under
<1>2. \A m \in Under[n] : Children(m) \subseteq Under[n]
  <2>1. ASSUME NEW m \in Under[n], NEW x \in Children(m)
        PROVE  x \in Under[n]
    <3>1. ASSUME NEW S \in SUBSET Nodes, n \in S, \A k \in S : Children(k) \subseteq S
          PROVE  x \in S
      <4>1. m \in S
        BY <1>1, <3>1
      <4> QED
        BY <2>1, <3>1, <4>1
    <3>2. x \in Nodes
      BY ChildType
    <3> QED
      BY <1>1, <3>1, <3>2
  <2> QED
    BY <2>1
<1> QED
  BY <1>1, <1>2

LEMMA UnderUnder ==
    ASSUME NEW n \in Nodes, NEW m \in Under[n]
    PROVE  m \in Nodes /\ Under[m] \subseteq Under[n] /\ SubFrames(m) \subseteq SubFrames(n)
  BY UnderType DEF SubFrames

\* A node nested in another one has its parent there.
LEMMA UpOne ==
    ASSUME NEW n \in Nodes, NEW m \in Under[n], m # n
    PROVE  \E p \in Under[n] : m \in Children(p)
<1> DEFINE S == {x \in Under[n] : x = n \/ \E p \in Under[n] : x \in Children(p)}
<1>1. S \in SUBSET Nodes /\ n \in S
  BY UnderType
<1>2. \A k \in S : Children(k) \subseteq S
  BY UnderType
<1>3. Under[n] \subseteq S
  <2> HIDE DEF S
  <2> QED
    BY <1>1, <1>2, UnderType
<1> QED
  BY <1>3

\* A nested node stands in a branch of a node nested there.
LEMMA Home ==
    ASSUME NEW f \in Frames, NEW i \in DOMAIN NodesOf(f), NEW n \in Nodes,
           NodesOf(f)[i] \in Under[n], NodesOf(f)[i] # n
    PROVE  f \in SubFrames(n)
<1>1. PICK p \in Under[n] : NodesOf(f)[i] \in Children(p)
  BY UpOne
<1>2. PICK g, k :
            p \in Parallels /\ g \in BranchFrames(p) /\ k \in DOMAIN NodesOf(g) /\ NodesOf(f)[i] = NodesOf(g)[k]
  BY <1>1, ChildPlace
<1>3. g \in Frames /\ g # TopFrame /\ g[1] = p
  BY <1>2, BranchType
<1>4. f = g
  BY <1>2, <1>3, OnePlace
<1> QED
  BY <1>3, <1>4 DEF SubFrames

\* Where two nodes have something nested in both, one is nested in the other.
LEMMA Overlap ==
    ASSUME NEW r \in Nodes, NEW x \in Nodes, NEW m \in Under[r], m \in Under[x]
    PROVE  r \in Under[x] \/ x \in Under[r]
<1> DEFINE S == {y \in Under[r] : y \in Under[x] => (r \in Under[x] \/ x \in Under[r])}
<1>1. S \in SUBSET Nodes /\ r \in S
  BY UnderType
<1>2. ASSUME NEW y \in S, NEW z \in Children(y)
      PROVE  z \in S
  <2>1. z \in Under[r]
    BY <1>2, UnderType
  <2>2. ASSUME z \in Under[x]
        PROVE  r \in Under[x] \/ x \in Under[r]
    <3>1. CASE z = x
      BY <2>1, <3>1
    <3>2. CASE z # x
      <4>1. PICK p \in Under[x] : z \in Children(p)
        BY <2>2, <3>2, UpOne
      <4>2. p = y
        BY <1>2, <4>1, OneParent
      <4> QED
        BY <4>1, <4>2
    <3> QED
      BY <3>1, <3>2
  <2> QED
    BY <2>1, <2>2
<1>3. Under[r] \subseteq S
  <2> HIDE DEF S
  <2>1. \A k \in S : Children(k) \subseteq S
    BY <1>2
  <2> QED
    BY <1>1, <2>1, UnderType
<1> QED
  BY <1>3

\* A sequence runs none of what is nested in its own nodes.
LEMMA NotOwn ==
    ASSUME NEW f \in Frames, NEW i \in DOMAIN NodesOf(f)
    PROVE  f \notin SubFrames(NodesOf(f)[i])
<1> SUFFICES ASSUME f \in SubFrames(NodesOf(f)[i])
             PROVE  FALSE
  OBVIOUS
<1>1. f # TopFrame /\ f[1] \in Under[NodesOf(f)[i]]
  BY DEF SubFrames
<1>2. f[1] \in Parallels /\ f \in BranchFrames(f[1])
  BY <1>1, FrameType
<1>3. NodesOf(f)[i] \in Children(f[1])
  BY <1>2, ChildPlace
<1> QED
  BY <1>1, <1>2, <1>3, PlanAssumption DEF Nodes

LEMMA Siblings ==
    ASSUME NEW f \in Frames, NEW i \in DOMAIN NodesOf(f), NEW k \in DOMAIN NodesOf(f), i # k
    PROVE  /\ Under[NodesOf(f)[i]] \cap Under[NodesOf(f)[k]] = {}
           /\ \A g \in SubFrames(NodesOf(f)[i]) : g \notin SubFrames(NodesOf(f)[k])
<1>1. NodesOf(f)[i] \in Nodes /\ NodesOf(f)[k] \in Nodes /\ NodesOf(f)[i] # NodesOf(f)[k]
  BY FrameType, OnePlace
<1>2. NodesOf(f)[i] \notin Under[NodesOf(f)[k]] /\ NodesOf(f)[k] \notin Under[NodesOf(f)[i]]
  BY <1>1, Home, NotOwn
<1>3. \A m : ~(m \in Under[NodesOf(f)[i]] /\ m \in Under[NodesOf(f)[k]])
  BY <1>1, <1>2, Overlap
<1> QED
  BY <1>3 DEF SubFrames

\* A step, a check and a gate have nothing nested in them.
LEMMA LeafUnder ==
    ASSUME NEW n \in Nodes \ Parallels
    PROVE  Under[n] = {n} /\ SubFrames(n) = {} /\ Leaves(n) = {n}
<1>1. Children(n) = {}
  BY DEF Children
<1>2. Under[n] = {n}
  <2>1. {n} \in SUBSET Nodes /\ \A k \in {n} : Children(k) \subseteq {n}
    BY <1>1
  <2>2. Under[n] \subseteq {n}
    BY <2>1, UnderType
  <2> QED
    BY <2>2, UnderType
<1>3. SubFrames(n) = {}
  BY <1>2, FrameType DEF SubFrames
<1> QED
  BY <1>2, <1>3 DEF Leaves

LEMMA BlockUnder ==
    ASSUME NEW n \in Parallels
    PROVE  /\ \A m : m \in Under[n] <=> m = n \/ \E x \in Children(n) : m \in Under[x]
           /\ \A x \in Children(n) : n \notin Under[x] /\ x \in Nodes
           /\ \A m : m \in Leaves(n) <=> \E x \in Children(n) : m \in Leaves(x)
           /\ \A g : g \in SubFrames(n) <=>
                g \in BranchFrames(n) \/ \E x \in Children(n) : g \in SubFrames(x)
<1>1. n \in Nodes
  BY DEF Nodes
<1>2. \A x \in Children(n) : x \in Nodes /\ n \notin Under[x]
  BY <1>1, ChildType, PlanAssumption
<1>3. ASSUME NEW m \in Under[n], m # n
      PROVE  \E x \in Children(n) : m \in Under[x]
  <2> DEFINE S == {n} \cup UNION {Under[x] : x \in Children(n)}
  <2>1. S \in SUBSET Nodes /\ n \in S
    BY <1>1, <1>2, UnderType
  <2>2. \A k \in S : Children(k) \subseteq S
    BY <1>2, UnderType
  <2>3. Under[n] \subseteq S
    <3> HIDE DEF S
    <3> QED
      BY <1>1, <2>1, <2>2, UnderType
  <2> QED
    BY <1>3, <2>3
<1>4. \A x \in Children(n) : Under[x] \subseteq Under[n]
  BY <1>1, UnderType, UnderUnder
<1>5. \A m : m \in Under[n] <=> m = n \/ \E x \in Children(n) : m \in Under[x]
  BY <1>1, <1>3, <1>4, UnderType
<1>6. \A m : m \in Leaves(n) <=> \E x \in Children(n) : m \in Leaves(x)
  BY <1>5 DEF Leaves
<1>7. ASSUME NEW g
      PROVE  g \in SubFrames(n) <=> g \in BranchFrames(n) \/ \E x \in Children(n) : g \in SubFrames(x)
  <2>1. g \in Frames \ {TopFrame} /\ g[1] = n <=> g \in BranchFrames(n)
    BY BranchType, FrameType
  <2> QED
    BY <1>5, <2>1 DEF SubFrames
<1> QED
  BY <1>2, <1>5, <1>6, <1>7

-----------------------------------------------------------------------------
(* What a step leaves alone.                                               *)

Frozen(n) ==
  /\ \A m \in Under[n] : result'[m] = result[m] /\ attempts'[m] = attempts[m]
  /\ \A g \in SubFrames(n) : pc'[g] = pc[g]

LEMMA FrozenKeeps ==
    ASSUME NEW n \in Nodes, Frozen(n), UNCHANGED <<stops, dry>>
    PROVE  /\ Untouched(n) => Untouched(n)'
           /\ Skipped(n) => Skipped(n)'
           /\ Before(n) => Before(n)'
           /\ \A t : Ended(n, t) => Ended(n, t)'
<1>1. n \in Under[n] /\ \A m \in Under[n] : m \in Nodes /\ Under[m] \subseteq Under[n]
  BY UnderType, UnderUnder
<1>2. /\ \A m \in Under[n] : result'[m] = result[m] /\ attempts'[m] = attempts[m]
      /\ \A g \in SubFrames(n) : pc'[g] = pc[g]
  BY DEF Frozen
<1>3. (Quiet(n) <=> Quiet(n)') /\ (Calm(n) <=> Calm(n)')
  BY <1>2 DEF Quiet, Calm
<1>4. \A m \in Under[n] : Leaves(m) \subseteq Under[n]
  BY <1>1 DEF Leaves
<1>5. \A m \in Under[n] : BlockTrue(m) => BlockTrue(m)'
  BY <1>2, <1>4 DEF BlockTrue
<1>6. ASSUME NEW t, Verdict(Leaves(n), t)
      PROVE  Verdict(Leaves(n), t)'
  <2>1. \A m \in Leaves(n) : result'[m] = result[m] /\ (LetsThrough(m) <=> LetsThrough(m)')
    BY <1>1, <1>2, <1>4 DEF LetsThrough
  <2> QED
    BY <1>6, <2>1 DEF Verdict
<1>7. (Untouched(n) => Untouched(n)') /\ (Skipped(n) => Skipped(n)') /\ (Before(n) => Before(n)')
  BY <1>1, <1>2, <1>3 DEF Untouched, Skipped, Before
<1>8. ASSUME NEW t, Ended(n, t)
      PROVE  Ended(n, t)'
  BY <1>2, <1>3, <1>5, <1>6, <1>8 DEF Ended
<1> QED
  BY <1>7, <1>8

\* The index of a sequence that is under way is the place of a node.
LEMMA IndexType ==
    ASSUME Typed, NEW f \in Frames, FrameOK(f), Active(f)
    PROVE  /\ UnderWay(f) /\ at[f] \in DOMAIN NodesOf(f) /\ Node(f) \in Nodes
           /\ FirstIndex(f) \in 1..at[f]
<1>1. UnderWay(f)
  BY DEF FrameOK
<1>2. FirstIndex(f) \in Nat \ {0}
  BY FrameType DEF Typed, FirstIndex
<1> QED
  BY <1>1, <1>2, FrameType DEF UnderWay, Node

\* The calm parts of the other sequences are not nested in what f is about to change.
LEMMA Apart ==
    ASSUME NEW f \in Frames, Busy(f), NEW h \in Frames, h # f, pc[h] # "off",
           NEW i \in DOMAIN NodesOf(h), Calm(NodesOf(h)[i])
    PROVE  /\ f \notin SubFrames(NodesOf(h)[i])
           /\ \A k \in DOMAIN NodesOf(f) :
                /\ NodesOf(f)[k] \notin Under[NodesOf(h)[i]]
                /\ Quiet(NodesOf(f)[k]) =>
                     Under[NodesOf(f)[k]] \cap Under[NodesOf(h)[i]] = {}
<1> DEFINE x == NodesOf(h)[i]
<1>1. x \in Nodes /\ f \notin SubFrames(x)
  BY FrameType DEF Calm, Busy
<1>2. ASSUME NEW k \in DOMAIN NodesOf(f)
      PROVE  /\ NodesOf(f)[k] \in Nodes /\ NodesOf(f)[k] # x /\ NodesOf(f)[k] \notin Under[x]
  <2>1. NodesOf(f)[k] \in Nodes /\ NodesOf(f)[k] # x
    BY FrameType, OnePlace
  <2> QED
    BY <1>1, <2>1, Home
<1>3. ASSUME NEW k \in DOMAIN NodesOf(f), Quiet(NodesOf(f)[k])
      PROVE  \A m : ~(m \in Under[NodesOf(f)[k]] /\ m \in Under[x])
  <2>1. x \notin Under[NodesOf(f)[k]]
    <3>1. h \notin SubFrames(NodesOf(f)[k])
      BY <1>3 DEF Quiet
    <3> QED
      BY <1>2, <1>3, <3>1, Home
  <2> QED
    BY <1>1, <1>2, <1>3, <2>1, Overlap
<1> QED
  BY <1>1, <1>2, <1>3

\* A step of f changes its own node, skips what is ahead, or starts its branches: the
\* other sequences are as they were.
LEMMA Others ==
    ASSUME Typed, \A g \in Frames : FrameOK(g), NEW f \in Frames, Busy(f), NEW T \in SUBSET Nodes,
           \A m \in Nodes \ T : result'[m] = result[m] /\ attempts'[m] = attempts[m],
           \A m \in T : \/ Active(f) /\ m = Node(f)
                        \/ /\ result'[m] = "skipped"
                           /\ \E k \in DOMAIN NodesOf(f) :
                                Quiet(NodesOf(f)[k]) /\ m \in Under[NodesOf(f)[k]],
           \A g \in Frames \ {f} : \/ pc'[g] = pc[g]
                                   \/ Active(f) /\ g # TopFrame /\ g[1] = Node(f) /\ pc'[g] # "off",
           pc'[f] # "off", NEW h \in Frames, h # f, pc'[h] = pc[h], at'[h] = at[h], terminal'[h] = terminal[h],
           UNCHANGED <<stops, dry, start>>
    PROVE  FrameOK(h)'
<1>1. \A k \in DOMAIN NodesOf(h) : NodesOf(h)[k] \in Nodes
  BY FrameType
<1>2. FrameOK(h) /\ FirstIndex(h)' = FirstIndex(h) /\ Node(h)' = Node(h)
  BY DEF FirstIndex, Node
<1>3. Active(f) => at[f] \in DOMAIN NodesOf(f) /\ Node(f) = NodesOf(f)[at[f]]
  BY IndexType DEF Node
<1>4. ASSUME pc[h] # "off", NEW i \in DOMAIN NodesOf(h), Calm(NodesOf(h)[i])
      PROVE  Frozen(NodesOf(h)[i])
  <2> DEFINE x == NodesOf(h)[i]
  <2>1. /\ f \notin SubFrames(x)
        /\ \A k \in DOMAIN NodesOf(f) :
             /\ NodesOf(f)[k] \notin Under[x]
             /\ Quiet(NodesOf(f)[k]) => Under[NodesOf(f)[k]] \cap Under[x] = {}
    BY <1>4, Apart
  <2>2. Active(f) => Node(f) \notin Under[x]
    BY <1>3, <2>1
  <2>3. \A m \in T : m \notin Under[x]
    BY <2>1, <2>2
  <2>4. \A m \in Under[x] : m \in Nodes
    BY <1>1, UnderType
  <2>5. \A g \in SubFrames(x) : pc'[g] = pc[g]
    BY <2>1, <2>2 DEF SubFrames
  <2> QED
    BY <2>3, <2>4, <2>5 DEF Frozen
<1>5. ASSUME pc[h] # "off", NEW i \in DOMAIN NodesOf(h)
      PROVE  LET x == NodesOf(h)[i] IN
             /\ Untouched(x) => Untouched(x)'
             /\ Skipped(x) => Skipped(x)'
             /\ Before(x) => Before(x)'
             /\ \A t : Ended(x, t) => Ended(x, t)'
  <2> DEFINE x == NodesOf(h)[i]
  <2>1. Untouched(x) \/ Skipped(x) \/ Before(x) \/ (\E t : Ended(x, t)) => Calm(x)
    BY DEF Untouched, Skipped, Before, Ended, Quiet, Calm
  <2>2. Calm(x) => Frozen(x)
    BY <1>4, <1>5
  <2> QED
    BY <1>1, <2>1, <2>2, FrozenKeeps
<1>6. \A i \in DOMAIN NodesOf(h) : NodesOf(h)[i] \in T => result'[NodesOf(h)[i]] = "skipped"
  <2>1. Active(f) => \A i \in DOMAIN NodesOf(h) : NodesOf(h)[i] # Node(f)
    BY <1>3, OnePlace
  <2> QED
    BY <2>1
<1>7. \A i \in DOMAIN NodesOf(h) : pc[h] # "off" => NodesOf(h)[i] \notin T
  <2> SUFFICES ASSUME NEW i \in DOMAIN NodesOf(h), pc[h] # "off", NodesOf(h)[i] \in T
               PROVE  FALSE
    OBVIOUS
  <2>1. Active(f) => NodesOf(h)[i] # Node(f)
    BY <1>3, OnePlace
  <2>2. PICK k \in DOMAIN NodesOf(f) :
               Quiet(NodesOf(f)[k]) /\ NodesOf(h)[i] \in Under[NodesOf(f)[k]]
    BY <2>1
  <2>3. NodesOf(f)[k] \in Nodes /\ NodesOf(h)[i] # NodesOf(f)[k]
    BY FrameType, OnePlace
  <2>4. h \in SubFrames(NodesOf(f)[k])
    BY <2>2, <2>3, Home
  <2> QED
    BY <2>2, <2>4 DEF Quiet
<1>8. CASE pc[h] = "off"
  <2>1. \A i \in DOMAIN NodesOf(h) : result'[NodesOf(h)[i]] \in {None, "skipped"}
    BY <1>1, <1>2, <1>6, <1>8 DEF FrameOK, NotBegun
  <2> QED
    BY <1>2, <1>8, <2>1 DEF FrameOK, NotBegun, Active
<1>9. CASE pc[h] = "queued"
  <2>1. NotBegun(h)
    BY <1>2, <1>9 DEF FrameOK
  <2>2. NotBegun(h)'
    BY <1>5, <1>9, <2>1 DEF NotBegun
  <2> QED
    BY <1>9, <2>2 DEF FrameOK, Active
<1>10. CASE Active(h)
  <2>1. UnderWay(h) /\ at[h] \in DOMAIN NodesOf(h) /\ FirstIndex(h) \in 1..at[h] /\ Node(h) \in Nodes
    BY <1>2, <1>10, IndexType
  <2>2. pc[h] # "off" /\ DOMAIN NodesOf(h) = 1..Len(NodesOf(h)) /\ Len(NodesOf(h)) \in Nat
    BY <1>10, FrameType DEF Active
  <2>3. Node(h) = NodesOf(h)[at[h]] /\ result'[Node(h)] = result[Node(h)]
        /\ attempts'[Node(h)] = attempts[Node(h)]
    BY <1>7, <2>1, <2>2 DEF Node
  <2>4. \A i \in 1..FirstIndex(h) - 1 : Before(NodesOf(h)[i])'
    BY <1>5, <2>1, <2>2 DEF UnderWay
  <2>5. \A i \in FirstIndex(h)..at[h] - 1 : Ended(NodesOf(h)[i], None)'
    BY <1>5, <2>1, <2>2 DEF UnderWay
  <2>6. \A i \in at[h] + 1..Len(NodesOf(h)) : Untouched(NodesOf(h)[i])'
    BY <1>5, <2>1, <2>2 DEF UnderWay
  <2>7. pc[h] \in {"next", "target"} => Untouched(Node(h))'
    <3>1. PICK y : y = NodesOf(h)[at[h]]
      OBVIOUS
    <3>2. Untouched(y) => Untouched(y)'
      BY <1>5, <2>1, <2>2, <3>1
    <3>3. y = Node(h) /\ y = Node(h)'
      BY <1>2, <2>3, <3>1
    <3>4. Untouched(y)' => Untouched(Node(h))'
      BY <3>3 DEF Untouched, Quiet, SubFrames
    <3> QED
      BY <2>1, <3>2, <3>3, <3>4 DEF UnderWay
  <2>8. pc[h] = "join" => \A g \in BranchFrames(Node(h)) : pc'[g] # "off"
    <3>1. \A g \in Frames : pc[g] # "off" => pc'[g] # "off" \/ g = f
      OBVIOUS
    <3>2. ASSUME pc[h] = "join", NEW g \in BranchFrames(Node(h))
          PROVE  pc'[g] # "off" \/ g = f
      BY <2>1, <3>1, <3>2, BranchType DEF UnderWay
    <3>3. pc'[f] # "off"
      OBVIOUS
    <3> QED
      BY <3>2, <3>3
  <2>9. UnderWay(h)'
    BY <1>2, <2>1, <2>3, <2>4, <2>5, <2>6, <2>7, <2>8 DEF UnderWay
  <2> QED
    BY <1>10, <2>9 DEF FrameOK, Active
<1>11. CASE pc[h] = "done"
  <2>1. Over(h) /\ DOMAIN NodesOf(h) = 1..Len(NodesOf(h)) /\ Len(NodesOf(h)) \in Nat
        /\ FirstIndex(h) \in Nat \ {0} /\ at[h] \in Nat
    BY <1>2, <1>11, FrameType DEF FrameOK, Typed, FirstIndex
  <2>2. /\ \A i \in 1..FirstIndex(h) - 1 : Before(NodesOf(h)[i])'
        /\ \A i \in at[h]..Len(NodesOf(h)) : terminal[h] # None /\ Skipped(NodesOf(h)[i])'
    BY <1>5, <1>11, <2>1 DEF Over
  <2>3. \A i \in FirstIndex(h)..at[h] - 1 :
           Ended(NodesOf(h)[i], IF i = at[h] - 1 THEN terminal[h] ELSE None)'
    <3> SUFFICES ASSUME NEW i \in FirstIndex(h)..at[h] - 1
                 PROVE  \A t : Ended(NodesOf(h)[i], t) => Ended(NodesOf(h)[i], t)'
      BY <2>1 DEF Over
    <3> QED
      BY <1>5, <1>11, <2>1 DEF Over
  <2>4. Over(h)'
    BY <1>2, <2>1, <2>2, <2>3 DEF Over
  <2> QED
    BY <1>11, <2>4 DEF FrameOK, Active
<1> QED
  BY <1>8, <1>9, <1>10, <1>11 DEF Active

\* A node that returns: its sequence goes on behind it, or skips the rest and is over.
LEMMA ReturnKeeps ==
    ASSUME Typed, \A g \in Frames : FrameOK(g), NEW f \in Frames, Active(f),
           NEW s \in NodeStatuses, NEW t \in Terminals \cup {None}, Return(f, s, t),
           NEW n, n = Node(f), \A m \in Nodes \ {n} : attempts'[m] = attempts[m],
           Ended(n, t)', UNCHANGED <<stops, dry, start>>
    PROVE  \A h \in Frames : FrameOK(h)'
<1> DEFINE p == NodesOf(f)
           T == {n} \cup (IF t # None THEN Rest(f) ELSE {})
<1>1. /\ UnderWay(f) /\ at[f] \in DOMAIN p /\ n \in Nodes /\ FirstIndex(f) \in 1..at[f] /\ n = p[at[f]]
      /\ DOMAIN p = 1..Len(p) /\ Len(p) \in Nat /\ \A i \in DOMAIN p : p[i] \in Nodes
      /\ FirstIndex(f) \in Nat
  BY IndexType, FrameType DEF Node
<1>2. PICK a : a = at[f] /\ a \in Nat \ {0}
  BY <1>1
<1>3. /\ pc'[f] = (IF t # None THEN "done" ELSE EntryPc(f, a + 1))
      /\ at'[f] = a + 1 /\ terminal'[f] = t
      /\ \A g \in Frames \ {f} : pc'[g] = pc[g] /\ at'[g] = at[g] /\ terminal'[g] = terminal[g]
      /\ \A m \in Nodes : result'[m] = IF m = n THEN s
                                        ELSE IF t # None /\ m \in Rest(f) THEN "skipped" ELSE result[m]
  BY <1>2 DEF Return, Typed
<1>4. \A k \in a + 1..Len(p) : k \in DOMAIN p /\ Quiet(p[k]) /\ Untouched(p[k])
  BY <1>1, <1>2 DEF UnderWay, Untouched
<1>5. \A m : m \in Rest(f) <=> \E k \in a + 1..Len(p) : m \in Under[p[k]]
  BY <1>2 DEF Rest
<1>6. pc'[f] \in {"next", "done"}
  BY <1>3 DEF EntryPc
<1>7. ASSUME NEW h \in Frames, h # f
      PROVE  FrameOK(h)'
  <2>1. T \in SUBSET Nodes
    BY <1>1, <1>4, <1>5, UnderType
  <2>2. \A m \in Nodes \ T : result'[m] = result[m] /\ attempts'[m] = attempts[m]
    BY <1>3
  <2>3. \A m \in T : \/ Active(f) /\ m = Node(f)
                     \/ /\ result'[m] = "skipped"
                        /\ \E k \in DOMAIN p : Quiet(p[k]) /\ m \in Under[p[k]]
    BY <1>3, <1>4, <1>5, <2>1
  <2>4. Busy(f) /\ pc'[f] # "off"
    BY <1>6 DEF Busy, Active
  <2> HIDE DEF T
  <2> QED
    BY <1>3, <1>7, <2>1, <2>2, <2>3, <2>4, Others
<1>8. ASSUME NEW i \in DOMAIN p, i # a
      PROVE  /\ \A g \in SubFrames(p[i]) : pc'[g] = pc[g]
             /\ \A m \in Under[p[i]] : m \in Nodes /\ m # n
             /\ (i < a \/ t = None) => Frozen(p[i])
             /\ (i > a /\ t # None) => Skipped(p[i])'
  <2>1. \A m : ~(m \in Under[p[i]] /\ m \in Under[n])
    BY <1>1, <1>2, <1>8, Siblings
  <2>2. \A m \in Under[p[i]] : m \in Nodes /\ m # n
    BY <1>1, <2>1, UnderType
  <2>3. \A g \in SubFrames(p[i]) : pc'[g] = pc[g]
    BY <1>3, NotOwn DEF SubFrames
  <2>4. ASSUME i < a
        PROVE  \A m \in Under[p[i]] : m \notin Rest(f)
    BY <1>1, <1>2, <1>4, <1>5, <2>4, Siblings
  <2>5. i < a \/ t = None => Frozen(p[i])
    BY <1>3, <2>2, <2>3, <2>4 DEF Frozen
  <2>6. ASSUME i > a, t # None
        PROVE  Skipped(p[i])'
    <3>1. i \in a + 1..Len(p)
      BY <1>1, <1>2, <1>8, <2>6
    <3>2. \A m \in Under[p[i]] : result'[m] = "skipped"
      BY <1>3, <1>5, <2>2, <2>6, <3>1
    <3> QED
      BY <1>4, <2>3, <3>1, <3>2 DEF Skipped, Quiet
  <2> QED
    BY <2>2, <2>3, <2>5, <2>6
<1>9. FirstIndex(f)' = FirstIndex(f)
  BY DEF FirstIndex
<1>10. \A i \in 1..FirstIndex(f) - 1 : Before(p[i])'
  <2> SUFFICES ASSUME NEW i \in 1..FirstIndex(f) - 1 PROVE Before(p[i])'
    OBVIOUS
  <2>1. i \in DOMAIN p /\ i < a
    BY <1>1, <1>2
  <2>2. Before(p[i])
    BY <1>1 DEF UnderWay
  <2> QED
    BY <1>1, <1>8, <2>1, <2>2, FrozenKeeps
<1>11. \A i \in FirstIndex(f)..a - 1 : Ended(p[i], None)'
  <2> SUFFICES ASSUME NEW i \in FirstIndex(f)..a - 1 PROVE Ended(p[i], None)'
    OBVIOUS
  <2>1. i \in DOMAIN p /\ i < a
    BY <1>1, <1>2
  <2>2. Ended(p[i], None)
    BY <1>1, <1>2 DEF UnderWay
  <2> QED
    BY <1>1, <1>8, <2>1, <2>2, FrozenKeeps
<1>12. \A i \in a + 1..Len(p) : IF t = None THEN Untouched(p[i])' ELSE Skipped(p[i])'
  <2> SUFFICES ASSUME NEW i \in a + 1..Len(p)
               PROVE  IF t = None THEN Untouched(p[i])' ELSE Skipped(p[i])'
    OBVIOUS
  <2>1. i \in DOMAIN p /\ i > a
    BY <1>1, <1>2
  <2>2. Untouched(p[i])
    BY <1>4
  <2> QED
    BY <1>1, <1>8, <2>1, <2>2, FrozenKeeps
<1>13. Ended(p[a], t)'
  BY <1>1, <1>2
<1>14. CASE t # None \/ a + 1 > Len(p)
  <2>1. pc'[f] = "done"
    BY <1>3, <1>14 DEF EntryPc
  <2>2. /\ a + 1 \in FirstIndex(f)..Len(p) + 1
        /\ t # None => a + 1 > FirstIndex(f)
        /\ \A i \in a + 1..Len(p) : t # None /\ Skipped(p[i])'
    BY <1>1, <1>2, <1>12, <1>14
  <2>3. \A i \in FirstIndex(f)..(a + 1) - 1 : Ended(p[i], IF i = (a + 1) - 1 THEN t ELSE None)'
    <3> SUFFICES ASSUME NEW i \in FirstIndex(f)..(a + 1) - 1
                 PROVE  Ended(p[i], IF i = (a + 1) - 1 THEN t ELSE None)'
      OBVIOUS
    <3>1. CASE i = a
      BY <1>2, <1>13, <3>1
    <3>2. CASE i # a
      <4>1. i \in FirstIndex(f)..a - 1 /\ i # (a + 1) - 1
        BY <1>1, <1>2, <3>2
      <4> QED
        BY <1>11, <4>1
    <3> QED
      BY <3>1, <3>2
  <2>4. Over(f)'
    BY <1>3, <1>9, <1>10, <2>2, <2>3 DEF Over
  <2> QED
    BY <1>7, <2>1, <2>4 DEF FrameOK, Active
<1>15. CASE t = None /\ ~(a + 1 > Len(p))
  <2>1. pc'[f] = "next" /\ a + 1 \in DOMAIN p /\ a + 1 \in FirstIndex(f)..Len(p)
    BY <1>1, <1>2, <1>3, <1>15 DEF EntryPc
  <2>2. Untouched(Node(f))'
    <3>1. PICK y : y = p[a + 1]
      OBVIOUS
    <3>2. Untouched(y)'
      BY <1>1, <1>2, <1>12, <1>15, <2>1, <3>1
    <3>3. y = Node(f)'
      BY <1>3, <3>1 DEF Node
    <3> QED
      BY <3>2, <3>3 DEF Untouched, Quiet, SubFrames
  <2>3. \A i \in FirstIndex(f)..(a + 1) - 1 : Ended(p[i], None)'
    <3> SUFFICES ASSUME NEW i \in FirstIndex(f)..(a + 1) - 1
                 PROVE  Ended(p[i], None)'
      OBVIOUS
    <3>1. CASE i = a
      BY <1>2, <1>13, <1>15, <3>1
    <3>2. CASE i # a
      <4>1. i \in FirstIndex(f)..a - 1
        BY <1>1, <1>2, <3>2
      <4> QED
        BY <1>11, <4>1
    <3> QED
      BY <3>1, <3>2
  <2>4. \A i \in (a + 1) + 1..Len(p) : Untouched(p[i])'
    <3> SUFFICES ASSUME NEW i \in (a + 1) + 1..Len(p)
                 PROVE  Untouched(p[i])'
      OBVIOUS
    <3>1. i \in a + 1..Len(p)
      BY <1>1, <1>2
    <3> QED
      BY <1>12, <1>15, <3>1
  <2>5. UnderWay(f)'
    BY <1>3, <1>9, <1>10, <1>15, <2>1, <2>2, <2>3, <2>4 DEF UnderWay
  <2> QED
    BY <1>7, <2>1, <2>5 DEF FrameOK, Active
<1> QED
  BY <1>14, <1>15

\* What a sequence leaves behind when it is over: its terminal status tells of all its nodes.
LeavesOf(g) == UNION {Leaves(NodesOf(g)[i]) : i \in FirstIndex(g)..Len(NodesOf(g))}

LEMMA DoneFrame ==
    ASSUME Typed, NEW g \in Frames, FrameOK(g), pc[g] = "done"
    PROVE  /\ Verdict(LeavesOf(g), terminal[g])
           /\ \A i \in FirstIndex(g)..Len(NodesOf(g)) :
                /\ Calm(NodesOf(g)[i])
                /\ \A m \in Under[NodesOf(g)[i]] : result[m] \notin {None, "resumed"}
                /\ \A m \in Under[NodesOf(g)[i]] \cap Parallels : BlockTrue(m)
<1> DEFINE p == NodesOf(g)
           j == FirstIndex(g)
<1>1. /\ Over(g) /\ Len(p) \in Nat /\ j \in Nat \ {0}
      /\ \A i \in j..Len(p) : i \in DOMAIN p /\ p[i] \in Nodes
  BY FrameType DEF FrameOK, Typed, FirstIndex
<1>2. PICK a, t : a = at[g] /\ t = terminal[g] /\ a \in Nat
  BY DEF Typed
<1>3. None \notin Terminals /\ None # "skipped"
  BY WorkflowAssumption DEF NodeStatuses
<1>4. a \in j..Len(p) + 1 /\ t \in Terminals \cup {None} /\ (t # None => a > j)
  BY <1>1, <1>2 DEF Over
<1>5. \A i \in a..Len(p) : t # None /\ Skipped(p[i])
  BY <1>1, <1>2 DEF Over
<1>6. \A i \in j..a - 1 : i # a - 1 => Ended(p[i], None)
  BY <1>1, <1>2 DEF Over
<1>7. \A i \in j..a - 1 : i = a - 1 => Ended(p[i], t)
  BY <1>1, <1>2 DEF Over
<1>8. ASSUME NEW i \in j..Len(p)
      PROVE  \/ Ended(p[i], None)
             \/ i = a - 1 /\ Ended(p[i], t)
             \/ t # None /\ Skipped(p[i])
  BY <1>1, <1>2, <1>4, <1>5, <1>6, <1>7
<1>9. ASSUME NEW i \in j..Len(p)
      PROVE  /\ Calm(p[i])
             /\ \A m \in Under[p[i]] : result[m] \notin {None, "resumed"}
             /\ \A m \in Under[p[i]] \cap Parallels : BlockTrue(m)
  <2>1. ASSUME Skipped(p[i])
        PROVE  /\ Calm(p[i])
               /\ \A m \in Under[p[i]] : result[m] \notin {None, "resumed"}
               /\ \A m \in Under[p[i]] \cap Parallels : BlockTrue(m)
    BY <1>3, <2>1 DEF Skipped, Quiet, Calm, BlockTrue
  <2> QED
    BY <1>8, <2>1 DEF Ended
<1>10. ASSUME NEW i \in j..Len(p), Verdict(Leaves(p[i]), None)
       PROVE  \A m \in Leaves(p[i]) :
                 /\ LetsThrough(m)
                 /\ m \in Steps => result[m] # "aborted"
                 /\ m \in Checks \ SoftChecks => result[m] # "failed"
                 /\ m \in Gates => result[m] \notin {"rejected", "suspended"}
  BY <1>3, <1>10 DEF Verdict, Terminals
<1>11. ASSUME NEW i \in j..Len(p), Skipped(p[i])
       PROVE  \A m \in Leaves(p[i]) : result[m] = "skipped"
  BY <1>11 DEF Skipped, Leaves
<1>12. \A m : m \in LeavesOf(g) <=> \E i \in j..Len(p) : m \in Leaves(p[i])
  BY DEF LeavesOf
<1>13. CASE t = None
  <2>1. \A i \in j..Len(p) : Verdict(Leaves(p[i]), None)
    BY <1>8, <1>13 DEF Ended
  <2> QED
    BY <1>2, <1>3, <1>9, <1>10, <1>12, <1>13, <2>1 DEF Verdict, Terminals
<1>14. CASE t # None
  <2>1. a - 1 \in j..Len(p) /\ Verdict(Leaves(p[a - 1]), t)
    BY <1>1, <1>2, <1>4, <1>7, <1>14 DEF Ended
  <2>2. PICK k \in j..Len(p) :
          /\ Verdict(Leaves(p[k]), t)
          /\ \A i \in j..Len(p) : i # k => Verdict(Leaves(p[i]), None) \/ Skipped(p[i])
    BY <1>8, <2>1 DEF Ended
  <2>3. \A i \in j..Len(p) : i # k => \A m \in Leaves(p[i]) :
           /\ m \in Steps => result[m] # "aborted"
           /\ m \in Checks \ SoftChecks => result[m] # "failed"
           /\ m \in Gates => result[m] \notin {"rejected", "suspended"}
    BY <1>10, <1>11, <2>2
  <2>4. Verdict(LeavesOf(g), t)
    <3>1. t = "aborted" <=> \E m \in LeavesOf(g) \cap Steps : result[m] = "aborted"
      BY <1>12, <2>2, <2>3 DEF Verdict
    <3>2. t = "failed" => \E m \in LeavesOf(g) \cap (Steps \cup Checks) : result[m] = "failed"
      BY <1>12, <2>2 DEF Verdict
    <3>3. t = "halted" => \E m \in LeavesOf(g) \cap (Checks \ SoftChecks) : result[m] = "failed"
      BY <1>12, <2>2 DEF Verdict
    <3>4. t = "rejected" <=> \E m \in LeavesOf(g) \cap Gates : result[m] = "rejected"
      BY <1>12, <2>2, <2>3 DEF Verdict
    <3>5. t = "suspended" <=> \E m \in LeavesOf(g) \cap Gates : result[m] = "suspended"
      BY <1>12, <2>2, <2>3 DEF Verdict
    <3>6. \A m \in LeavesOf(g) \cap (Checks \ SoftChecks) :
             result[m] = "failed" => t \in {"halted", "aborted"}
      BY <1>12, <2>2, <2>3 DEF Verdict
    <3> QED
      BY <1>4, <1>14, <3>1, <3>2, <3>3, <3>4, <3>5, <3>6 DEF Verdict
  <2> QED
    BY <1>2, <1>9, <2>4
<1> QED
  BY <1>13, <1>14

\* No gate stands in a block.
LEMMA NoGates ==
    ASSUME NEW n \in Parallels
    PROVE  Leaves(n) \cap Gates = {} /\ Leaves(n) \subseteq Steps \cup Checks
<1>1. n \in Nodes
  BY DEF Nodes
<1>2. ASSUME NEW m \in Leaves(n)
      PROVE  m \in Steps \cup Checks /\ m \notin Gates
  <2>1. m \in Under[n] /\ m \notin Parallels /\ m # n
    BY <1>2 DEF Leaves
  <2>2. PICK q \in Under[n] : m \in Children(q)
    BY <1>1, <2>1, UpOne
  <2> QED
    BY <2>1, <2>2, ChildType DEF Nodes
<1> QED
  BY <1>2

\* All branches of a block are over: the worst terminal status of its branches, and its
\* own status, tell of all that is nested in it.
LEMMA BlockOver ==
    ASSUME Typed, \A g \in Frames : FrameOK(g), NEW n \in Parallels,
           \A g \in BranchFrames(n) : pc[g] = "done",
           NEW ts, ts = {terminal[g] : g \in BranchFrames(n)} \ {None},
           NEW nested, nested = {result[m] : m \in Under[n] \ {n}}
    PROVE  /\ Calm(n)
           /\ \A m \in Under[n] \ {n} : result[m] \notin {None, "resumed"}
           /\ \A m \in (Under[n] \ {n}) \cap Parallels : BlockTrue(m)
           /\ Verdict(Leaves(n), Worst(ts))
           /\ BlockStatus(ts, nested) = "passed" <=> \A m \in Leaves(n) : result[m] = "passed"
           /\ BlockStatus(ts, nested) = "aborted" <=> \E m \in Leaves(n) : result[m] = "aborted"
           /\ BlockStatus(ts, nested) = "failed" => \E m \in Leaves(n) : result[m] = "failed"
<1>1. \A g \in BranchFrames(n) :
         /\ g \in Frames /\ g # TopFrame /\ FirstIndex(g) = 1 /\ DOMAIN NodesOf(g) = 1..Len(NodesOf(g))
         /\ Verdict(LeavesOf(g), terminal[g])
         /\ \A i \in DOMAIN NodesOf(g) :
              /\ Calm(NodesOf(g)[i])
              /\ \A m \in Under[NodesOf(g)[i]] : result[m] \notin {None, "resumed"}
              /\ \A m \in Under[NodesOf(g)[i]] \cap Parallels : BlockTrue(m)
  <2>1. ASSUME NEW g \in BranchFrames(n)
        PROVE  /\ g \in Frames /\ g # TopFrame /\ FirstIndex(g) = 1 /\ pc[g] = "done"
               /\ DOMAIN NodesOf(g) = 1..Len(NodesOf(g))
    BY BranchType, FrameType DEF FirstIndex
  <2> QED
    BY <2>1, DoneFrame
<1>2. \A x \in Children(n) : \E g \in BranchFrames(n) : \E i \in DOMAIN NodesOf(g) : x = NodesOf(g)[i]
  BY ChildPlace
<1>3. \A m \in Under[n] \ {n} : \E x \in Children(n) : m \in Under[x]
  BY BlockUnder
<1>4. Calm(n)
  <2>1. \A x \in Children(n) : Calm(x)
    BY <1>1, <1>2
  <2> QED
    BY <2>1, BlockUnder DEF Calm
<1>5. \A m \in Under[n] \ {n} : result[m] \notin {None, "resumed"} /\ (m \in Parallels => BlockTrue(m))
  BY <1>1, <1>2, <1>3
<1>6. \A m : m \in Leaves(n) <=> \E g \in BranchFrames(n) : m \in LeavesOf(g)
  <2>1. \A x : x \in Children(n) <=> \E g \in BranchFrames(n) : \E i \in DOMAIN NodesOf(g) : x = NodesOf(g)[i]
    BY ChildPlace
  <2>2. \A g \in BranchFrames(n) : \A m :
           m \in LeavesOf(g) <=> \E i \in DOMAIN NodesOf(g) : m \in Leaves(NodesOf(g)[i])
    BY <1>1 DEF LeavesOf
  <2> QED
    BY <2>1, <2>2, BlockUnder
<1>7. None \notin Terminals
  BY WorkflowAssumption
<1>8. /\ Leaves(n) \cap Gates = {} /\ Leaves(n) \subseteq Steps \cup Checks
      /\ \A m \in Leaves(n) : m \in Under[n] \ {n}
  BY NoGates DEF Leaves
<1>9. \A g \in BranchFrames(n) : terminal[g] \in {"aborted", "halted", "failed", None}
  BY <1>1, <1>6, <1>8 DEF Verdict, Terminals
<1>10. ts \subseteq {"aborted", "halted", "failed"}
  BY <1>9
<1>11. \A t : t \in ts <=> t # None /\ \E g \in BranchFrames(n) : t = terminal[g]
  OBVIOUS
<1>12. "aborted" \in ts <=> \E m \in Leaves(n) : m \in Steps /\ result[m] = "aborted"
  BY <1>1, <1>6, <1>7, <1>11 DEF Verdict, Terminals
<1>13. "failed" \in ts => \E m \in Leaves(n) : result[m] = "failed"
  BY <1>1, <1>6, <1>11 DEF Verdict
<1>14. "halted" \in ts => \E m \in Leaves(n) : m \in Checks \ SoftChecks /\ result[m] = "failed"
  BY <1>1, <1>6, <1>11 DEF Verdict
<1>15. ts = {} => \A m \in Leaves(n) : LetsThrough(m)
  BY <1>1, <1>6, <1>11 DEF Verdict
<1>15a. \A m \in Leaves(n) \cap (Checks \ SoftChecks) :
          result[m] = "failed" => \E t \in {"halted", "aborted"} : t \in ts
  BY <1>1, <1>6, <1>7, <1>11 DEF Verdict, Terminals
<1>16. Verdict(Leaves(n), Worst(ts))
  <2>1. Worst(ts) \in Terminals \cup {None} /\ Worst(ts) \notin {"rejected", "suspended"}
    BY <1>7 DEF Worst, Terminals
  <2>2. Worst(ts) = None => ts = {}
    BY <1>7, <1>10 DEF Worst, Terminals
  <2>3. Worst(ts) = "aborted" <=> "aborted" \in ts
    BY <1>7 DEF Worst, Terminals
  <2>4. Worst(ts) \in {"failed", "halted"} => Worst(ts) \in ts
    BY <1>7 DEF Worst, Terminals
  <2>5. \A t \in {"halted", "aborted"} : t \in ts => Worst(ts) \in {"halted", "aborted"}
    BY DEF Worst
  <2> QED
    BY <1>8, <1>12, <1>13, <1>14, <1>15, <1>15a, <2>1, <2>2, <2>3, <2>4, <2>5 DEF Verdict
<1>17. \A s : s \in nested <=> \E m \in Under[n] \ {n} : s = result[m]
  OBVIOUS
<1>18. \A m \in (Under[n] \ {n}) \cap Parallels : Leaves(m) \subseteq Leaves(n)
  BY UnderUnder DEF Leaves, Nodes
<1>19. "skipped" # None /\ "aborted" # None /\ "failed" # None
  BY WorkflowAssumption DEF NodeStatuses
<1>20. ASSUME NEW m \in Under[n] \ {n}
       PROVE  /\ result[m] = "aborted" => \E x \in Leaves(n) : result[x] = "aborted"
              /\ result[m] = "failed" => \E x \in Leaves(n) : result[x] = "failed"
  <2>1. CASE m \in Parallels
    BY <1>5, <1>18, <1>19, <2>1 DEF BlockTrue
  <2>2. CASE m \notin Parallels
    BY <2>2 DEF Leaves
  <2> QED
    BY <2>1, <2>2
<1>21. "aborted" \in ts \cup nested <=> \E m \in Leaves(n) : result[m] = "aborted"
  BY <1>8, <1>12, <1>17, <1>20
<1>22. "failed" \in nested <=> \E m \in Leaves(n) : result[m] = "failed"
  BY <1>8, <1>17, <1>20
<1>23. ts # {} /\ "aborted" \notin ts => \E m \in Leaves(n) : result[m] = "failed"
  BY <1>10, <1>13, <1>14
<1>24. ts = {} /\ "failed" \notin nested => \A m \in Leaves(n) : result[m] = "passed"
  BY <1>8, <1>15, <1>22 DEF LetsThrough
<1>25. BlockStatus(ts, nested) = "aborted" <=> "aborted" \in ts \cup nested
  BY DEF BlockStatus
<1>26. BlockStatus(ts, nested) = "failed" <=>
          "aborted" \notin ts \cup nested /\ (ts # {} \/ "failed" \in nested)
  BY DEF BlockStatus
<1>27. BlockStatus(ts, nested) = "passed" <=>
          "aborted" \notin ts \cup nested /\ ts = {} /\ "failed" \notin nested
  BY DEF BlockStatus
<1>28. BlockStatus(ts, nested) = "passed" <=> \A m \in Leaves(n) : result[m] = "passed"
  BY <1>21, <1>22, <1>23, <1>24, <1>27
<1>29. BlockStatus(ts, nested) = "failed" => \E m \in Leaves(n) : result[m] = "failed"
  BY <1>22, <1>23, <1>26
<1> QED
  BY <1>4, <1>5, <1>16, <1>21, <1>25, <1>28, <1>29

\* A step, a check or a gate that has its result has ended.
LEMMA LeafEnded ==
    ASSUME NEW n \in Nodes \ Parallels, NEW t, result'[n] \notin {None, "resumed"}, Verdict({n}, t)'
    PROVE  Ended(n, t)'
<1>1. Under[n] = {n} /\ SubFrames(n) = {} /\ Leaves(n) = {n}
  BY LeafUnder
<1> QED
  BY <1>1 DEF Ended, Calm, Leaves, SubFrames, Verdict, LetsThrough

\* A node that goes on, or is started: what its sequence has done and has ahead stays.
LEMMA GoesOn ==
    ASSUME Typed, \A g \in Frames : FrameOK(g), NEW f \in Frames, Active(f),
           UNCHANGED <<stops, dry, start, at, terminal, result>>,
           \A m \in Nodes : m # Node(f) => attempts'[m] = attempts[m],
           \A g \in Frames : g # f /\ ~(g # TopFrame /\ g[1] = Node(f)) => pc'[g] = pc[g],
           \A g \in Frames : g # f /\ g # TopFrame /\ g[1] = Node(f) => pc'[g] = pc[g] \/ pc'[g] # "off",
           pc'[f] \in {"target", "retry", "join"},
           pc'[f] = "target" => Node(f) \in Steps /\ Untouched(Node(f))',
           pc'[f] = "retry" =>
             Node(f) \in Checks /\ attempts'[Node(f)] \in 1..Retries /\ result[Node(f)] = None,
           pc'[f] = "join" =>
             /\ Node(f) \in Parallels /\ result[Node(f)] = None
             /\ \A g \in BranchFrames(Node(f)) : pc'[g] # "off"
    PROVE  \A h \in Frames : h = f \/ pc'[h] = pc[h] => FrameOK(h)'
<1> DEFINE p == NodesOf(f)
<1>1. /\ UnderWay(f) /\ at[f] \in DOMAIN p /\ Node(f) \in Nodes /\ FirstIndex(f) \in 1..at[f] /\ Node(f) = p[at[f]]
      /\ DOMAIN p = 1..Len(p) /\ Len(p) \in Nat /\ \A i \in DOMAIN p : p[i] \in Nodes
  BY IndexType, FrameType DEF Node
<1>2. PICK a, n : a = at[f] /\ a \in Nat \ {0} /\ n = Node(f) /\ n \in Nodes
  BY <1>1
<1>3. ASSUME NEW h \in Frames, h # f, pc'[h] = pc[h]
      PROVE  FrameOK(h)'
  <2>1. {n} \in SUBSET Nodes /\ \A m \in Nodes \ {n} : result'[m] = result[m] /\ attempts'[m] = attempts[m]
    BY <1>2
  <2>2. Busy(f) /\ pc'[f] # "off" /\ at'[h] = at[h] /\ terminal'[h] = terminal[h]
    BY DEF Busy, Active
  <2>3. \A g \in Frames \ {f} : \/ pc'[g] = pc[g]
                                \/ Active(f) /\ g # TopFrame /\ g[1] = Node(f) /\ pc'[g] # "off"
    OBVIOUS
  <2>4. \A m \in {n} : Active(f) /\ m = Node(f)
    BY <1>2
  <2> QED
    BY <1>3, <2>1, <2>2, <2>3, <2>4, Others
<1>4. ASSUME NEW i \in DOMAIN p, i # a
      PROVE  Frozen(p[i])
  <2>1. Under[p[i]] \cap Under[n] = {}
    BY <1>1, <1>2, <1>4, Siblings
  <2>2. n \notin Under[p[i]] /\ Under[p[i]] \subseteq Nodes
    BY <1>1, <1>2, <2>1, UnderType
  <2>3. ASSUME NEW g \in SubFrames(p[i])
        PROVE  pc'[g] = pc[g]
    BY <1>2, <2>2, <2>3, NotOwn DEF SubFrames
  <2> QED
    BY <1>2, <2>2, <2>3 DEF Frozen
<1>5. FirstIndex(f)' = FirstIndex(f) /\ Node(f)' = Node(f)
  BY DEF FirstIndex, Node
<1>6. \A i \in 1..FirstIndex(f) - 1 : Before(p[i])'
  <2> SUFFICES ASSUME NEW i \in 1..FirstIndex(f) - 1 PROVE Before(p[i])'
    OBVIOUS
  <2>1. i \in DOMAIN p /\ i # a /\ Before(p[i])
    BY <1>1, <1>2 DEF UnderWay
  <2> QED
    BY <1>1, <1>4, <2>1, FrozenKeeps
<1>7. \A i \in FirstIndex(f)..a - 1 : Ended(p[i], None)'
  <2> SUFFICES ASSUME NEW i \in FirstIndex(f)..a - 1 PROVE Ended(p[i], None)'
    OBVIOUS
  <2>1. i \in DOMAIN p /\ i # a /\ Ended(p[i], None)
    BY <1>1, <1>2 DEF UnderWay
  <2> QED
    BY <1>1, <1>4, <2>1, FrozenKeeps
<1>8. \A i \in a + 1..Len(p) : Untouched(p[i])'
  <2> SUFFICES ASSUME NEW i \in a + 1..Len(p) PROVE Untouched(p[i])'
    OBVIOUS
  <2>1. i \in DOMAIN p /\ i # a /\ Untouched(p[i])
    BY <1>1, <1>2 DEF UnderWay
  <2> QED
    BY <1>1, <1>4, <2>1, FrozenKeeps
<1>9. pc'[f] \in {"next", "target"} => Untouched(Node(f))'
  <2>1. Untouched(n)' => Untouched(Node(f))'
    BY <1>2, <1>5 DEF Untouched, Quiet, SubFrames
  <2> QED
    BY <1>2, <2>1
<1>10. at'[f] = a /\ a \in FirstIndex(f)..Len(p) /\ terminal'[f] = None
  BY <1>1, <1>2 DEF UnderWay
<1>11. UnderWay(f)'
  BY <1>2, <1>5, <1>6, <1>7, <1>8, <1>9, <1>10 DEF UnderWay
<1>12. FrameOK(f)'
  BY <1>11 DEF FrameOK, Active
<1> QED
  BY <1>3, <1>12

-----------------------------------------------------------------------------
(* The steps of a sequence, one lemma for each.                            *)

Frame(f) == /\ Typed' /\ \A h \in Frames : FrameOK(h)'
            /\ phase = "nodes" /\ UNCHANGED runVars
            /\ pc'[TopFrame] # "queued" /\ (pc[TopFrame] # "off" => pc'[TopFrame] # "off")

LEMMA Names ==
  /\ None \notin NodeStatuses /\ None \notin Terminals
  /\ None \notin BOOLEAN
  /\ \A s \in NodeStatuses : s # None
  /\ \A n \in Steps : n \in Nodes \ Parallels /\ n \notin Checks /\ n \notin Gates
  /\ \A n \in Checks : n \in Nodes \ Parallels /\ n \notin Steps /\ n \notin Gates
  /\ \A n \in Gates : n \in Nodes \ Parallels /\ n \notin Steps /\ n \notin Checks
  /\ \A n \in Parallels : n \in Nodes /\ n \notin Steps /\ n \notin Checks /\ n \notin Gates
  /\ Retries \in Nat /\ MaxRuns \in Nat
  BY WorkflowAssumption, PlanAssumption DEF Nodes

LEMMA ReturnTyped ==
    ASSUME Typed, NEW f \in Frames, phase = "nodes", Active(f),
           NEW s \in NodeStatuses, NEW t \in Terminals \cup {None}, Return(f, s, t), UNCHANGED runVars,
           pc[TopFrame] # "queued",
           attempts' \in [Nodes -> 0..Retries + 1], \A m \in Nodes : m # Node(f) => attempts'[m] = attempts[m],
           Node(f) \in Checks /\ s = "failed" => attempts'[Node(f)] = Retries + 1
    PROVE  Typed' /\ pc'[TopFrame] # "queued" /\ (pc[TopFrame] # "off" => pc'[TopFrame] # "off")
<1>1. EntryPc(f, at[f] + 1) \in {"next", "done"}
  BY DEF EntryPc
<1>2. pc' \in [Frames -> {"off", "queued", "next", "target", "retry", "join", "done"}]
      /\ pc'[TopFrame] # "queued" /\ (pc[TopFrame] # "off" => pc'[TopFrame] # "off")
  BY <1>1 DEF Return, Typed, Frames
<1>3. at' \in [Frames -> Nat]
  BY DEF Return, Typed
<1>4. terminal' \in [Frames -> Terminals \cup {None}]
  BY DEF Return, Typed
<1>5. result' \in [Nodes -> NodeStatuses \cup {None}]
  BY DEF Return, Typed, NodeStatuses
<1>6. ASSUME NEW m \in Checks, result'[m] = "failed"
      PROVE  attempts'[m] = Retries + 1
  <2>1. CASE m = Node(f)
    BY <1>6, <2>1, Names DEF Return
  <2>2. CASE m # Node(f)
    BY <1>6, <2>2, Names DEF Return, Typed
  <2> QED
    BY <2>1, <2>2
<1> QED
  BY <1>2, <1>3, <1>4, <1>5, <1>6 DEF Typed, runVars

LEMMA StepBeginsKeeps ==
    ASSUME Typed, \A g \in Frames : FrameOK(g), NEW f \in Frames, pc[TopFrame] # "queued", StepBegins(f)
    PROVE  Frame(f)
<1>1. /\ phase = "nodes" /\ pc[f] = "next" /\ Node(f) \in Steps /\ Active(f)
      /\ UNCHANGED <<runVars, at, terminal, result, attempts>>
      /\ pc'[f] = "target" /\ \A g \in Frames : g # f => pc'[g] = pc[g]
  BY DEF StepBegins, AtA, Typed, Active
<1>2. UnderWay(f) /\ Node(f) \in Nodes \ Parallels
  BY <1>1, IndexType, Names
<1>3. Untouched(Node(f))
  BY <1>1, <1>2 DEF UnderWay
<1>4. Untouched(Node(f))'
  <2>1. PICK n : n = Node(f) /\ n = Node(f)'
    BY <1>1 DEF Node
  <2>2. Under[n] = {n} /\ SubFrames(n) = {}
    BY <1>2, <2>1, LeafUnder
  <2>3. Untouched(n)'
    BY <1>1, <1>3, <2>1, <2>2 DEF Untouched, Quiet, SubFrames
  <2> QED
    BY <2>1, <2>3 DEF Untouched, Quiet, SubFrames
<1>5. \A g \in Frames : ~(g # TopFrame /\ g[1] = Node(f))
  BY <1>2, FrameType
<1>6. \A h \in Frames : FrameOK(h)'
  BY <1>1, <1>4, <1>5, GoesOn DEF runVars
<1>7. Typed' /\ pc'[TopFrame] # "queued" /\ (pc[TopFrame] # "off" => pc'[TopFrame] # "off")
  BY <1>1 DEF Typed, runVars, StepBegins, Frames
<1> QED
  BY <1>1, <1>6, <1>7 DEF Frame

LEMMA StepEndsKeeps ==
    ASSUME Typed, \A g \in Frames : FrameOK(g), NEW f \in Frames, pc[TopFrame] # "queued", StepEnds(f)
    PROVE  Frame(f)
<1>1. /\ phase = "nodes" /\ Node(f) \in Steps /\ Active(f) /\ UNCHANGED <<runVars, attempts>>
  BY DEF StepEnds, AtA, Active
<1>2. PICK s, t :
        /\ s \in {"aborted", "failed", "passed"} /\ t = StepTerminal(s) /\ Return(f, s, t)
  BY DEF StepEnds, StepStatus
<1>3. PICK n : n = Node(f) /\ n \in Nodes \ Parallels /\ n \in Steps /\ n \notin Checks /\ n \notin Gates
  BY <1>1, Names
<1>4. /\ s \in NodeStatuses /\ s \notin {None, "resumed"}
      /\ t \in {"aborted", "failed", None} /\ t \in Terminals \cup {None}
      /\ t = "aborted" <=> s = "aborted"
      /\ t = "failed" => s = "failed"
      /\ t = None => s = "passed" \/ (s = "failed" /\ ~stops)
  BY <1>2, Names DEF StepTerminal, NodeStatuses, Terminals
<1>5. result'[n] = s /\ stops' = stops
  BY <1>1, <1>2, <1>3 DEF Return, runVars
<1>6. Verdict({n}, t)'
  <2>1. t = None => LetsThrough(n)'
    BY <1>3, <1>4, <1>5 DEF LetsThrough
  <2>2. t \notin {"halted", "rejected", "suspended"}
    BY <1>4, Names DEF Terminals
  <2> QED
    BY <1>3, <1>4, <1>5, <2>1, <2>2 DEF Verdict
<1>7. Ended(n, t)'
  BY <1>3, <1>4, <1>5, <1>6, LeafEnded
<1>8. \A h \in Frames : FrameOK(h)'
  BY <1>1, <1>2, <1>3, <1>4, <1>7, ReturnKeeps DEF runVars
<1>9. Typed' /\ pc'[TopFrame] # "queued" /\ (pc[TopFrame] # "off" => pc'[TopFrame] # "off")
  BY <1>1, <1>2, <1>3, <1>4, ReturnTyped DEF Typed
<1> QED
  BY <1>1, <1>8, <1>9 DEF Frame

LEMMA AttemptKeeps ==
    ASSUME Typed, \A g \in Frames : FrameOK(g), NEW f \in Frames, pc[TopFrame] # "queued", Attempt(f)
    PROVE  Frame(f)
<1>1. /\ phase = "nodes" /\ pc[f] \in {"next", "retry"} /\ Node(f) \in Checks /\ Active(f) /\ UNCHANGED runVars
      /\ attempts' = [attempts EXCEPT ![Node(f)] = @ + 1]
  BY DEF Attempt, AtA, Active
<1>2. PICK n : n = Node(f) /\ n \in Nodes \ Parallels /\ n \in Checks /\ n \notin Steps /\ n \notin Gates
  BY <1>1, Names
<1>3. UnderWay(f) /\ Retries \in Nat
  BY <1>1, IndexType, Names
<1>4. attempts[n] \in 0..Retries /\ result[n] = None
  <2>1. CASE pc[f] = "next"
    <3>1. Untouched(n)
      BY <1>2, <1>3, <2>1 DEF UnderWay
    <3> QED
      BY <1>2, <1>3, <3>1, UnderType DEF Untouched
  <2>2. CASE pc[f] = "retry"
    BY <1>2, <1>3, <2>2 DEF UnderWay
  <2> QED
    BY <1>1, <2>1, <2>2
<1>5. /\ attempts'[n] = attempts[n] + 1 /\ attempts' \in [Nodes -> 0..Retries + 1]
      /\ \A m \in Nodes : m # n => attempts'[m] = attempts[m]
  BY <1>1, <1>2, <1>3, <1>4 DEF Typed
<1>6. CASE \E healthy \in BOOLEAN :
             /\ healthy \/ LastAttempt(n)
             /\ Return(f, IF healthy THEN "passed" ELSE "failed", CheckTerminal(n, healthy))
  <2>1. PICK s, t :
          /\ s \in {"passed", "failed"} /\ Return(f, s, t) /\ t \in {"halted", None}
          /\ t = "halted" => s = "failed" /\ n \notin SoftChecks
          /\ t = None => s = "passed" \/ (s = "failed" /\ n \in SoftChecks)
          /\ s = "failed" => LastAttempt(n)
    BY <1>6, Names DEF CheckTerminal, Terminals
  <2>2. /\ s \in NodeStatuses /\ s \notin {None, "resumed"} /\ t \in Terminals \cup {None}
        /\ None \notin Terminals /\ SoftChecks \subseteq Checks
    BY <2>1, Names, WorkflowAssumption DEF NodeStatuses, Terminals
  <2>3. result'[n] = s
    BY <1>2, <2>1 DEF Return
  <2>4. Verdict({n}, t)'
    <3>1. t = None => LetsThrough(n)'
      BY <1>2, <2>1, <2>3 DEF LetsThrough
    <3>2. t \notin {"aborted", "failed", "rejected", "suspended"}
      BY <2>1, <2>2 DEF Terminals
    <3> QED
      BY <1>2, <2>1, <2>2, <2>3, <3>1, <3>2 DEF Verdict
  <2>5. Ended(n, t)'
    BY <1>2, <2>2, <2>3, <2>4, LeafEnded
  <2>6. \A h \in Frames : FrameOK(h)'
    BY <1>1, <1>2, <1>5, <2>1, <2>2, <2>5, ReturnKeeps DEF runVars
  <2>7. s = "failed" => attempts'[n] = Retries + 1
    BY <1>3, <1>4, <1>5, <2>1 DEF LastAttempt
  <2>8. Typed' /\ pc'[TopFrame] # "queued" /\ (pc[TopFrame] # "off" => pc'[TopFrame] # "off")
    BY <1>1, <1>2, <1>5, <2>1, <2>2, <2>7, ReturnTyped
  <2> QED
    BY <1>1, <2>6, <2>8 DEF Frame
<1>7. CASE ~LastAttempt(n) /\ pc' = [pc EXCEPT ![f] = "retry"] /\ UNCHANGED <<at, terminal, result>>
  <2>1. attempts'[n] \in 1..Retries
    BY <1>3, <1>4, <1>5, <1>7 DEF LastAttempt
  <2>2. pc'[f] = "retry" /\ \A g \in Frames : g # f => pc'[g] = pc[g]
    BY <1>7 DEF Typed
  <2>3. \A g \in Frames : ~(g # TopFrame /\ g[1] = Node(f))
    BY <1>2, FrameType
  <2>4. \A h \in Frames : FrameOK(h)'
    BY <1>1, <1>2, <1>4, <1>5, <1>7, <2>1, <2>2, <2>3, GoesOn DEF runVars
  <2>5. \A m \in Checks : result'[m] = "failed" => attempts'[m] = Retries + 1
    BY <1>4, <1>5, <1>7, Names DEF Typed
  <2>6. Typed' /\ pc'[TopFrame] # "queued" /\ (pc[TopFrame] # "off" => pc'[TopFrame] # "off")
    BY <1>1, <1>5, <1>7, <2>5 DEF Typed, runVars, Frames
  <2> QED
    BY <1>1, <2>4, <2>6 DEF Frame
<1> QED
  BY <1>2, <1>6, <1>7 DEF Attempt

LEMMA GateKeeps ==
    ASSUME Typed, \A g \in Frames : FrameOK(g), NEW f \in Frames, pc[TopFrame] # "queued", Gate(f)
    PROVE  Frame(f)
<1>1. /\ phase = "nodes" /\ Node(f) \in Gates /\ Active(f) /\ UNCHANGED <<runVars, attempts>>
  BY DEF Gate, AtA, Active
<1>2. PICK n : n = Node(f) /\ n \in Nodes \ Parallels /\ n \in Gates /\ n \notin Steps /\ n \notin Checks
  BY <1>1, Names
<1>3. PICK s, t :
        /\ Return(f, s, t)
        /\ \/ dry /\ s = "would_suspend" /\ t = None
           \/ s = "approved" /\ t = None
           \/ s \in {"rejected", "suspended"} /\ t = s
  <2>1. \A d : GateStatus(d) \in {"suspended", "approved", "rejected"}
    BY DEF GateStatus
  <2> QED
    BY <2>1 DEF Gate
<1>4. /\ s \in NodeStatuses /\ s \notin {None, "resumed"} /\ t \in Terminals \cup {None}
      /\ None \notin Terminals
  BY <1>3, Names DEF NodeStatuses, Terminals
<1>5. result'[n] = s /\ dry' = dry
  BY <1>1, <1>2, <1>3 DEF Return, runVars
<1>6. Verdict({n}, t)'
  <2>1. t = None => LetsThrough(n)'
    BY <1>2, <1>3, <1>4, <1>5 DEF LetsThrough, Terminals
  <2>2. t \notin {"aborted", "failed", "halted"}
    BY <1>3, <1>4 DEF Terminals
  <2>3. t \in {"rejected", "suspended"} <=> s \in {"rejected", "suspended"}
    BY <1>3, <1>4 DEF Terminals
  <2>4. t \in {"rejected", "suspended"} => s = t
    BY <1>3, <1>4 DEF Terminals
  <2> QED
    BY <1>2, <1>3, <1>4, <1>5, <2>1, <2>2, <2>3, <2>4 DEF Verdict
<1>7. Ended(n, t)'
  BY <1>2, <1>4, <1>5, <1>6, LeafEnded
<1>8. \A h \in Frames : FrameOK(h)'
  BY <1>1, <1>2, <1>3, <1>4, <1>7, ReturnKeeps DEF runVars
<1>9. Typed' /\ pc'[TopFrame] # "queued" /\ (pc[TopFrame] # "off" => pc'[TopFrame] # "off")
  BY <1>1, <1>2, <1>3, <1>4, ReturnTyped DEF Typed
<1> QED
  BY <1>1, <1>8, <1>9 DEF Frame

LEMMA ForkKeeps ==
    ASSUME Typed, \A g \in Frames : FrameOK(g), NEW f \in Frames, pc[TopFrame] # "queued", Fork(f)
    PROVE  Frame(f)
<1>1. /\ phase = "nodes" /\ pc[f] = "next" /\ Node(f) \in Parallels /\ Active(f)
      /\ UNCHANGED <<runVars, at, terminal, result, attempts>>
      /\ pc' = [g \in Frames |-> IF g = f THEN "join"
                                 ELSE IF g \in BranchFrames(Node(f)) THEN "queued" ELSE pc[g]]
  BY DEF Fork, AtA, Active
<1>2. PICK n : n = Node(f) /\ n \in Nodes /\ n \in Parallels
  BY <1>1, Names
<1>3. UnderWay(f) /\ Untouched(n) /\ n \in Under[n] /\ result[n] = None
  <2>1. UnderWay(f) /\ Untouched(n)
    BY <1>1, <1>2, IndexType DEF UnderWay
  <2> QED
    BY <1>2, <2>1, UnderType DEF Untouched
<1>4. \A g \in Frames : g \in BranchFrames(n) <=> g # TopFrame /\ g[1] = n
  BY <1>2, BranchType, FrameType
<1>5. f \notin SubFrames(n) /\ f \notin BranchFrames(n)
  <2>1. f \notin SubFrames(n)
    BY <1>1, <1>2, IndexType, NotOwn DEF Node
  <2> QED
    BY <1>3, <1>4, <2>1 DEF SubFrames
<1>6. \A g \in BranchFrames(n) : g \in Frames /\ pc[g] = "off" /\ pc'[g] = "queued"
  <2>1. \A g \in BranchFrames(n) : g \in Frames /\ g \in SubFrames(n)
    BY <1>2, <1>3, BranchType DEF SubFrames
  <2> QED
    BY <1>1, <1>2, <1>3, <1>5, <2>1 DEF Untouched, Quiet
<1>7. pc'[f] = "join" /\ \A g \in Frames : g # f /\ g \notin BranchFrames(n) => pc'[g] = pc[g]
  BY <1>1, <1>2
<1>8. \A h \in Frames : h = f \/ pc'[h] = pc[h] => FrameOK(h)'
  BY <1>1, <1>2, <1>3, <1>4, <1>6, <1>7, GoesOn DEF runVars
<1>9. ASSUME NEW g \in BranchFrames(n)
      PROVE  FrameOK(g)'
  <2>1. g \in Frames /\ pc[g] = "off" /\ pc'[g] = "queued" /\ NotBegun(g)
    BY <1>6 DEF FrameOK
  <2>2. ASSUME NEW i \in DOMAIN NodesOf(g)
        PROVE  Untouched(NodesOf(g)[i])'
    <3> DEFINE x == NodesOf(g)[i]
    <3>1. x \in Children(n) /\ x \in Nodes
      BY <1>2, <2>1, ChildPlace, FrameType
    <3>2. \A m \in Under[x] : m \in Under[n]
      BY <1>2, <3>1, BlockUnder
    <3>3. \A m \in Under[x] : result'[m] = None /\ attempts'[m] = 0
      BY <1>1, <1>3, <3>2 DEF Untouched
    <3>4. n \notin Under[x]
      BY <1>2, <3>1, BlockUnder
    <3>5. \A h \in SubFrames(x) : h \in SubFrames(n) /\ h \in Frames /\ h # f /\ h \notin BranchFrames(n)
      BY <1>4, <1>5, <3>2, <3>4 DEF SubFrames
    <3>6. \A h \in SubFrames(x) : pc'[h] = "off"
      BY <1>3, <1>7, <3>5 DEF Untouched, Quiet
    <3> QED
      BY <3>3, <3>6 DEF Untouched, Quiet
  <2>3. NotBegun(g)'
    BY <1>1, <2>1, <2>2 DEF NotBegun
  <2> QED
    BY <2>1, <2>3 DEF FrameOK, Active
<1>10. \A h \in Frames : FrameOK(h)'
  BY <1>7, <1>8, <1>9
<1>11. Typed' /\ pc'[TopFrame] # "queued" /\ (pc[TopFrame] # "off" => pc'[TopFrame] # "off")
  <2>1. TopFrame \in Frames /\ TopFrame \notin BranchFrames(n)
    BY <1>4 DEF Frames
  <2>2. pc'[TopFrame] # "queued" /\ (pc[TopFrame] # "off" => pc'[TopFrame] # "off")
    BY <1>7, <2>1
  <2>3. pc' \in [Frames -> {"off", "queued", "next", "target", "retry", "join", "done"}]
    BY <1>1 DEF Typed
  <2> QED
    BY <1>1, <2>2, <2>3 DEF Typed, runVars
<1> QED
  BY <1>1, <1>10, <1>11 DEF Frame

LEMMA TakeBranchKeeps ==
    ASSUME Typed, \A g \in Frames : FrameOK(g), NEW f \in Frames, pc[TopFrame] # "queued", TakeBranch(f)
    PROVE  Frame(f)
<1> DEFINE p == NodesOf(f)
<1>1. /\ phase = "nodes" /\ f # TopFrame /\ pc[f] = "queued" /\ Busy(f)
      /\ UNCHANGED <<runVars, at, terminal, result, attempts>>
      /\ pc'[f] = EntryPc(f, 1) /\ \A g \in Frames : g # f => pc'[g] = pc[g]
  BY DEF TakeBranch, Typed, Busy
<1>2. pc'[f] \in {"next", "done"} /\ (pc'[f] = "done" <=> 1 > Len(p))
  BY <1>1 DEF EntryPc
<1>3. /\ NotBegun(f) /\ at[f] = 1 /\ terminal[f] = None /\ FirstIndex(f)' = 1
      /\ DOMAIN p = 1..Len(p) /\ Len(p) \in Nat /\ \A i \in DOMAIN p : p[i] \in Nodes
  BY <1>1, FrameType DEF FrameOK, NotBegun, FirstIndex
<1>4. ASSUME NEW i \in DOMAIN p
      PROVE  Untouched(p[i])'
  <2>1. Untouched(p[i])
    BY <1>1, <1>3 DEF NotBegun
  <2>2. Frozen(p[i])
    BY <1>1, <1>3, NotOwn, UnderType DEF Frozen, SubFrames
  <2> QED
    BY <1>1, <1>3, <2>1, <2>2, FrozenKeeps DEF runVars
<1>5. FrameOK(f)'
  <2>1. CASE 1 > Len(p)
    <3>1. Over(f)'
      BY <1>1, <1>3, <2>1 DEF Over
    <3> QED
      BY <1>2, <2>1, <3>1 DEF FrameOK, Active
  <2>2. CASE ~(1 > Len(p))
    <3>1. PICK y : y = p[1]
      OBVIOUS
    <3>2. Untouched(y)'
      BY <1>3, <1>4, <2>2, <3>1
    <3>3. y = Node(f)'
      BY <1>1, <1>3, <3>1 DEF Node
    <3>4. Untouched(Node(f))'
      BY <3>2, <3>3 DEF Untouched, Quiet, SubFrames
    <3>5. \A i \in 1 + 1..Len(p) : Untouched(p[i])'
      BY <1>3, <1>4
    <3>6. pc'[f] = "next" /\ 1 \in 1..Len(p) /\ at'[f] = 1 /\ terminal'[f] = None
      BY <1>1, <1>2, <1>3, <2>2
    <3>7. UnderWay(f)'
      BY <1>3, <3>4, <3>5, <3>6 DEF UnderWay
    <3> QED
      BY <3>6, <3>7 DEF FrameOK, Active
  <2> QED
    BY <2>1, <2>2
<1>6. ASSUME NEW h \in Frames, h # f
      PROVE  FrameOK(h)'
  <2>1. {} \in SUBSET Nodes /\ \A m \in Nodes \ {} : result'[m] = result[m] /\ attempts'[m] = attempts[m]
    BY <1>1
  <2>2. pc'[f] # "off" /\ pc'[h] = pc[h] /\ at'[h] = at[h] /\ terminal'[h] = terminal[h]
    BY <1>1, <1>2, <1>6
  <2>3. UNCHANGED <<stops, dry, start>>
    BY <1>1 DEF runVars
  <2> QED
    BY <1>1, <1>6, <2>1, <2>2, <2>3, Others
<1>7. Typed' /\ pc'[TopFrame] # "queued" /\ (pc[TopFrame] # "off" => pc'[TopFrame] # "off")
  <2>1. pc' \in [Frames -> {"off", "queued", "next", "target", "retry", "join", "done"}]
    BY <1>1, <1>2 DEF Typed, TakeBranch
  <2>2. TopFrame \in Frames
    BY DEF Frames
  <2> QED
    BY <1>1, <2>1, <2>2 DEF Typed, runVars
<1> QED
  BY <1>1, <1>5, <1>6, <1>7 DEF Frame

LEMMA JoinKeeps ==
    ASSUME Typed, \A g \in Frames : FrameOK(g), NEW f \in Frames, pc[TopFrame] # "queued", Join(f)
    PROVE  Frame(f)
<1>1. /\ phase = "nodes" /\ pc[f] = "join" /\ Node(f) \in Parallels /\ Active(f)
      /\ UNCHANGED <<runVars, attempts>>
      /\ \A g \in BranchFrames(Node(f)) : pc[g] = "done"
  BY DEF Join, AtA, Active
<1>2. PICK n : n = Node(f) /\ n \in Nodes /\ n \in Parallels /\ n \notin Steps /\ n \notin Checks /\ n \notin Gates
  BY <1>1, Names
<1>3. PICK ts, nested :
        /\ ts = {terminal[g] : g \in BranchFrames(n)} \ {None}
        /\ nested = {result[m] : m \in Under[n] \ {n}}
        /\ Return(f, BlockStatus(ts, nested), Worst(ts))
  BY <1>2 DEF Join
<1>4. PICK s, t : s = BlockStatus(ts, nested) /\ t = Worst(ts)
  OBVIOUS
<1>5. s \in {"aborted", "failed", "passed"} /\ t \in {"aborted", "halted", "failed", None}
  BY <1>4 DEF BlockStatus, Worst
<1>6. /\ s \in NodeStatuses /\ s \notin {None, "resumed"} /\ t \in Terminals \cup {None}
  BY <1>5, Names DEF NodeStatuses, Terminals
<1>7. /\ Calm(n)
      /\ \A m \in Under[n] \ {n} : result[m] \notin {None, "resumed"}
      /\ \A m \in (Under[n] \ {n}) \cap Parallels : BlockTrue(m)
      /\ Verdict(Leaves(n), t)
      /\ s = "passed" <=> \A m \in Leaves(n) : result[m] = "passed"
      /\ s = "aborted" <=> \E m \in Leaves(n) : result[m] = "aborted"
      /\ s = "failed" => \E m \in Leaves(n) : result[m] = "failed"
  BY <1>1, <1>2, <1>3, <1>4, BlockOver
<1>8. at[f] \in DOMAIN NodesOf(f) /\ n = NodesOf(f)[at[f]] /\ UnderWay(f)
  BY <1>1, <1>2, IndexType DEF Node
<1>9. ASSUME NEW m \in Under[n]
      PROVE  m \notin Rest(f)
  <2> SUFFICES ASSUME NEW i \in at[f] + 1..Len(NodesOf(f)), m \in Under[NodesOf(f)[i]]
               PROVE  FALSE
    BY DEF Rest
  <2>1. at[f] \in Nat /\ Len(NodesOf(f)) \in Nat /\ DOMAIN NodesOf(f) = 1..Len(NodesOf(f))
    BY FrameType DEF Typed
  <2>2. i \in DOMAIN NodesOf(f) /\ i # at[f]
    BY <1>8, <2>1
  <2> QED
    BY <1>8, <1>9, <2>2, Siblings
<1>10. Return(f, s, t) /\ result'[n] = s
  BY <1>2, <1>3, <1>4 DEF Return
<1>11. \A m \in Under[n] \ {n} : m \in Nodes /\ result'[m] = result[m]
  BY <1>2, <1>9, <1>10, UnderType DEF Return
<1>12. \A g \in SubFrames(n) : pc'[g] = pc[g]
  BY <1>8, <1>10, NotOwn DEF Return, Typed, SubFrames
<1>13. \A m \in Leaves(n) : m \in Under[n] \ {n} /\ result'[m] = result[m]
  BY <1>2, <1>11 DEF Leaves
<1>14. Ended(n, t)'
  <2>1. Calm(n)'
    BY <1>7, <1>12 DEF Calm, SubFrames
  <2>2. \A m \in Under[n] : result'[m] \notin {None, "resumed"}
    BY <1>6, <1>7, <1>10, <1>11
  <2>3. ASSUME NEW m \in Under[n] \cap Parallels
        PROVE  BlockTrue(m)'
    <3>1. CASE m = n
      BY <1>7, <1>10, <1>13, <3>1 DEF BlockTrue, Leaves
    <3>2. CASE m # n
      <4>1. BlockTrue(m) /\ result'[m] = result[m]
        BY <1>7, <1>11, <3>2
      <4>2. Leaves(m) \subseteq Leaves(n)
        BY <1>2, UnderUnder DEF Leaves
      <4> QED
        BY <1>13, <4>1, <4>2 DEF BlockTrue, Leaves
    <3> QED
      BY <3>1, <3>2
  <2>4. Verdict(Leaves(n), t)'
    <3>1. \A m \in Leaves(n) : result'[m] = result[m] /\ (LetsThrough(m) <=> LetsThrough(m)')
      BY <1>1, <1>13 DEF LetsThrough, runVars
    <3> QED
      BY <1>7, <3>1 DEF Verdict, Leaves
  <2> QED
    BY <2>1, <2>2, <2>3, <2>4 DEF Ended, Leaves
<1>15. \A h \in Frames : FrameOK(h)'
  BY <1>1, <1>2, <1>6, <1>10, <1>14, ReturnKeeps DEF runVars
<1>16. Typed' /\ pc'[TopFrame] # "queued" /\ (pc[TopFrame] # "off" => pc'[TopFrame] # "off")
  BY <1>1, <1>2, <1>6, <1>10, ReturnTyped DEF Typed
<1> QED
  BY <1>1, <1>15, <1>16 DEF Frame

LEMMA FrameNextKeeps ==
    ASSUME Inv, NEW f \in Frames, FrameNext(f)
    PROVE  Inv'
<1>1. Typed /\ RunOK /\ (\A g \in Frames : FrameOK(g)) /\ pc[TopFrame] # "queued"
  BY DEF Inv, RunOK
<1>2. Frame(f)
  BY <1>1, StepBeginsKeeps, StepEndsKeeps, AttemptKeeps, GateKeeps, ForkKeeps, TakeBranchKeeps, JoinKeeps
     DEF FrameNext
<1>3. RunOK'
  BY <1>1, <1>2 DEF RunOK, Frame, runVars, ResumePoints
<1> QED
  BY <1>2, <1>3 DEF Inv, Frame

-----------------------------------------------------------------------------
(* The steps of the run.                                                   *)

LEMMA SameFrames ==
    ASSUME \A f \in Frames : FrameOK(f),
           UNCHANGED <<stops, dry, start, pc, at, terminal, result, attempts>>
    PROVE  \A f \in Frames : FrameOK(f)'
<1> SUFFICES ASSUME NEW f \in Frames
             PROVE  FrameOK(f)'
  OBVIOUS
<1>1. \A n : /\ Untouched(n)' <=> Untouched(n)
             /\ Skipped(n)' <=> Skipped(n)
             /\ Before(n)' <=> Before(n)
  BY DEF Untouched, Skipped, Before, Quiet, SubFrames
<1>2. \A n, t : Ended(n, t)' <=> Ended(n, t)
  BY DEF Ended, Calm, SubFrames, BlockTrue, Verdict, LetsThrough, Leaves
<1>3. Node(f)' = Node(f) /\ FirstIndex(f)' = FirstIndex(f)
  BY DEF Node, FirstIndex
<1>4. (NotBegun(f) => NotBegun(f)')
  BY <1>1 DEF NotBegun
<1>5. (Over(f) => Over(f)')
  BY <1>1, <1>2, <1>3 DEF Over
<1>6. (UnderWay(f) => UnderWay(f)')
  <2>1. Untouched(Node(f)) => Untouched(Node(f))'
    BY <1>3 DEF Untouched, Quiet, SubFrames
  <2> QED
    BY <1>1, <1>2, <1>3, <2>1 DEF UnderWay
<1> QED
  BY <1>4, <1>5, <1>6 DEF FrameOK, Active

LEMMA TopFrameType == TopFrame \in Frames /\ NodesOf(TopFrame) = Top /\ Len(Top) \in Nat /\ DOMAIN Top = 1..Len(Top)
  BY FrameType DEF Frames, NodesOf

LEMMA BlankKeeps ==
    ASSUME \A f \in Frames : pc'[f] = "off" /\ at'[f] = 1 /\ terminal'[f] = None,
           \A n \in Nodes : result'[n] \in {None, "skipped"}
    PROVE  \A f \in Frames : FrameOK(f)'
  BY FrameType DEF FrameOK, NotBegun, Active

LEMMA InitInv == Init => Inv
<1> SUFFICES ASSUME Init PROVE Inv
  OBVIOUS
<1>1. Typed
  <2>1. /\ pc \in [Frames -> {"off", "queued", "next", "target", "retry", "join", "done"}]
        /\ at \in [Frames -> Nat] /\ terminal \in [Frames -> Terminals \cup {None}]
        /\ result \in [Nodes -> NodeStatuses \cup {None}]
    BY DEF Init, Fresh
  <2>2. attempts \in [Nodes -> 0..Retries + 1] /\ runs \in 0..MaxRuns /\ start \in 1..Len(Top) + 1
    BY TopFrameType, Names DEF Init, Fresh
  <2>3. \A n \in Checks : result[n] # "failed"
    BY Names DEF Init, Fresh, NodeStatuses
  <2> QED
    BY <2>1, <2>2, <2>3 DEF Init, Typed
<1>2. \A f \in Frames : FrameOK(f)
  BY FrameType DEF Init, Fresh, FrameOK, NotBegun, Active
<1>3. RunOK
  BY TopFrameType DEF Init, Fresh, RunOK, Blank
<1> QED
  BY <1>1, <1>2, <1>3 DEF Inv

LEMMA RunKeeps == Inv /\ Run => Inv'
<1> SUFFICES ASSUME Inv, Run PROVE Inv'
  OBVIOUS
<1>1. Typed /\ TopFrame \in Frames
  BY TopFrameType DEF Inv
<1>2. /\ \A f \in Frames : pc'[f] = "off" /\ at'[f] = 1 /\ terminal'[f] = None
      /\ \A n \in Nodes : result'[n] = None /\ attempts'[n] = 0
  BY DEF Run, Fresh
<1>3. start' \in {1} \cup ResumePoints /\ start' \in 1..Len(Top) + 1
  BY TopFrameType DEF Run, ResumePoints
<1>4. pc' \in [Frames -> {"off", "queued", "next", "target", "retry", "join", "done"}]
      /\ at' \in [Frames -> Nat] /\ terminal' \in [Frames -> Terminals \cup {None}]
      /\ result' \in [Nodes -> NodeStatuses \cup {None}]
  BY DEF Run, Fresh
<1>5. attempts' \in [Nodes -> 0..Retries + 1]
  BY Names DEF Run, Fresh
<1>6. \A n \in Checks : result'[n] # "failed"
  BY <1>2, Names DEF NodeStatuses
<1>7. runs' \in 0..MaxRuns /\ dry' \in BOOLEAN /\ stops' \in BOOLEAN /\ posted' = FALSE
      /\ recorded' = FALSE /\ phase' = "pre" /\ status' = None
  <2>1. runs \in 0..MaxRuns /\ runs < MaxRuns /\ runs' = runs + 1 /\ MaxRuns \in Int
    BY <1>1, Names DEF Typed, Run
  <2> QED
    BY <1>1, <2>1 DEF Typed, Run
<1>8. Typed'
  BY <1>3, <1>4, <1>5, <1>6, <1>7 DEF Typed
<1>9. RunOK'
  BY <1>1, <1>2, <1>3, <1>7 DEF RunOK, Blank, ResumePoints
<1>10. \A f \in Frames : FrameOK(f)'
  BY <1>2, BlankKeeps
<1> QED
  BY <1>8, <1>9, <1>10 DEF Inv

LEMMA PreProbesFailKeeps == Inv /\ PreProbesFail => Inv'
<1> SUFFICES ASSUME Inv, PreProbesFail PROVE Inv'
  OBVIOUS
<1>1. Typed /\ RunOK /\ Blank /\ ~posted /\ TopFrame \in Frames
  BY TopFrameType DEF Inv, RunOK, PreProbesFail
<1>2. \A f \in Frames : FrameOK(f) /\ pc[f] = "off" /\ at[f] = 1 /\ terminal[f] = None
  BY <1>1 DEF Inv, FrameOK, NotBegun, Blank
<1>3. /\ \A f \in Frames : pc'[f] = "off" /\ at'[f] = 1 /\ terminal'[f] = None
      /\ \A n \in Nodes : result'[n] = "skipped"
  BY <1>2 DEF PreProbesFail
<1>4. Typed'
  BY <1>1, Names DEF Typed, PreProbesFail, NodeStatuses, Terminals
<1>5. Halted'
  BY <1>1, <1>3 DEF Halted, PreProbesFail
<1>6. RunOK'
  BY <1>1, <1>3, <1>5 DEF RunOK, PreProbesFail, ResumePoints
<1> QED
  BY <1>3, <1>4, <1>6, BlankKeeps DEF Inv

LEMMA PreProbesPassKeeps == Inv /\ PreProbesPass => Inv'
<1> SUFFICES ASSUME Inv, PreProbesPass PROVE Inv'
  OBVIOUS
<1>1. Typed /\ RunOK /\ Blank /\ ~posted /\ TopFrame \in Frames
  BY TopFrameType DEF Inv, RunOK, PreProbesPass
<1>2. PICK j : j = start /\ j \in 1..Len(Top) + 1 /\ (j = 1 \/ (j - 1 \in DOMAIN Top /\ Top[j - 1] \in Gates))
  BY <1>1, TopFrameType DEF Typed, RunOK, ResumePoints
<1>3. \A f \in Frames : pc[f] = "off" /\ at[f] = 1 /\ terminal[f] = None
  BY <1>1 DEF Inv, FrameOK, NotBegun, Blank
<1>4. /\ at'[TopFrame] = j /\ pc'[TopFrame] = (IF j > Len(Top) THEN "done" ELSE "next")
      /\ \A f \in Frames : f # TopFrame => pc'[f] = "off" /\ at'[f] = 1
      /\ \A f \in Frames : terminal'[f] = None
      /\ \A n \in Nodes : attempts'[n] = 0
      /\ start' = j
  BY <1>1, <1>2, <1>3, TopFrameType DEF PreProbesPass, Typed, EntryPc, Blank
<1>5. \A n \in Nodes : result'[n] = IF j > 1 /\ n = Top[j - 1] THEN "resumed"
                                    ELSE IF \E i \in 1..j - 1 : n = Top[i] THEN "skipped" ELSE None
  BY <1>2 DEF PreProbesPass
<1>6. \A i \in DOMAIN Top : Top[i] \in Nodes
  BY TopFrameType, FrameType
<1>7. \A i \in DOMAIN Top : \A m \in Under[Top[i]] : \A k \in DOMAIN Top : m = Top[k] => k = i
  <2> SUFFICES ASSUME NEW i \in DOMAIN Top, NEW k \in DOMAIN Top, Top[k] \in Under[Top[i]], k # i
               PROVE  FALSE
    OBVIOUS
  <2>1. Top[k] # Top[i]
    BY TopFrameType, OnePlace
  <2>2. TopFrame \in SubFrames(Top[i])
    BY <1>6, <2>1, TopFrameType, Home
  <2> QED
    BY <2>2 DEF SubFrames
<1>8. \A i \in DOMAIN Top : Quiet(Top[i])'
  BY <1>4 DEF Quiet, SubFrames
<1>9. ASSUME NEW i \in 1..j - 1
      PROVE  Before(Top[i])'
  <2>1. i \in DOMAIN Top /\ i \in Nat
    BY <1>2, TopFrameType
  <2>2. result'[Top[i]] = "skipped" \/ (result'[Top[i]] = "resumed" /\ Top[i] \in Gates)
    BY <1>2, <1>5, <1>6, <2>1
  <2>3. ASSUME NEW m \in Under[Top[i]] \ {Top[i]}
        PROVE  result'[m] = None
    <3>1. m \in Nodes /\ \A k \in DOMAIN Top : m # Top[k]
      BY <1>6, <1>7, <2>1, UnderType
    <3>2. \A k \in 1..j - 1 : m # Top[k]
      BY <1>2, <3>1, TopFrameType
    <3>3. j > 1 => m # Top[j - 1]
      BY <1>2, <3>1
    <3> QED
      BY <1>5, <3>1, <3>2, <3>3
  <2> QED
    BY <1>8, <2>1, <2>2, <2>3 DEF Before
<1>10. ASSUME NEW i \in j..Len(Top)
       PROVE  Untouched(Top[i])'
  <2>1. i \in DOMAIN Top /\ i \in Nat
    BY <1>2, TopFrameType
  <2>2. ASSUME NEW m \in Under[Top[i]]
        PROVE  m \in Nodes /\ result'[m] = None
    <3>1. m \in Nodes /\ \A k \in DOMAIN Top : k # i => m # Top[k]
      BY <1>6, <1>7, <2>1, UnderType
    <3>2. \A k \in 1..j - 1 : k \in DOMAIN Top /\ k # i
      BY <1>2, TopFrameType
    <3>3. j > 1 => j - 1 \in 1..j - 1
      BY <1>2
    <3> QED
      BY <1>5, <3>1, <3>2, <3>3
  <2> QED
    BY <1>4, <1>8, <2>1, <2>2 DEF Untouched
<1>11. FrameOK(TopFrame)'
  <2>1. FirstIndex(TopFrame)' = j /\ at'[TopFrame] = j /\ terminal'[TopFrame] = None
    BY <1>1, <1>4 DEF FirstIndex
  <2>2. CASE j > Len(Top)
    <3>1. pc'[TopFrame] = "done" /\ j \in j..Len(Top) + 1 /\ j..Len(Top) = {} /\ j..j - 1 = {}
      BY <1>2, <1>4, <2>2, TopFrameType
    <3>2. Over(TopFrame)'
      BY <1>9, <2>1, <3>1, TopFrameType DEF Over
    <3> QED
      BY <3>1, <3>2 DEF FrameOK, Active
  <2>3. CASE ~(j > Len(Top))
    <3>1. pc'[TopFrame] = "next" /\ j \in j..Len(Top) /\ j..j - 1 = {}
      BY <1>2, <1>4, <2>3, TopFrameType
    <3>2. PICK y : y = Top[j]
      OBVIOUS
    <3>3. Untouched(y)'
      BY <1>10, <3>1, <3>2
    <3>4. y = Node(TopFrame)'
      BY <2>1, <3>2, TopFrameType DEF Node
    <3>5. Untouched(Node(TopFrame))'
      BY <3>3, <3>4 DEF Untouched, Quiet, SubFrames
    <3>6. \A i \in j + 1..Len(Top) : Untouched(Top[i])'
      BY <1>2, <1>10, TopFrameType
    <3>7. UnderWay(TopFrame)'
      BY <1>9, <2>1, <3>1, <3>5, <3>6, TopFrameType DEF UnderWay
    <3> QED
      BY <3>1, <3>7 DEF FrameOK, Active
  <2> QED
    BY <2>2, <2>3
<1>12. ASSUME NEW h \in Frames, h # TopFrame
       PROVE  FrameOK(h)'
  <2>1. ASSUME NEW i \in DOMAIN NodesOf(h)
        PROVE  result'[NodesOf(h)[i]] \in {None, "skipped"}
    <3>1. NodesOf(h)[i] \in Nodes
      BY FrameType
    <3>2. j > 1 => NodesOf(h)[i] # Top[j - 1]
      BY <1>2, <1>12, TopFrameType, OnePlace
    <3> QED
      BY <1>5, <3>1, <3>2
  <2> QED
    BY <1>4, <1>12, <2>1 DEF FrameOK, NotBegun, Active
<1>13. Typed'
  <2>1. result' \in [Nodes -> NodeStatuses \cup {None}]
    BY DEF PreProbesPass, NodeStatuses
  <2>2. pc' \in [Frames -> {"off", "queued", "next", "target", "retry", "join", "done"}]
    BY <1>1 DEF PreProbesPass, Typed, EntryPc
  <2>3. at' \in [Frames -> Nat]
    BY <1>1 DEF PreProbesPass, Typed
  <2>4. \A n \in Checks : result'[n] # "failed"
    BY <1>5, Names DEF NodeStatuses
  <2> QED
    BY <1>1, <2>1, <2>2, <2>3, <2>4 DEF Typed, PreProbesPass
<1>14. RunOK'
  BY <1>1, <1>4 DEF RunOK, PreProbesPass, ResumePoints
<1> QED
  BY <1>11, <1>12, <1>13, <1>14 DEF Inv

LEMMA RestKeeps == Inv /\ (Conclude \/ PostProbes \/ Finish \/ ApproverRaises \/ UNCHANGED vars) => Inv'
<1> SUFFICES ASSUME Inv, Conclude \/ PostProbes \/ Finish \/ ApproverRaises \/ UNCHANGED vars
             PROVE  Inv'
  OBVIOUS
<1>1. Typed /\ RunOK /\ \A f \in Frames : FrameOK(f)
  BY DEF Inv
<1>2. UNCHANGED <<stops, runs, dry, start, pc, at, terminal, result, attempts>>
  BY DEF Conclude, PostProbes, Finish, ApproverRaises, vars
<1>3. \A f \in Frames : FrameOK(f)'
  BY <1>1, <1>2, SameFrames
<1>4. OverallStatus' = OverallStatus /\ Statuses' = Statuses
  BY <1>2 DEF OverallStatus, Statuses
<1>5. OverallStatus \in {"passed"} \cup Terminals
  BY <1>1, TopFrameType DEF OverallStatus, Typed, Terminals
<1>6. CASE Conclude
  <2>1. Typed'
    BY <1>1, <1>2, <1>5, <1>6 DEF Typed, Conclude
  <2>2. RunOK'
    BY <1>1, <1>2, <1>4, <1>6 DEF RunOK, Conclude, ResumePoints
  <2> QED
    BY <1>3, <2>1, <2>2 DEF Inv
<1>7. CASE PostProbes
  <2>1. Typed'
    BY <1>1, <1>2, <1>7 DEF Typed, PostProbes
  <2>2. RunOK'
    BY <1>1, <1>2, <1>4, <1>7 DEF RunOK, PostProbes, ResumePoints
  <2> QED
    BY <1>3, <2>1, <2>2 DEF Inv
<1>8. CASE Finish
  <2>1. Typed'
    BY <1>1, <1>2, <1>8 DEF Typed, Finish, Finished
  <2>2. RunOK'
    BY <1>1, <1>2, <1>4, <1>8 DEF RunOK, Finish, Finished, ResumePoints, Halted
  <2> QED
    BY <1>3, <2>1, <2>2 DEF Inv
<1>9. CASE ApproverRaises
  <2>1. Typed'
    BY <1>1, <1>2, <1>9 DEF Typed, ApproverRaises
  <2>2. RunOK'
    BY <1>1, <1>2, <1>4, <1>9 DEF RunOK, ApproverRaises, AtA, ResumePoints
  <2> QED
    BY <1>3, <2>1, <2>2 DEF Inv
<1>10. CASE UNCHANGED vars
  <2>1. Typed'
    BY <1>1, <1>10 DEF Typed, vars
  <2>2. RunOK'
    BY <1>1, <1>4, <1>10 DEF RunOK, vars, ResumePoints, Blank, Halted
  <2> QED
    BY <1>3, <2>1, <2>2 DEF Inv
<1> QED
  BY <1>6, <1>7, <1>8, <1>9, <1>10

LEMMA NextInv == Inv /\ [Next]_vars => Inv'
  BY RunKeeps, PreProbesFailKeeps, PreProbesPassKeeps, RestKeeps, FrameNextKeeps DEF Next, RunNext

\* The invariant as a formula of the behaviour.
LEMMA InvHolds == Spec => []Inv
<1>1. Inv /\ [Next]_vars => Inv'
  BY NextInv
<1> QED
  BY <1>1, InitInv, PTL DEF Spec

-----------------------------------------------------------------------------
(* The properties.                                                         *)

LEMMA TypesFromInv ==
    ASSUME Inv
    PROVE  TypeOK
<1>1. Typed /\ \A f \in Frames : FrameOK(f)
  BY DEF Inv
<1>2. ASSUME NEW f \in Frames
      PROVE  at[f] \in 1..Len(NodesOf(f)) + 1
  <2>1. FirstIndex(f) \in Nat \ {0} /\ Len(NodesOf(f)) \in Nat
    BY <1>1, FrameType DEF Typed, FirstIndex
  <2>2. FrameOK(f)
    BY <1>1
  <2>3. NotBegun(f) \/ UnderWay(f) \/ Over(f)
    BY <1>1, <2>2 DEF FrameOK, Active, Typed
  <2> QED
    BY <2>1, <2>3 DEF NotBegun, UnderWay, Over
<1> QED
  BY <1>1, <1>2 DEF TypeOK, Typed

LEMMA OrderFromInv ==
    ASSUME Inv
    PROVE  RunsInOrder
<1>1. Typed /\ \A f \in Frames : FrameOK(f)
  BY DEF Inv
<1>2. ASSUME NEW f \in Frames, NEW k \in DOMAIN NodesOf(f), Executed(f, k),
             NEW i \in FirstIndex(f)..k - 1, NEW m \in Leaves(NodesOf(f)[i])
      PROVE  LetsThrough(m)
  <2> DEFINE p == NodesOf(f)
  <2>1. /\ FirstIndex(f) \in Nat \ {0} /\ Len(p) \in Nat /\ DOMAIN p = 1..Len(p) /\ FrameOK(f)
        /\ \A x \in DOMAIN p : p[x] \in Nodes /\ p[x] \in Under[p[x]]
    BY <1>1, FrameType, UnderType DEF Typed, FirstIndex
  <2>2. PICK a : a = at[f] /\ a \in Nat
    BY <1>1 DEF Typed
  <2>3. \/ result[p[k]] \notin {None, "skipped", "resumed"}
        \/ a = k /\ Active(f)
    BY <1>2, <2>2 DEF Executed, Active
  <2>4. CASE pc[f] \in {"off", "queued"}
    <3>1. NotBegun(f)
      BY <2>1, <2>4 DEF FrameOK
    <3>2. result[p[k]] \in {None, "skipped"}
      BY <2>1, <2>4, <3>1 DEF NotBegun, Untouched
    <3> QED
      BY <2>3, <2>4, <3>2 DEF Active
  <2>5. CASE Active(f)
    <3>1. UnderWay(f)
      BY <2>1, <2>5 DEF FrameOK
    <3>2. ASSUME k > a PROVE FALSE
      <4>1. k \in a + 1..Len(p) /\ a # k
        BY <2>1, <2>2, <3>2
      <4>2. Untouched(p[k])
        BY <2>2, <3>1, <4>1 DEF UnderWay
      <4> QED
        BY <2>1, <2>3, <4>1, <4>2 DEF Untouched
    <3>3. i \in FirstIndex(f)..a - 1
      BY <2>1, <2>2, <3>2
    <3>4. Ended(p[i], None)
      BY <2>2, <3>1, <3>3 DEF UnderWay
    <3> QED
      BY <1>2, <3>4 DEF Ended, Verdict
  <2>6. CASE pc[f] = "done"
    <3>1. Over(f) /\ ~Active(f)
      BY <2>1, <2>6 DEF FrameOK, Active
    <3>2. ASSUME k >= a PROVE FALSE
      <4>1. k \in a..Len(p)
        BY <2>1, <2>2, <3>2
      <4>2. Skipped(p[k])
        BY <2>2, <3>1, <4>1 DEF Over
      <4> QED
        BY <2>1, <2>3, <3>1, <4>2 DEF Skipped
    <3>3. i \in FirstIndex(f)..a - 1 /\ i # a - 1
      BY <2>1, <2>2, <3>2
    <3>4. Ended(p[i], None)
      BY <2>2, <3>1, <3>3 DEF Over
    <3> QED
      BY <1>2, <3>4 DEF Ended, Verdict
  <2> QED
    BY <2>4, <2>5, <2>6 DEF Active
<1> QED
  BY <1>2, TypesFromInv DEF RunsInOrder

\* Every node of a run that is over, by its place before or behind the index it started at.
LEMMA EveryNode ==
    ASSUME Inv, pc[TopFrame] = "done", NEW n \in Nodes
    PROVE  \/ /\ result[n] \in {None, "skipped", "resumed"}
              /\ result[n] = "resumed" => n \in Gates
              /\ start > 1
           \/ /\ result[n] \notin {None, "resumed"}
              /\ n \in Parallels => BlockTrue(n)
              /\ Leaves(n) \subseteq UNION {Leaves(Top[i]) : i \in start..Len(Top)}
<1>1. Typed /\ FrameOK(TopFrame) /\ TopFrame \in Frames /\ Over(TopFrame)
  BY TopFrameType DEF Inv, FrameOK
<1>2. PICK i \in DOMAIN Top : n \in Under[Top[i]]
  BY PlanAssumption
<1>3. FirstIndex(TopFrame) = start /\ start \in Nat /\ Top[i] \in Nodes
  BY <1>1, TopFrameType, FrameType DEF FirstIndex, Typed
<1>4. CASE i < start
  <2>1. i \in 1..start - 1
    BY <1>3, <1>4, TopFrameType
  <2>2. Before(Top[i])
    BY <1>1, <1>3, <2>1, TopFrameType DEF Over
  <2>3. start > 1
    BY <1>3, <2>1
  <2> QED
    BY <1>2, <2>2, <2>3, Names DEF Before, NodeStatuses
<1>5. CASE ~(i < start)
  <2>1. i \in start..Len(Top)
    BY <1>3, <1>5, TopFrameType
  <2>2. \A m \in Under[Top[i]] : result[m] \notin {None, "resumed"} /\ (m \in Parallels => BlockTrue(m))
    BY <1>1, <1>3, <2>1, DoneFrame, TopFrameType
  <2>3. Leaves(n) \subseteq Leaves(Top[i])
    BY <1>2, <1>3, UnderUnder DEF Leaves
  <2> QED
    BY <1>2, <2>1, <2>2, <2>3
<1> QED
  BY <1>4, <1>5

LEMMA StatusFromInv ==
    ASSUME Inv, phase = "ended"
    PROVE  StatusTrue
<1>1. /\ Typed /\ RunOK
      /\ recorded <=> status # "suspended"
      /\ posted => "suspended" \notin Statuses
      /\ Halted \/ (pc[TopFrame] = "done" /\ status = OverallStatus)
  BY DEF Inv, RunOK
<1>2. \A n \in Nodes : result[n] = "suspended" => "suspended" \in Statuses
  BY Names DEF Statuses, NodeStatuses
<1> DEFINE executed == UNION {Leaves(Top[i]) : i \in start..Len(Top)}
<1>3. executed \subseteq Nodes
  <2>1. ASSUME NEW i \in start..Len(Top)
        PROVE  Leaves(Top[i]) \subseteq Nodes
    <3>1. i \in DOMAIN Top
      BY <1>1, TopFrameType DEF Typed
    <3> QED
      BY <3>1, TopFrameType, FrameType, UnderType DEF Leaves
  <2> QED
    BY <2>1
<1>4. CASE Halted
  <2>1. \A n \in Nodes : result[n] = "skipped"
    BY <1>4 DEF Halted
  <2>2. status = "halted" /\ ~posted
    BY <1>4 DEF Halted
  <2>3. \A n \in executed : result[n] = "skipped"
    BY <1>3, <2>1
  <2> HIDE DEF executed
  <2>4. /\ status \notin {"aborted", "failed", "rejected", "suspended", "passed"}
        /\ recorded
        /\ \A n \in Gates : result[n] # "suspended"
        /\ \A n \in Parallels : result[n] = "skipped"
    BY <1>1, <2>1, <2>2, Names
  <2> QED
    BY <1>1, <2>1, <2>2, <2>3, <2>4 DEF StatusTrue, executed
<1>5. CASE pc[TopFrame] = "done" /\ status = OverallStatus
  <2>1. PICK t : t = terminal[TopFrame]
    OBVIOUS
  <2>2. Verdict(executed, t)
    <3>1. FrameOK(TopFrame) /\ LeavesOf(TopFrame) = executed
      BY TopFrameType DEF Inv, LeavesOf, FirstIndex
    <3> QED
      BY <1>1, <1>5, <2>1, <3>1, DoneFrame, TopFrameType
  <2>3. \A n \in Nodes :
           \/ /\ result[n] \in {None, "skipped", "resumed"}
              /\ result[n] = "resumed" => n \in Gates
           \/ /\ result[n] \notin {None, "resumed"}
              /\ n \in Parallels => BlockTrue(n)
              /\ Leaves(n) \subseteq executed
    BY <1>5, EveryNode
  <2> HIDE DEF executed
  <2>4. \A n \in Nodes \ Parallels : Leaves(n) = {n}
    BY LeafUnder
  <2>5. \A n \in Nodes \ Parallels :
           result[n] \notin {None, "skipped", "resumed"} => n \in executed
    BY <2>3, <2>4
  <2>6. \A n \in executed : result[n] \notin {None, "resumed"} /\ n \in Nodes
    <3>1. ASSUME NEW n \in executed
          PROVE  result[n] \notin {None, "resumed"}
      <4>1. PICK i \in start..Len(Top) : n \in Leaves(Top[i])
        BY DEF executed
      <4>2. FrameOK(TopFrame) /\ FirstIndex(TopFrame) = start
        BY TopFrameType DEF Inv, FirstIndex
      <4> QED
        BY <1>1, <1>5, <4>1, <4>2, DoneFrame, TopFrameType DEF Leaves
    <3> QED
      BY <1>3, <3>1
  <2>7. \A s \in {"aborted", "failed"} : \A n \in Nodes :
           result[n] = s => \E m \in executed : result[m] = s
    <3>1. ASSUME NEW s \in {"aborted", "failed"}, NEW n \in Nodes, result[n] = s
          PROVE  \E m \in executed : result[m] = s
      <4>1. result[n] \notin {None, "skipped", "resumed"}
        BY <3>1, Names DEF NodeStatuses
      <4>2. CASE n \in Parallels
        BY <2>3, <3>1, <4>1, <4>2 DEF BlockTrue
      <4>3. CASE n \notin Parallels
        BY <2>5, <3>1, <4>1, <4>3
      <4> QED
        BY <4>2, <4>3
    <3> QED
      BY <3>1
  <2>8. \A s : s \in Statuses <=> s # None /\ \E n \in Nodes : result[n] = s
    BY DEF Statuses
  <2>9. \A n \in Parallels : result[n] \notin {None, "skipped"} => BlockTrue(n)
    BY <2>3, Names
  <2>10. \A n \in Gates : result[n] \in {"suspended", "rejected"} => n \in executed
    BY <2>5, Names DEF NodeStatuses
  <2>11. /\ status = "aborted" <=> \E n \in Steps \cap executed : result[n] = "aborted"
         /\ status = "failed" => \E n \in (Steps \cup Checks) \cap executed : result[n] = "failed"
         /\ status = "halted" => \E n \in (Checks \ SoftChecks) \cap executed : result[n] = "failed"
         /\ (\E n \in (Checks \ SoftChecks) \cap executed : result[n] = "failed") =>
               status \in {"halted", "aborted"}
         /\ status = "rejected" <=> \E n \in Gates \cap executed : result[n] = "rejected"
         /\ status = "suspended" <=> \E n \in Gates \cap executed : result[n] = "suspended"
         /\ status = "passed" => \A n \in executed : result[n] \in {"passed", "approved", "would_suspend"}
    <3>1. CASE t # None
      <4>1. status = t /\ t \in Terminals /\ t # "passed"
        BY <1>5, <2>1, <2>2, <3>1 DEF OverallStatus, Verdict, Terminals
      <4> QED
        BY <2>2, <4>1 DEF Verdict
    <3>2. CASE t = None
      <4>1. \A m \in executed : LetsThrough(m)
        BY <2>2, <3>2 DEF Verdict
      <4>2. \A m \in executed : result[m] \notin {"aborted", "rejected", "suspended"}
        BY <4>1 DEF LetsThrough
      <4>2a. \A m \in (Checks \ SoftChecks) \cap executed : result[m] # "failed"
        <5>1. None \notin {"halted", "aborted"}
          BY Names DEF Terminals
        <5> QED
          BY <2>2, <3>2, <5>1 DEF Verdict
      <4>3. "aborted" \notin Statuses
        BY <2>7, <2>8, <4>2
      <4>4. status = (IF "failed" \in Statuses THEN "failed" ELSE "passed")
        BY <1>5, <2>1, <3>2, <4>3 DEF OverallStatus
      <4>5. ASSUME "failed" \in Statuses
            PROVE  \E n \in (Steps \cup Checks) \cap executed : result[n] = "failed"
        BY <2>7, <2>8, <4>1, <4>5 DEF LetsThrough
      <4>6. ASSUME "failed" \notin Statuses
            PROVE  \A n \in executed : result[n] \in {"passed", "approved", "would_suspend"}
        BY <2>6, <2>8, <4>1, <4>6, Names DEF LetsThrough, NodeStatuses
      <4> QED
        BY <4>2, <4>4, <4>5, <4>6, <4>2a
    <3> QED
      BY <3>1, <3>2
  <2>12. /\ recorded <=> \A n \in Gates : result[n] # "suspended"
         /\ (\E n \in Gates : result[n] = "suspended") => ~posted
    BY <1>1, <1>2, <2>10, <2>11, Names
  <2> QED
    BY <2>9, <2>11, <2>12 DEF StatusTrue, BlockTrue, executed
<1> QED
  BY <1>1, <1>4, <1>5

LEMMA ReportFromInv ==
    ASSUME Inv
    PROVE  FreshReportFull
<1> SUFFICES ASSUME phase = "ended", start = 1, NEW n \in Nodes
             PROVE  result[n] # None
  BY DEF FreshReportFull
<1>1. Halted \/ pc[TopFrame] = "done"
  BY DEF Inv, RunOK
<1>2. CASE Halted
  BY <1>2, Names DEF Halted, NodeStatuses
<1>3. CASE pc[TopFrame] = "done"
  BY <1>3, EveryNode
<1> QED
  BY <1>1, <1>2, <1>3

(* Types, how often a check is tried, and the order: a node runs only      *)
(* after all that stands before it in its sequence has ended without       *)
(* stopping the workflow, for every plan of nested blocks (sequence,       *)
(* parallel, suspend).                                                     *)
THEOREM RunsInOrderAlways == Spec => []RunsInOrder
<1>1. Inv => RunsInOrder
  BY OrderFromInv
<1> QED
  BY <1>1, InvHolds, PTL

(* The status of a run and of every block agrees with what the nodes did,  *)
(* however the branches interleaved, and the history records the runs that *)
(* do not wait at a gate (execute, parallel, finish).                      *)
THEOREM StatusTrueAlways == Spec => []StatusTrue
<1>1. Inv => StatusTrue
  BY StatusFromInv DEF StatusTrue
<1> QED
  BY <1>1, InvHolds, PTL

(* The report of a run from the start has a result for every node, however *)
(* early the run stopped and however deep the node is nested (sequence,    *)
(* skipped).                                                               *)
THEOREM FreshReportFullAlways == Spec => []FreshReportFull
<1>1. Inv => FreshReportFull
  BY ReportFromInv
<1> QED
  BY <1>1, InvHolds, PTL
=============================================================================
