------------------------------ MODULE Topology ------------------------------
(***************************************************************************)
(* The topology that a report shows: trackers (agents/topology.py), the    *)
(* wrappers that register nodes with them (agents/langgraph.py), and what  *)
(* each driver of a run makes of the context variable that holds the       *)
(* active one.  Runs follow one another in one process; an asynchronous    *)
(* test of the plugin has a task with a context of its own.  Edges and the *)
(* types of nodes are left out.                                            *)
(***************************************************************************)
EXTENDS ToolRun

CONSTANTS
    TopologyJobs,   \* the drivers of successive runs, and the context of asynchronous tests
    Agents,         \* names of nodes
    MaxTrackers     \* bound on the trackers of a behaviour

\* Trackers are numbered as they are made; a token holds what was active before.
NoTracker == 0
Used == -1
Unregistered == 0

\* A run is a sequence of stages.  "note" and "bind" are what the plugin does
\* before and after a test; "pre", "during" and "post" are the probes; a step
\* of a workflow has the checks before it as "pre".
Stages(driver) ==
    CASE driver = "api" -> <<"pre", "reset", "target", "during", "take", "reset", "post">>
      [] driver = "step" -> <<"pre", "reset", "target", "during", "take", "reset">>
      [] driver = "agent" -> <<"pre", "target", "during", "post", "take", "reset">>
      [] driver = "plugin" -> <<"pre", "note", "target", "bind", "during", "post", "take">>
      [] driver = "baseline" -> <<"note", "target", "bind", "take">>
      [] driver = "fuzz" -> <<"reset", "target", "take", "reset">>
      [] driver = "trial" -> <<"reset", "target", "reset">>

Tests == {"plugin", "baseline"}

\* The kinds of runs; "agent" is a command, so a process of its own.
DriverKinds == {"api", "step", "agent", "plugin", "baseline", "fuzz", "trial"}
ASSUME TopologyAssumption ==
    /\ \A j \in TopologyJobs :
          /\ j.tool = "topology" /\ j.tests \in {"plain", "bound", "copied"}
          /\ j.drivers \in Seq(DriverKinds) /\ j.drivers # <<>>
          /\ \A i, k \in DOMAIN j.drivers : j.drivers[i] = "agent" => j.drivers[k] = "agent"
    /\ MaxTrackers \in Nat
UserStages == {"pre", "target", "during", "post"}

Tracker(number, stage, context, token) ==
    [run |-> number, stage |-> stage, context |-> context, token |-> token,
     nodes |-> [a \in Agents |-> Unregistered]]

\* A tracker made before the first run may be at hand, and active; a command
\* starts in a process of its own.
TopologyInit ==
    /\ job \in TopologyJobs
    /\ \E made \in {<<>>, <<Tracker(0, "before", "main", NoTracker)>>} :
       /\ job.drivers[1] = "agent" => made = <<>>
       /\ \E first \in {NoTracker, Len(made)} :
          run = [number |-> 1, todo |-> Stages(job.drivers[1]), made |-> made,
                 active |-> [main |-> first, task |-> NoTracker],
                 before |-> [main |-> NoTracker, task |-> NoTracker],
                 handle |-> NoTracker, attached |-> FALSE, left |-> NoTracker, report |-> NoValue]

Driver == job.drivers[run.number]
OnStage(name) == job.tool = "topology" /\ run.todo # <<>> /\ Head(run.todo) = name
InUserCode == job.tool = "topology" /\ run.todo # <<>> /\ Head(run.todo) \in UserStages
AtHand == IF InUserCode THEN DOMAIN run.made ELSE {}
Context == IF Driver \in Tests /\ OnStage("target") /\ job.tests # "plain" THEN "task" ELSE "main"

-----------------------------------------------------------------------------
(* TopologyTracker, used by the code of a stage; wrapped functions keep    *)
(* the tracker they were given, whichever is active.                       *)

MakeTracker ==
    /\ InUserCode /\ Len(run.made) < MaxTrackers
    /\ run' = [run EXCEPT
                 !.made = Append(@, Tracker(run.number, Head(run.todo), Context, run.active[Context])),
                 !.active[Context] = Len(run.made) + 1]
    /\ UNCHANGED job

\* deactivate() gives back what was active when the tracker was made, be it
\* active or not, and only once.
Released(r, t) ==
    IF r.made[t].token = Used THEN r
    ELSE [r EXCEPT !.active[r.made[t].context] = r.made[t].token, !.made[t].token = Used]

\* A stage deactivates the trackers that it made.
Deactivate(t) ==
    /\ run.made[t].run = run.number /\ run.made[t].stage = Head(run.todo) /\ run.made[t].token # Used
    /\ run' = Released(run, t) /\ UNCHANGED job

\* wrap_node(), wrap_tool(): the caller and the callee are registered, each
\* once, before the call is made.
Visit(t, nodes) ==
    /\ \E a \in nodes : run.made[t].nodes[a] = Unregistered
    /\ run' = [run EXCEPT !.made[t].nodes =
                 [a \in Agents |-> IF a \in nodes /\ @[a] = Unregistered THEN run.number ELSE @[a]]]
    /\ UNCHANGED job

\* chaos.attach_topology() of a test.
Attach(t) ==
    /\ OnStage("target") /\ Driver \in Tests
    /\ run.handle # t
    /\ run' = [run EXCEPT !.handle = t, !.attached = TRUE] /\ UNCHANGED job

-----------------------------------------------------------------------------
(* The drivers.                                                            *)

\* The next stage, and after the last one the next run.
Advanced(r) ==
    IF Len(r.todo) > 1 THEN [r EXCEPT !.todo = Tail(@)]
    ELSE IF r.number = Len(job.drivers) THEN [r EXCEPT !.todo = <<>>]
    ELSE [r EXCEPT !.number = @ + 1, !.todo = Stages(job.drivers[r.number + 1]),
                   !.left = NoTracker, !.report = NoValue]

EndStage ==
    /\ InUserCode
    /\ run' = Advanced(IF OnStage("target") THEN [run EXCEPT !.left = run.active[Context]] ELSE run)
    /\ UNCHANGED job

\* The target is interrupted: no report, and the next run only after a library
\* call whose caller goes on, or after a test, whose task is first unbound.
Interrupted ==
    /\ OnStage("target")
    /\ run' = CASE Driver = "plugin" -> [run EXCEPT !.todo = <<"bind">>]
                [] Driver \in {"api", "step"} -> Advanced([run EXCEPT !.todo = <<"target">>])
                [] OTHER -> [run EXCEPT !.todo = <<>>]
    /\ UNCHANGED job

Reset ==
    /\ OnStage("reset")
    /\ run' = Advanced([run EXCEPT !.active.main = NoTracker]) /\ UNCHANGED job

\* tracker_before; the task of an asynchronous test copies the context now, or
\* has that of an event loop made earlier.
Note ==
    /\ OnStage("note")
    /\ \E task \in IF job.tests = "copied" THEN {run.active.main} ELSE {run.active.main, run.active.task} :
          run' = Advanced([run EXCEPT !.active.task = task, !.handle = NoTracker, !.attached = FALSE,
                                      !.before = [main |-> run.active.main, task |-> task]])
    /\ UNCHANGED job

\* The finally of _bind_session; a task whose context has the session already,
\* being a copy, is not bound.
Bind ==
    /\ OnStage("bind")
    /\ LET t == run.active.task
       IN  run' = Advanced(IF job.tests = "bound" /\ t \notin {NoTracker, run.before.task}
                           THEN Released([run EXCEPT !.handle = IF @ = NoTracker THEN t ELSE @], t)
                           ELSE run)
    /\ UNCHANGED job

\* What the report shows: an attached tracker, else, in a test, one that is
\* active and was not before, else the active one if it has nodes.
HasNodes(t) == t # NoTracker /\ \E a \in Agents : run.made[t].nodes[a] # Unregistered

\* Mutation of NewlyActive: whatever is active is taken to be the test's.
NewlyActiveUncompared == run.active.main # NoTracker

NewlyActive == run.active.main \notin {NoTracker, run.before.main}
Shown ==
    CASE Driver \in Tests /\ run.handle # NoTracker -> run.handle
      [] Driver \in Tests /\ run.handle = NoTracker -> IF NewlyActive THEN run.active.main ELSE NoTracker
      [] Driver \notin Tests -> IF HasNodes(run.active.main) THEN run.active.main ELSE NoTracker

Take ==
    /\ OnStage("take")
    /\ LET report == [tracker |-> Shown, attached |-> Driver \in Tests /\ run.attached,
                      left |-> IF HasNodes(run.left) THEN run.left ELSE NoTracker,
                      nodes |-> IF Shown = NoTracker THEN <<>> ELSE run.made[Shown].nodes]
           after == IF Driver \in Tests /\ run.handle = NoTracker /\ NewlyActive
                    THEN Released(run, run.active.main) ELSE run
       IN  run' = Advanced([after EXCEPT !.report = report, !.handle = NoTracker,
                                         !.attached = FALSE])
    /\ UNCHANGED job

TopologyNext ==
    \/ MakeTracker
    \/ \E t \in AtHand : Deactivate(t) \/ Attach(t) \/ \E nodes \in (SUBSET Agents) \ {{}} : Visit(t, nodes)
    \/ EndStage \/ Interrupted \/ Reset \/ Note \/ Bind \/ Take

-----------------------------------------------------------------------------
\* A report shows what its own run did: whatever earlier runs, probes and
\* interrupted targets left active, a tracker that a test did not attach itself
\* was made in this run, by its target or a probe that the driver runs before it
\* looks, and every node in it was registered in this run.  And nothing is lost:
\* a tracker that the target left active is shown unless a later probe of the
\* run made one, or the target ran in a copied context.
OwnTopology ==
    (job.tool = "topology" /\ run.report # NoValue) =>
        LET Made(t, stages) == run.made[t].run = run.number /\ run.made[t].stage \in stages
            looked == CASE Driver = "agent" -> UserStages
                        [] Driver \in Tests -> {"target", "during", "post"}
                        [] OTHER -> {"target", "during"}
            replaced == \E t \in DOMAIN run.made : Made(t, looked \ {"pre", "target"})
            kept == run.report.left # NoTracker /\ Made(run.report.left, {"target"}) /\ ~replaced
                      /\ (Driver \in Tests => job.tests # "copied")
        IN  ~run.report.attached =>
              /\ run.report.tracker # NoTracker =>
                    /\ Made(run.report.tracker, looked)
                    /\ \A a \in Agents : run.report.nodes[a] \in {Unregistered, run.number}
              /\ kept => run.report.tracker = run.report.left
=============================================================================
