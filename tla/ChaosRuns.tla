----------------------------- MODULE ChaosRuns ------------------------------
(***************************************************************************)
(* One run of a target under chaos, from its pre probes to its verdict, by *)
(* its four drivers: chaos_run() of probes/runner.py ("api"), the commands *)
(* "chaos run" and "agent run" of cli/main.py, and a marked test of the    *)
(* pytest plugin.  The target makes calls through the session, which       *)
(* injects as it likes; the report it leaves is scored by Resilience and   *)
(* checked by Contracts, as the drivers do.                                *)
(***************************************************************************)
EXTENDS ToolRun, Resilience

CONSTANTS
    RunJobs,      \* driver, dry, requireSteady, baseline, minimum, contracts, history
    MaxRunCalls   \* bound on the calls of the target

Drivers == {"api", "command", "agent", "plugin"}
Commands == {"command", "agent"}

\* Only chaos_run() can be told to go on in a system that is not steady.
ASSUME RunAssumption ==
    \A j \in RunJobs :
        /\ j.tool = "run" /\ j.driver \in Drivers /\ j.minimum \in Int \union {NoValue}
        /\ ~j.requireSteady => j.driver = "api"
        /\ Len(j.contracts) \in Nat /\ DOMAIN j.contracts = 1..Len(j.contracts)
        /\ \A i \in DOMAIN j.contracts : j.contracts[i].kind \in ContractKinds

NewCall(number, name, ok, event) ==
    [sequence |-> number, kind |-> "call", name |-> name, ok |-> ok, event |-> event, at |-> number, stage |-> 0]

\* The report at this point, in the form Contracts reads.
Report ==
    [calls |-> run.calls, dropped |-> 0, recorded |-> {"calls", "unhandled_error"},
     events |-> run.events, raised |-> run.ended \in {"raises", "carries", "exits"},
     carries |-> IF run.ended = "carries" THEN run.cause ELSE 0,
     aborted |-> run.aborted, dry |-> job.dry, elapsed |-> NoValue, cost |-> 0,
     nodes |-> run.nodes, probes |-> run.probes]

Steady == \A i \in DOMAIN run.probes : run.probes[i].phase = "pre" => run.probes[i].passed

Result(phase, passed) == [phase |-> phase, passed |-> passed, weight |-> 1]

\* What each driver does with a finished run, in its order; the chaos, the
\* topology and the contracts are left out of one that was not in steady state.
ApiClosing(injected) == (IF injected THEN <<"topology">> ELSE <<>>) \o <<"score", "record">>
CommandClosing(injected) == IF injected THEN <<"score", "record", "save", "check">> ELSE <<"score", "save">>
AgentClosing(injected) == (IF injected THEN <<"topology">> ELSE <<>>) \o CommandClosing(injected)
PluginClosing == <<"topology", "score", "check", "save">>
PluginUnsteady == <<"score", "save">>

Closing(injected) ==
    CASE job.driver = "api" -> ApiClosing(injected)
      [] job.driver = "command" -> CommandClosing(injected)
      [] job.driver = "agent" -> AgentClosing(injected)
      [] job.driver = "plugin" -> IF injected THEN PluginClosing ELSE PluginUnsteady

RunInit ==
    /\ job \in RunJobs
    /\ run = [pc |-> IF job.driver = "plugin" /\ job.baseline THEN "baseline" ELSE "pre",
              calls |-> <<>>, events |-> <<>>, probes |-> <<>>, ended |-> "no", cause |-> 0,
              aborted |-> FALSE, open |-> FALSE, todo |-> <<>>, nodes |-> {}, score |-> NoValue,
              stored |-> 0, saved |-> FALSE, checked |-> <<>>, verdict |-> "none"]

At(pc) == job.tool = "run" /\ run.pc = pc

\* A wrong argument, option or marker ends the run before anything is done: an
\* exception of chaos_run(), a red command, a failed test.
RefuseArguments ==
    /\ At("pre") /\ job.driver = "api"
    /\ run' = [run EXCEPT !.pc = "end", !.verdict = "broken"] /\ UNCHANGED job
RefuseOptions ==
    /\ At("pre") /\ job.driver \in Commands
    /\ run' = [run EXCEPT !.pc = "end", !.verdict = "failed"] /\ UNCHANGED job
RefuseMarker ==
    /\ (At("pre") /\ ~job.baseline) \/ At("baseline")
    /\ job.driver = "plugin"
    /\ run' = [run EXCEPT !.pc = "end", !.verdict = "failed"] /\ UNCHANGED job

\* The plugin's dry run of the test; a failing one fails the test at once.
Baseline ==
    /\ At("baseline")
    /\ \E ok \in BOOLEAN : run' = IF ok THEN [run EXCEPT !.pc = "pre"]
                                  ELSE [run EXCEPT !.pc = "end", !.verdict = "failed"]
    /\ UNCHANGED job

\* run_probes("pre"): one probe, healthy or not.
PreProbes ==
    /\ At("pre")
    /\ \E passed \in BOOLEAN :
          run' = [run EXCEPT !.probes = <<Result("pre", passed)>>,
                             !.pc = IF passed \/ ~job.requireSteady THEN "target" ELSE "closing",
                             !.open = passed \/ ~job.requireSteady,
                             !.todo = IF passed \/ ~job.requireSteady THEN @ ELSE Closing(FALSE)]
    /\ UNCHANGED job

\* A call of the target, or of a during probe: the session injects into it, or
\* it goes through.  A dry run and an aborted session inject nothing.
Made(name, ok, outcome) ==
    LET id == Len(run.events) + 1
    IN  [run EXCEPT
          !.calls = Append(@, NewCall(Len(@) + 1, name, ok, IF outcome = "none" THEN 0 ELSE id)),
          !.events = IF outcome = "none" THEN @
                     ELSE Append(@, [id |-> id, type |-> "fault", outcome |-> outcome,
                                     fidelity |-> NoValue])]
Injectable == ~job.dry /\ ~run.aborted

TargetCalls ==
    /\ At("target") /\ Len(run.calls) < MaxRunCalls /\ ~run.aborted
    /\ \E name \in {"planner", "writer"} :
          \/ \E ok \in BOOLEAN : run' = Made(name, ok, "none")
          \/ \E outcome \in {"errored", "degraded"} :
                Injectable /\ run' = Made(name, outcome # "errored", outcome)
    /\ UNCHANGED job

Aborts ==
    /\ At("target") /\ ~run.aborted /\ run.calls # <<>>
    /\ run' = [run EXCEPT !.aborted = TRUE] /\ UNCHANGED job

\* The target returns, raises (an error of its own, or the injected one), calls
\* sys.exit() in a script, or is interrupted or skipped: then there is no report.
TargetEnds ==
    /\ At("target")
    /\ \E how \in {"returns", "raises", "carries", "exits", "interrupted"} :
          /\ how = "exits" => job.driver \in Commands
          /\ how = "carries" => \E i \in DOMAIN run.events : run.events[i].outcome = "errored"
          /\ \E cause \in IF how = "carries"
                          THEN {i \in DOMAIN run.events : run.events[i].outcome = "errored"} ELSE {0} :
                run' = IF how = "interrupted"
                       THEN [run EXCEPT !.pc = "end", !.open = FALSE, !.verdict = "interrupted"]
                       ELSE [run EXCEPT !.pc = "during", !.ended = how, !.cause = cause]
    /\ UNCHANGED job

\* The probe runs inside the session, perhaps through chaos_call.
DuringProbes ==
    /\ At("during")
    /\ \E passed, hit \in BOOLEAN :
          /\ hit => Injectable
          /\ LET after == IF hit THEN Made(Unnamed, FALSE, "errored") ELSE run
             IN  run' = [after EXCEPT !.probes = Append(@, Result("during", passed)), !.pc = "post"]
    /\ UNCHANGED job

PostProbes ==
    /\ At("post")
    /\ \E passed \in BOOLEAN :
          run' = [run EXCEPT !.open = FALSE, !.probes = Append(@, Result("post", passed)),
                             !.pc = "closing", !.todo = Closing(TRUE)]
    /\ UNCHANGED job

Stage(name) == At("closing") /\ run.todo # <<>> /\ Head(run.todo) = name
Then(next) == run' = [next EXCEPT !.todo = Tail(run.todo)] /\ UNCHANGED job

\* The topology of the tracker that the target left active, if it did: it need
\* not have visited every node.
TakeTopology == Stage("topology") /\ \E nodes \in {{}, {"planner", "writer"}} : Then([run EXCEPT !.nodes = nodes])
ScoreRun == Stage("score") /\ Then([run EXCEPT !.score = ComputeResilience(Report, NoReport, DefaultWeights)])
RecordRun == Stage("record") /\ Then(IF job.history THEN [run EXCEPT !.stored = @ + 1] ELSE run)
SaveRun == Stage("save") /\ Then([run EXCEPT !.saved = TRUE])
CheckRun == Stage("check") /\ Then([run EXCEPT !.checked = CheckContracts(job.contracts, Report, NoReport)])

\* The history cannot be read or written: the exception leaves the driver,
\* before the command has saved its report.
RecordFails ==
    /\ Stage("record") /\ job.history
    /\ run' = [run EXCEPT !.pc = "end", !.verdict = "broken"] /\ UNCHANGED job

\* Mutation of FinalVerdict: a run given up before its target is not a failure.
FinalVerdictUnrun ==
    CASE job.driver = "api" -> "returned"
      [] job.driver # "api" /\ run.ended = "exits" -> "own code"
      [] job.driver # "api" /\ run.ended \in {"raises", "carries"} -> "failed"
      [] OTHER -> IF run.aborted \/ ~AllPassed(run.checked) THEN "failed" ELSE "passed"

\* _finish_run, or the end of the test: the crash first, then the abort
\* (command only), the contracts and the minimum score.
FinalVerdict ==
    CASE job.driver = "api" -> "returned"
      [] job.driver # "api" /\ run.ended = "exits" -> "own code"
      [] job.driver # "api" /\ (run.ended \in {"no", "raises", "carries"}) -> "failed"
      [] OTHER -> IF \/ run.aborted /\ job.driver \in Commands
                     \/ ~AllPassed(run.checked)
                     \/ job.minimum # NoValue /\ ~Meets(run.score, job.minimum)
                  THEN "failed" ELSE "passed"

Conclude ==
    /\ At("closing") /\ run.todo = <<>>
    /\ run' = [run EXCEPT !.pc = "end", !.verdict = FinalVerdict] /\ UNCHANGED job

RunNext ==
    \/ RefuseArguments \/ RefuseOptions \/ RefuseMarker \/ Baseline \/ PreProbes \/ TargetCalls \/ Aborts \/ TargetEnds \/ DuringProbes
    \/ PostProbes \/ TakeTopology \/ ScoreRun \/ RecordRun \/ SaveRun \/ CheckRun \/ RecordFails \/ Conclude

-----------------------------------------------------------------------------
\* A green verdict is earned: the target ended normally in a run that began in
\* steady state, every contract passed on its complete report and the score is
\* the one asked for; in a command nothing aborted.  The report of every run
\* that a command or a test judged is saved first, passed or failed (one whose
\* history could not be written is neither), and at most one score is stored.
GreenIsEarned ==
    job.tool = "run" =>
        /\ run.verdict = "passed" =>
              /\ run.ended = "returns" /\ Steady
              /\ Len(run.checked) = Len(job.contracts) /\ AllPassed(run.checked)
              /\ job.minimum # NoValue => run.score \in job.minimum..100
              /\ job.driver \in Commands => ~run.aborted
        /\ run.verdict \in {"passed", "failed", "own code"} /\ run.probes # <<>> => run.saved
        /\ run.stored <= 1

\* Nothing is injected into a system that was not in steady state unless the
\* caller asked for it, nor outside the session; and a score needs a steady
\* system, a real run and a fault that fired.
ScoreIsMeaningful ==
    job.tool = "run" =>
        /\ run.events # <<>> => Steady \/ ~job.requireSteady
        /\ run.score # NoValue => Steady /\ ~job.dry /\ run.events # <<>> /\ run.score \in 0..100
        /\ run.pc = "closing" => ~run.open
=============================================================================
