------------------------------- MODULE Faults -------------------------------
(***************************************************************************)
(* The built-in faults, the cascade of two faults and the dry-run preview. *)
(* One campaign (a fault or a cascade) is configured for two sessions that *)
(* receive the same calls in the same order: a live one, which injects,    *)
(* and a dry-run one, which only plans.  A call takes the steps of         *)
(* _session_call between which another thread may run: the selection, the  *)
(* lazy preview copy, the trigger, the count of a burst or of turns, and   *)
(* inside a cascade the choice of the stage, the stage's trigger and the   *)
(* advance of the index.  The breaker and its limits are in ChaosCalls;    *)
(* these sessions have none.                                               *)
(***************************************************************************)
EXTENDS Integers, Sequences, FiniteSets

CONSTANTS
    Workers,      \* threads that call through the session
    Labels,       \* what a call site shows of itself: step name, provider, edge
    Campaigns,    \* sequences of one fault, or of the two stages of a cascade
    MaxCalls,     \* bound on the calls of a behaviour
    NoCopy,       \* no preview copy has been published yet
    NoCall        \* the locals of a thread that makes no call

\* garble_text replaces letters only, so "42" survives it; a bare value
\* (a number, an object without content or text) has no text at all.
Shapes == {"prose", "digits", "bare"}
Textual == {"prose", "digits"}

\* "scope" and "target" are the labels the scope allows and those the fault's
\* own eligible() accepts (tool_name, from_node/to_node); "budget" is the
\* burst_count or force_turns; "odds" stands for the probability.
FaultSet == [type : {"token_timeout", "rate_limit_storm", "silent_degradation",
                     "tool_failure", "memory_corruption", "handoff_corruption",
                     "infinite_loop", "poisoned_response", "auth_error",
                     "context_length"},
             mode : {"raise", "delay", "error", "timeout", "empty", "truncate",
                     "inject", "garble", "decay", "corrupt", "drop", "default"},
             budget : Nat, odds : {"never", "sometimes", "always"},
             scope : SUBSET Labels, target : SUBSET Labels]

CallSet == [label : Labels, shape : Shapes, fails : BOOLEAN]

ASSUME FaultsAssumption ==
    /\ MaxCalls \in Nat
    /\ IsFiniteSet(Workers) /\ Workers # {}
    /\ NoCopy \notin Workers
    /\ \A stages \in Campaigns : /\ stages \in Seq(FaultSet)
                                 /\ Len(stages) \in {1, 2}
                                 /\ Len(stages) = 2 => \A k \in {1, 2} :
                                      stages[k].type = "rate_limit_storm" => stages[k].budget > 0

VARIABLES
    stages,    \* the campaign configured for both sessions
    seed,      \* outcomes of the seeded draws, in order
    crew,      \* the workers of the behaviour: one, or all of them
    live,      \* state of the configured fault in the live session
    copies,    \* preview copies made by each worker in the dry-run session
    current,   \* the worker whose copy _preview_faults holds, or NoCopy
    pc, call, go, held, stage,   \* locals of the call each worker is making
    begun,     \* calls begun so far
    events,    \* ChaosEvents of the live session
    plans,     \* planned_events of the dry-run session
    diverged   \* a selected live call ended without an event, or an index escaped

vars == <<stages, seed, crew, live, copies, current, pc, call, go, held, stage,
          begun, events, plans, diverged>>

Cascade == Len(stages) = 2
Fresh == [fired |-> [k \in DOMAIN stages |-> 0], index |-> 1,
          drawn |-> [k \in DOMAIN stages |-> 0]]

-----------------------------------------------------------------------------
(* What each fault's trigger does with a call, given its counter n: the    *)
(* event it records, what the application gets, and the counter after it.  *)

Outcome(event, got, n) == [event |-> event, got |-> got, fired |-> n]

\* The target itself: its response, or the exception it raises.
PassThrough(c, n) == Outcome("none", IF c.fails THEN "raised" ELSE "genuine", n)

\* A fault that calls the target first never sees the failure of a raising one.
AfterTarget(c, n, outcome) == IF c.fails THEN PassThrough(c, n) ELSE outcome

\* mutate_text_attrs: the text attribute when there is one, else nothing.
Corrupted(c, touches) == IF c.shape \in touches THEN "altered" ELSE "genuine"

TokenTimeout(f, c, n) ==
    IF f.mode = "delay" THEN AfterTarget(c, n, Outcome("delayed", "genuine", n))
                        ELSE Outcome("errored", "raised", n)

RateLimitStorm(f, c, n) ==
    IF n >= f.budget THEN PassThrough(c, n) ELSE Outcome("errored", "raised", n + 1)

SilentDegradation(f, c, n) ==
    AfterTarget(c, n, Outcome("degraded", Corrupted(c, {"prose"}), n))

ToolCallFailure(f, c, n) ==
    IF c.label \notin f.target THEN PassThrough(c, n)
    ELSE IF f.mode = "empty" THEN AfterTarget(c, n, Outcome("degraded", "nothing", n))
    ELSE Outcome("errored", "raised", n)

\* decay counts its turns; all modes act on the text or the container.
MemoryCorruption(f, c, n) ==
    LET touches == IF f.mode = "garble" THEN {"prose"} ELSE Textual
    IN  AfterTarget(c, n, Outcome("degraded", Corrupted(c, touches),
                                  IF f.mode = "decay" THEN n + 1 ELSE n))

HandoffCorruption(f, c, n) ==
    IF c.label \notin f.target THEN PassThrough(c, n)
    ELSE IF f.mode = "drop" THEN Outcome("degraded", "nothing", n)
    ELSE IF f.mode = "delay" THEN AfterTarget(c, n, Outcome("delayed", "genuine", n))
    ELSE AfterTarget(c, n, Outcome("degraded", "answer_to_corrupted_payload", n))

\* The target runs first; only then is the turn budget looked at.
InfiniteLoop(f, c, n) ==
    AfterTarget(c, n, IF n >= f.budget THEN PassThrough(c, n)
                                       ELSE Outcome("looped", "continue_value", n + 1))

\* Mutation of PoisonedResponse: a shape it cannot poison passes, as degraded.
PoisonedResponseLenient(f, c, n) ==
    AfterTarget(c, n, Outcome("degraded", IF c.shape \in Textual THEN "altered" ELSE "genuine", n))

\* An unsupported response shape is a TypeError, without an event.
PoisonedResponse(f, c, n) ==
    AfterTarget(c, n, IF c.shape \in Textual THEN Outcome("degraded", "altered", n)
                                             ELSE Outcome("none", "raised", n))

AuthError(f, c, n) == Outcome("errored", "raised", n)
ContextLength(f, c, n) == Outcome("errored", "raised", n)

Trigger(f, c, n) ==
    CASE f.type = "token_timeout" -> TokenTimeout(f, c, n)
      [] f.type = "rate_limit_storm" -> RateLimitStorm(f, c, n)
      [] f.type = "silent_degradation" -> SilentDegradation(f, c, n)
      [] f.type = "tool_failure" -> ToolCallFailure(f, c, n)
      [] f.type = "memory_corruption" -> MemoryCorruption(f, c, n)
      [] f.type = "handoff_corruption" -> HandoffCorruption(f, c, n)
      [] f.type = "infinite_loop" -> InfiniteLoop(f, c, n)
      [] f.type = "poisoned_response" -> PoisonedResponse(f, c, n)
      [] f.type = "auth_error" -> AuthError(f, c, n)
      [] f.type = "context_length" -> ContextLength(f, c, n)

-----------------------------------------------------------------------------
(* Selection: scope, then the seeded draw, then eligibility.  "st" is the  *)
(* state of the configured fault or of a preview copy.                     *)

Pending(st) == st.index \in DOMAIN stages

\* The faults that stop by themselves after a number of injections.
Counted(k) == stages[k].type \in {"rate_limit_storm", "infinite_loop"}

\* Mutation of StageEligible: a spent burst is eligible once more.
StageEligibleLate(k, c, st) ==
    CASE Counted(k) -> st.fired[k] <= stages[k].budget
      [] stages[k].type \in {"tool_failure", "handoff_corruption"} -> c.label \in stages[k].target
      [] OTHER -> TRUE

StageEligible(k, c, st) ==
    CASE Counted(k) -> st.fired[k] < stages[k].budget
      [] stages[k].type \in {"tool_failure", "handoff_corruption"} -> c.label \in stages[k].target
      [] OTHER -> TRUE

\* FaultCascade.in_scope: a spent cascade is in scope, and then not triggered.
InScope(c, st) == Pending(st) => c.label \in stages[st.index].scope

\* A probability strictly between 0 and 1 consumes one draw of the stage.
Draws(st) == Pending(st) /\ stages[st.index].odds = "sometimes"

ShouldTrigger(st) ==
    /\ Pending(st)
    /\ \/ stages[st.index].odds = "always"
       \/ Draws(st) /\ seed[st.drawn[st.index] + 1]

Eligible(c, st) == Pending(st) /\ StageEligible(st.index, c, st)

Selected(c, st) == InScope(c, st) /\ ShouldTrigger(st) /\ Eligible(c, st)

\* The state after a selection: an out-of-scope call consumes no draw.
Drawn(c, st) ==
    IF InScope(c, st) /\ Draws(st) THEN [st EXCEPT !.drawn[st.index] = @ + 1] ELSE st

\* Mutation of StageOver: every stage fires once.
StageOverAtOnce(k, n) == TRUE

\* A rate-limit stage stays until its burst is spent, any other fires once.
StageOver(k, n) == stages[k].type = "rate_limit_storm" => n >= stages[k].budget

\* Mutation of AdvancePreview: a preview never leaves its first stage.
AdvancePreviewStuck(st) ==
    [st EXCEPT !.fired[st.index] = IF Counted(st.index) THEN @ + 1 ELSE @]

AdvancePreview(st) ==
    LET k == st.index
        n == IF Counted(k) THEN st.fired[k] + 1 ELSE st.fired[k]
    IN  [st EXCEPT !.fired[k] = n, !.index = IF Cascade /\ StageOver(k, n) THEN @ + 1 ELSE @]

-----------------------------------------------------------------------------
Init ==
    /\ stages \in Campaigns
    /\ seed \in IF \E k \in DOMAIN stages : stages[k].odds = "sometimes"
                THEN [1..MaxCalls -> BOOLEAN] ELSE {[k \in 1..MaxCalls |-> TRUE]}
    /\ crew \in {Workers} \union {{w} : w \in Workers}
    /\ live = Fresh
    /\ copies = [w \in Workers |-> Fresh]
    /\ current = NoCopy
    /\ pc = [w \in Workers |-> "idle"]
    /\ call = [w \in Workers |-> NoCall]
    /\ go = [w \in Workers |-> [live |-> FALSE, preview |-> FALSE]]
    /\ held = [w \in Workers |-> NoCopy]
    /\ stage = [w \in Workers |-> 1]
    /\ begun = 0 /\ events = <<>> /\ plans = <<>> /\ diverged = FALSE

\* _session_call up to the selection.  The dry-run session uses the published
\* preview copy; when there is none the worker is about to make one.
Select(w, c) ==
    LET peeked == IF current = NoCopy THEN Fresh ELSE copies[current]
        copying == current = NoCopy /\ InScope(c, peeked)
    IN  /\ pc[w] = "idle" /\ begun < MaxCalls
        /\ begun' = begun + 1
        /\ call' = [call EXCEPT ![w] = c]
        /\ live' = Drawn(c, live)
        /\ go' = [go EXCEPT ![w] = [live |-> Selected(c, live),
                                    preview |-> ~copying /\ Selected(c, peeked)]]
        /\ copies' = IF current = NoCopy THEN copies
                     ELSE [copies EXCEPT ![current] = Drawn(c, peeked)]
        /\ held' = [held EXCEPT ![w] = current]
        /\ pc' = [pc EXCEPT ![w] = IF copying THEN "copying" ELSE "selected"]
        /\ UNCHANGED <<stages, seed, crew, current, stage, events, plans, diverged>>

\* preview_fault: the lookup found nothing, so this worker publishes a copy of
\* its own, over one that another worker may have published meanwhile.
MakeCopy(w) ==
    /\ pc[w] = "copying"
    /\ current' = w
    /\ copies' = [copies EXCEPT ![w] = Drawn(call[w], Fresh)]
    /\ held' = [held EXCEPT ![w] = w]
    /\ go' = [go EXCEPT ![w].preview = Selected(call[w], Fresh)]
    /\ pc' = [pc EXCEPT ![w] = "selected"]
    /\ UNCHANGED <<stages, seed, crew, live, call, stage, begun, events, plans, diverged>>

\* The dry-run half of a selected call: plan(), then advance_preview(), whose
\* index may have been moved past the last stage by another worker.
Plan(w) ==
    LET st == copies[held[w]]
    IN  IF ~go[w].preview THEN UNCHANGED <<copies, plans>>
        ELSE /\ plans' = Append(plans, begun)
             /\ copies' = IF Pending(st) THEN [copies EXCEPT ![held[w]] = AdvancePreview(st)]
                                         ELSE copies

\* What the ChaosEvent keeps of the call, and what the application got from it.
Record(k, c, out) == [stage |-> k, label |-> c.label, shape |-> c.shape,
                      event |-> out.event, got |-> out.got, at |-> begun]

\* The call returns or raises: its thread's locals are gone.
Return(w) ==
    /\ pc' = [pc EXCEPT ![w] = "idle"]
    /\ call' = [call EXCEPT ![w] = NoCall]
    /\ held' = [held EXCEPT ![w] = NoCopy]
    /\ stage' = [stage EXCEPT ![w] = 1]

\* The call goes on in the trigger of stage k.
Enter(w, k, step) ==
    /\ pc' = [pc EXCEPT ![w] = step]
    /\ stage' = [stage EXCEPT ![w] = k]
    /\ UNCHANGED <<call, held>>

\* A stage is done with the call: its counter moves, its event is appended.
Finish(w, k, out) ==
    /\ live' = [live EXCEPT !.fired[k] = out.fired]
    /\ events' = IF out.event = "none" THEN events
                 ELSE Append(events, Record(k, call[w], out))
    /\ diverged' = (diverged \/ out.event = "none")
    /\ IF Cascade /\ out.event # "none" THEN Enter(w, k, "advancing") ELSE Return(w)

\* A stage triggers.  Between "_fired >= budget" and "_fired += 1" another
\* thread may run.
Fire(w, k) ==
    LET out == Trigger(stages[k], call[w], live.fired[k])
    IN  IF Counted(k) /\ out.event # "none"
        THEN Enter(w, k, "counting") /\ UNCHANGED <<live, events, diverged>>
        ELSE Finish(w, k, out)

\* The call's plan and selection are used up.
Spent(w) == Plan(w) /\ go' = [go EXCEPT ![w] = [live |-> FALSE, preview |-> FALSE]]

\* A plain fault: plan in one session, trigger in the other.
Act(w) ==
    /\ pc[w] = "selected" /\ (~Cascade \/ ~go[w].live)
    /\ Spent(w)
    /\ IF go[w].live THEN Fire(w, 1) ELSE Return(w) /\ UNCHANGED <<live, events, diverged>>
    /\ UNCHANGED <<stages, seed, crew, current, begun>>

\* FaultCascade.trigger looks the stage up again; an index past the end raises.
PickStage(w) ==
    /\ pc[w] = "selected" /\ Cascade /\ go[w].live
    /\ Spent(w)
    /\ diverged' = (diverged \/ ~Pending(live))
    /\ IF Pending(live) THEN Enter(w, live.index, "staged") ELSE Return(w)
    /\ UNCHANGED <<stages, seed, crew, live, current, begun, events>>

FireStage(w) ==
    /\ pc[w] = "staged"
    /\ Fire(w, stage[w])
    /\ UNCHANGED <<stages, seed, crew, copies, current, go, begun, plans>>

\* The counter moves from wherever it is by now, and the event is made.
Count(w) ==
    LET k == stage[w]
    IN  /\ pc[w] = "counting"
        /\ Finish(w, k, [Trigger(stages[k], call[w], 0) EXCEPT !.fired = live.fired[k] + 1])
        /\ UNCHANGED <<stages, seed, crew, copies, current, go, begun, plans>>

\* The index moves on when the stage that fired has no more to do.
AdvanceStage(w) ==
    /\ pc[w] = "advancing"
    /\ live' = IF StageOver(stage[w], live.fired[stage[w]])
               THEN [live EXCEPT !.index = @ + 1] ELSE live
    /\ Return(w)
    /\ UNCHANGED <<stages, seed, crew, copies, current, go, begun, events, plans, diverged>>

Done ==
    /\ begun = MaxCalls /\ \A w \in Workers : pc[w] = "idle"
    /\ UNCHANGED vars

Next ==
    \/ \E w \in crew : \/ \E c \in CallSet : Select(w, c)
                       \/ MakeCopy(w)
                       \/ Act(w)
                       \/ PickStage(w)
                       \/ FireStage(w)
                       \/ Count(w)
                       \/ AdvanceStage(w)
    \/ Done

Spec == Init /\ [][Next]_vars

-----------------------------------------------------------------------------
Alone == Cardinality(crew) = 1
Idle == \A w \in Workers : pc[w] = "idle"
EventsOf(k) == {i \in DOMAIN events : events[i].stage = k}
Budget(k) == IF Counted(k) THEN stages[k].budget ELSE MaxCalls

\* Every variable stays in its set; without concurrency the cascade's index
\* never passes the position after its last stage.
FaultsTypeOK ==
    /\ stages \in Campaigns /\ crew \subseteq Workers
    /\ live.fired \in [DOMAIN stages -> 0..MaxCalls]
    /\ live.drawn \in [DOMAIN stages -> 0..MaxCalls]
    /\ live.index \in 1..(Len(stages) + Cardinality(crew))
    /\ \A w \in Workers : copies[w].fired \in [DOMAIN stages -> 0..MaxCalls]
    /\ current \in Workers \union {NoCopy}
    /\ pc \in [Workers -> {"idle", "copying", "selected", "staged", "counting", "advancing"}]
    /\ begun \in 0..MaxCalls /\ Len(events) <= MaxCalls /\ Len(plans) <= MaxCalls

\* A dry run plans exactly the injections the live run makes, call by call, as
\* docs/safety.md promises of the preview, when calls do not overlap and every
\* selected live call ended with its event.
PreviewPredicts ==
    (Alone /\ Idle /\ ~diverged) => plans = [i \in DOMAIN events |-> events[i].at]

\* A burst or a turn budget is exact for one thread and exceeded by at most
\* one injection per further thread that shares the fault: trigger looks at
\* the counter again after the selection, but counts only after looking.  Each
\* thread may publish a preview copy of its own, once, and each copy is
\* exceeded likewise: so many plans may a dry run make at most.
BudgetHolds ==
    /\ \A k \in DOMAIN stages : Cardinality(EventsOf(k)) <= Budget(k) + Cardinality(crew) - 1
    /\ ~Cascade => Len(plans) <= Cardinality(crew) * (Budget(1) + Cardinality(crew) - 1)

\* Without concurrency a cascade fires its first stage until it is over and
\* only then its second one, each as often as its kind says, and no call meets
\* an index past the end.
CascadeInOrder ==
    (Cascade /\ Alone) =>
        /\ \A k \in {1, 2} : Cardinality(EventsOf(k)) <=
               IF stages[k].type = "rate_limit_storm" THEN stages[k].budget ELSE 1
        /\ \A i \in EventsOf(2) : \A j \in EventsOf(1) : j < i
        /\ EventsOf(2) # {} /\ stages[1].type = "rate_limit_storm" =>
               Cardinality(EventsOf(1)) = stages[1].budget
        /\ live.index \in 1..3

\* An event tells what happened to the call: errored means the application got
\* an exception, delayed the genuine response, looped and degraded something
\* else, unless the corruption found nothing to change.  It was in the scope
\* and the target of the stage that fired, unless another thread moved a
\* cascade on between the selection and the trigger.
EventTruth ==
    FaultsTypeOK /\ \A i \in DOMAIN events :
        LET e == events[i]
            f == stages[e.stage]
        IN  /\ e.event = "errored" <=> e.got = "raised"
            /\ e.event = "delayed" => e.got = "genuine"
            /\ (e.event \in {"looped", "degraded"} /\ e.got = "genuine") =>
                   f.type \in {"silent_degradation", "memory_corruption"} /\ e.shape # "prose"
            /\ (Alone \/ ~Cascade) => e.label \in f.scope
            /\ f.type \in {"tool_failure", "handoff_corruption"} => e.label \in f.target
=============================================================================
