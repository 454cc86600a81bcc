---------------------------- MODULE FaultsProofs ----------------------------
(***************************************************************************)
(* Proofs about the built-in faults: types, the truth of the events, the   *)
(* budgets, the order of a cascade and what a preview predicts.            *)
(***************************************************************************)
EXTENDS Faults, FiniteSetTheorems, SequenceTheorems, TLAPS

Steps == {"idle", "copying", "selected", "staged", "counting", "advancing"}
Kinds == {"errored", "delayed", "degraded", "looped"}
Received == {"raised", "genuine", "altered", "nothing", "continue_value",
             "answer_to_corrupted_payload"}

\* The state of a configured fault, or of a preview copy of it.
State == [fired : [DOMAIN stages -> Nat], index : Nat \ {0}, drawn : [DOMAIN stages -> Nat]]

Event == [stage : DOMAIN stages, label : Labels, shape : Shapes, event : Kinds,
          got : Received, at : Nat]

Typed ==
    /\ stages \in Campaigns
    /\ seed \in [1..MaxCalls -> BOOLEAN]
    /\ crew \subseteq Workers /\ crew # {}
    /\ live \in State /\ copies \in [Workers -> State]
    /\ current \in Workers \union {NoCopy}
    /\ pc \in [Workers -> Steps]
    /\ call \in [Workers -> CallSet \union {NoCall}]
    /\ go \in [Workers -> [live : BOOLEAN, preview : BOOLEAN]]
    /\ held \in [Workers -> Workers \union {NoCopy}]
    /\ stage \in [Workers -> DOMAIN stages]
    /\ begun \in 0..MaxCalls
    /\ events \in Seq(Event) /\ plans \in Seq(Nat) /\ diverged \in BOOLEAN
    /\ \A w \in Workers : pc[w] # "idle" => w \in crew /\ call[w] \in CallSet /\ begun > 0
    /\ \A w \in Workers : pc[w] = "selected" /\ go[w].preview => held[w] \in Workers

-----------------------------------------------------------------------------
(* What a trigger makes of a call.                                         *)

\* The outcome of every built-in fault: it says truly what the application got, and
\* moves its counter by one at most, which only a counted or a decaying fault does.
Truthful(f, c, out) ==
    /\ out.event = "errored" => out.got = "raised"
    /\ out.event \in Kinds /\ out.got = "raised" => out.event = "errored"
    /\ out.event = "delayed" => out.got = "genuine"
    /\ (out.event \in {"looped", "degraded"} /\ out.got = "genuine") =>
           f.type \in {"silent_degradation", "memory_corruption"} /\ c.shape # "prose"
    /\ f.type \in {"tool_failure", "handoff_corruption"} /\ out.event # "none" =>
           c.label \in f.target

LEMMA TriggerTrue ==
    ASSUME NEW f \in FaultSet, NEW c \in CallSet, NEW n \in Nat
    PROVE  /\ Trigger(f, c, n) \in [event : Kinds \union {"none"}, got : Received, fired : {n, n + 1}]
           /\ Truthful(f, c, Trigger(f, c, n))
<1>1. f.type \in {"token_timeout", "rate_limit_storm", "silent_degradation",
                  "tool_failure", "memory_corruption", "handoff_corruption",
                  "infinite_loop", "poisoned_response", "auth_error", "context_length"}
  BY DEF FaultSet
<1> USE DEF Outcome, PassThrough, AfterTarget, Corrupted, Truthful, Kinds, Received, Textual, CallSet
<1>2. CASE f.type = "token_timeout"
  <2>1. Trigger(f, c, n) = TokenTimeout(f, c, n)
    BY <1>2, Zenon DEF Trigger
  <2> QED
    BY <1>2, <2>1 DEF TokenTimeout
<1>3. CASE f.type = "rate_limit_storm"
  <2>1. Trigger(f, c, n) = RateLimitStorm(f, c, n)
    BY <1>3, Zenon DEF Trigger
  <2> QED
    BY <1>3, <2>1 DEF RateLimitStorm
<1>4. CASE f.type = "silent_degradation"
  <2>1. Trigger(f, c, n) = SilentDegradation(f, c, n)
    BY <1>4, Zenon DEF Trigger
  <2> QED
    BY <1>4, <2>1 DEF SilentDegradation
<1>5. CASE f.type = "tool_failure"
  <2>1. Trigger(f, c, n) = ToolCallFailure(f, c, n)
    BY <1>5, Zenon DEF Trigger
  <2> QED
    BY <1>5, <2>1 DEF ToolCallFailure
<1>6. CASE f.type = "memory_corruption"
  <2>1. Trigger(f, c, n) = MemoryCorruption(f, c, n)
    BY <1>6, Zenon DEF Trigger
  <2> QED
    BY <1>6, <2>1 DEF MemoryCorruption
<1>7. CASE f.type = "handoff_corruption"
  <2>1. Trigger(f, c, n) = HandoffCorruption(f, c, n)
    BY <1>7, Zenon DEF Trigger
  <2> QED
    BY <1>7, <2>1 DEF HandoffCorruption
<1>8. CASE f.type = "infinite_loop"
  <2>1. Trigger(f, c, n) = InfiniteLoop(f, c, n)
    BY <1>8, Zenon DEF Trigger
  <2> QED
    BY <1>8, <2>1 DEF InfiniteLoop
<1>9. CASE f.type = "poisoned_response"
  <2>1. Trigger(f, c, n) = PoisonedResponse(f, c, n)
    BY <1>9, Zenon DEF Trigger
  <2> QED
    BY <1>9, <2>1 DEF PoisonedResponse
<1>10. CASE f.type = "auth_error"
  <2>1. Trigger(f, c, n) = AuthError(f, c, n)
    BY <1>10, Zenon DEF Trigger
  <2> QED
    BY <1>10, <2>1 DEF AuthError
<1>11. CASE f.type = "context_length"
  <2>1. Trigger(f, c, n) = ContextLength(f, c, n)
    BY <1>11, Zenon DEF Trigger
  <2> QED
    BY <1>11, <2>1 DEF ContextLength
<1> QED
  BY <1>1, <1>2, <1>3, <1>4, <1>5, <1>6, <1>7, <1>8, <1>9, <1>10, <1>11

-----------------------------------------------------------------------------
(* Types.                                                                  *)

\* A campaign has one stage or two, each of them a fault.
LEMMA CampaignType ==
    ASSUME stages \in Campaigns
    PROVE  /\ DOMAIN stages = 1..Len(stages) /\ Len(stages) \in {1, 2} /\ 1 \in DOMAIN stages
           /\ \A k \in DOMAIN stages : stages[k] \in FaultSet
           /\ Cascade => DOMAIN stages = {1, 2}
           /\ ~Cascade => DOMAIN stages = {1}
<1>1. stages \in Seq(FaultSet) /\ Len(stages) \in {1, 2}
  BY FaultsAssumption
<1>2. DOMAIN stages = 1..Len(stages)
  BY <1>1
<1>3. \A k \in DOMAIN stages : stages[k] \in FaultSet
  BY <1>1, <1>2
<1> QED
  BY <1>1, <1>2, <1>3 DEF Cascade

LEMMA FreshType ==
    Fresh \in State
  BY DEF Fresh, State

\* A draw and an advance keep the type of a fault's state.
LEMMA StateMoves ==
    ASSUME stages \in Campaigns, NEW st \in State, NEW c
    PROVE  /\ Drawn(c, st) \in State
           /\ Pending(st) => AdvancePreview(st) \in State
<1>1. ASSUME Pending(st)
      PROVE  [st EXCEPT !.drawn[st.index] = @ + 1] \in State
  BY <1>1 DEF State, Pending
<1>2. ASSUME Pending(st)
      PROVE  AdvancePreview(st) \in State
  <2> DEFINE k == st.index
             n == IF Counted(k) THEN st.fired[k] + 1 ELSE st.fired[k]
             i == IF Cascade /\ StageOver(k, n) THEN k + 1 ELSE k
  <2>1. k \in DOMAIN st.fired /\ n \in Nat /\ i \in Nat \ {0}
    BY <1>2 DEF State, Pending
  <2>2. AdvancePreview(st) = [st EXCEPT !.fired[k] = n, !.index = i]
    BY DEF AdvancePreview
  <2> HIDE DEF k, n, i
  <2> QED
    BY <2>1, <2>2 DEF State
<1> QED
  BY <1>1, <1>2 DEF Drawn, Draws

\* A stage that is done with a call leaves the types as they are.
LEMMA FinishTyped ==
    ASSUME Typed, NEW w \in crew, NEW k \in DOMAIN stages, pc[w] # "idle",
           NEW out \in [event : Kinds \union {"none"}, got : Received, fired : Nat],
           Finish(w, k, out)
    PROVE  /\ live' \in State /\ events' \in Seq(Event) /\ diverged' \in BOOLEAN
           /\ pc' \in [Workers -> Steps] /\ call' \in [Workers -> CallSet \union {NoCall}]
           /\ held' \in [Workers -> Workers \union {NoCopy}]
           /\ stage' \in [Workers -> DOMAIN stages]
           /\ \A v \in Workers \ {w} : pc'[v] = pc[v] /\ call'[v] = call[v] /\ held'[v] = held[v]
           /\ pc'[w] \in {"idle", "advancing"} /\ (pc'[w] = "advancing" => call'[w] = call[w])
<1>1. w \in Workers /\ 1 \in DOMAIN stages
  BY CampaignType DEF Typed
<1>2. live' \in State
  BY DEF Finish, Typed, State
<1>3. events' \in Seq(Event)
  <2>1. CASE out.event = "none"
    BY <2>1 DEF Finish, Typed
  <2>2. CASE out.event # "none"
    <3>1. Record(k, call[w], out) \in Event
      BY <2>2, <1>1 DEF Record, Event, Typed, CallSet
    <3> QED
      BY <2>2, <3>1, AppendProperties DEF Finish, Typed
  <2> QED
    BY <2>1, <2>2
<1>4. CASE Cascade /\ out.event # "none"
  <2>1. /\ pc' = [pc EXCEPT ![w] = "advancing"] /\ stage' = [stage EXCEPT ![w] = k]
        /\ call' = call /\ held' = held /\ diverged' \in BOOLEAN
    BY <1>4 DEF Finish, Enter, Typed
  <2> QED
    BY <1>1, <1>2, <1>3, <2>1 DEF Typed, Steps
<1>5. CASE ~(Cascade /\ out.event # "none")
  <2>1. /\ pc' = [pc EXCEPT ![w] = "idle"] /\ stage' = [stage EXCEPT ![w] = 1]
        /\ call' = [call EXCEPT ![w] = NoCall] /\ held' = [held EXCEPT ![w] = NoCopy]
        /\ diverged' \in BOOLEAN
    BY <1>5 DEF Finish, Return, Typed
  <2> QED
    BY <1>1, <1>2, <1>3, <2>1 DEF Typed, Steps
<1> QED
  BY <1>4, <1>5

\* What the trigger of a call under way returns, and that it may be entered.
LEMMA FireTyped ==
    ASSUME Typed, NEW w \in crew, NEW k \in DOMAIN stages, pc[w] # "idle", NEW n \in Nat
    PROVE  /\ Trigger(stages[k], call[w], n) \in
                 [event : Kinds \union {"none"}, got : Received, fired : {n, n + 1}]
           /\ Truthful(stages[k], call[w], Trigger(stages[k], call[w], n))
           /\ live.fired[k] \in Nat
<1>1. stages[k] \in FaultSet /\ call[w] \in CallSet
  BY CampaignType DEF Typed
<1> QED
  BY <1>1, TriggerTrue DEF Typed, State

\* A plan keeps the types.
LEMMA PlanTyped ==
    ASSUME Typed, NEW w \in crew, pc[w] = "selected", Plan(w)
    PROVE  copies' \in [Workers -> State] /\ plans' \in Seq(Nat)
<1>1. CASE ~go[w].preview
  BY <1>1 DEF Plan, Typed
<1>2. CASE go[w].preview
  <2>1. held[w] \in Workers /\ copies[held[w]] \in State /\ stages \in Campaigns
    BY <1>2 DEF Typed
  <2>2. Pending(copies[held[w]]) => AdvancePreview(copies[held[w]]) \in State
    BY <2>1, StateMoves
  <2>3. copies' \in [Workers -> State]
    BY <1>2, <2>1, <2>2 DEF Plan, Typed
  <2>4. begun \in Nat /\ plans \in Seq(Nat) /\ plans' = Append(plans, begun)
    BY <1>2, FaultsAssumption DEF Plan, Typed
  <2> QED
    BY <2>3, <2>4, AppendProperties
<1> QED
  BY <1>1, <1>2

\* A call that returns leaves the other threads alone.
LEMMA ReturnTyped ==
    ASSUME Typed, NEW w \in crew, Return(w), live' \in State, diverged' \in BOOLEAN,
           copies' \in [Workers -> State], plans' \in Seq(Nat),
           go' \in [Workers -> [live : BOOLEAN, preview : BOOLEAN]],
           \A v \in Workers \ {w} : go'[v] = go[v],
           UNCHANGED <<stages, seed, crew, current, begun, events>>
    PROVE  Typed'
<1>1. w \in Workers /\ State' = State /\ Event' = Event /\ 1 \in DOMAIN stages
  BY CampaignType DEF State, Event, Typed
<1>2. /\ pc' = [pc EXCEPT ![w] = "idle"] /\ call' = [call EXCEPT ![w] = NoCall]
      /\ held' = [held EXCEPT ![w] = NoCopy] /\ stage' = [stage EXCEPT ![w] = 1]
  BY DEF Return
<1>3. /\ pc' \in [Workers -> Steps] /\ call' \in [Workers -> CallSet \union {NoCall}]
      /\ held' \in [Workers -> Workers \union {NoCopy}] /\ stage' \in [Workers -> DOMAIN stages]
  BY <1>1, <1>2 DEF Typed, Steps
<1>4. \A v \in Workers : /\ pc'[v] # "idle" => v \in crew /\ call'[v] \in CallSet /\ begun > 0
                         /\ pc'[v] = "selected" /\ go'[v].preview => held'[v] \in Workers
  BY <1>1, <1>2 DEF Typed
<1> QED
  BY <1>1, <1>3, <1>4 DEF Typed

\* The selections are Booleans.
LEMMA SelectedType ==
    ASSUME NEW st, NEW c
    PROVE  Selected(c, st) \in BOOLEAN
  BY DEF Selected

\* Every step keeps the types.
LEMMA TypedStep ==
    ASSUME Typed, [Next]_vars
    PROVE  Typed'
<1> USE DEF Steps
<1>1. ASSUME NEW w \in crew, NEW c \in CallSet, Select(w, c)
      PROVE  Typed'
  <2> DEFINE peeked == IF current = NoCopy THEN Fresh ELSE copies[current]
             copying == current = NoCopy /\ InScope(c, peeked)
             took == [live |-> Selected(c, live), preview |-> ~copying /\ Selected(c, peeked)]
  <2>1. w \in Workers /\ peeked \in State /\ live \in State /\ stages \in Campaigns
    BY FreshType DEF Typed
  <2>2. Drawn(c, live) \in State /\ Drawn(c, peeked) \in State
    BY <2>1, StateMoves
  <2>3. took \in [live : BOOLEAN, preview : BOOLEAN]
    BY SelectedType
  <2>4. took.preview => current \in Workers
    BY DEF Selected, Typed
  <2>5. /\ live' = Drawn(c, live) /\ go' = [go EXCEPT ![w] = took]
        /\ call' = [call EXCEPT ![w] = c] /\ held' = [held EXCEPT ![w] = current]
        /\ copies' = IF current = NoCopy THEN copies ELSE [copies EXCEPT ![current] = Drawn(c, peeked)]
        /\ pc' = [pc EXCEPT ![w] = IF copying THEN "copying" ELSE "selected"]
        /\ begun' = begun + 1 /\ begun < MaxCalls
        /\ UNCHANGED <<stages, seed, crew, current, stage, events, plans, diverged>>
    BY <1>1 DEF Select
  <2> HIDE DEF peeked, copying, took
  <2>6. live' \in State /\ copies' \in [Workers -> State]
    BY <2>1, <2>2, <2>5 DEF Typed
  <2>7. go' \in [Workers -> [live : BOOLEAN, preview : BOOLEAN]] /\ begun' \in 1..MaxCalls
    BY <2>1, <2>3, <2>5, FaultsAssumption DEF Typed
  <2>8. pc' \in [Workers -> Steps] /\ call' \in [Workers -> CallSet \union {NoCall}]
        /\ held' \in [Workers -> Workers \union {NoCopy}]
    BY <2>1, <2>5 DEF Typed
  <2>9. \A v \in Workers : /\ pc'[v] # "idle" => v \in crew' /\ call'[v] \in CallSet
                           /\ pc'[v] = "selected" /\ go'[v].preview => held'[v] \in Workers
    BY <2>1, <2>4, <2>5 DEF Typed
  <2>10. State' = State /\ Event' = Event
    BY <2>5 DEF State, Event
  <2> QED
    BY <2>5, <2>6, <2>7, <2>8, <2>9, <2>10 DEF Typed
<1>2. ASSUME NEW w \in crew, MakeCopy(w)
      PROVE  Typed'
  <2>1. w \in Workers /\ Drawn(call[w], Fresh) \in State /\ Selected(call[w], Fresh) \in BOOLEAN
    BY FreshType, StateMoves, SelectedType DEF Typed
  <2>2. copies' \in [Workers -> State]
        /\ go' \in [Workers -> [live : BOOLEAN, preview : BOOLEAN]]
    BY <1>2, <2>1 DEF MakeCopy, Typed
  <2>3. /\ pc' = [pc EXCEPT ![w] = "selected"] /\ held' = [held EXCEPT ![w] = w] /\ current' = w
        /\ pc[w] = "copying"
        /\ UNCHANGED <<stages, seed, crew, live, call, stage, begun, events, plans, diverged>>
    BY <1>2 DEF MakeCopy
  <2>4. \A v \in Workers : /\ pc'[v] # "idle" => v \in crew' /\ call'[v] \in CallSet /\ begun' > 0
                           /\ pc'[v] = "selected" /\ go'[v].preview => held'[v] \in Workers
    BY <1>2, <2>1, <2>3 DEF Typed, MakeCopy
  <2>5. pc' \in [Workers -> Steps] /\ held' \in [Workers -> Workers \union {NoCopy}]
    BY <2>1, <2>3 DEF Typed
  <2>6. State' = State /\ Event' = Event
    BY <2>3 DEF State, Event
  <2> QED
    BY <2>1, <2>2, <2>3, <2>4, <2>5, <2>6 DEF Typed
<1>3. ASSUME NEW w \in crew, NEW k \in DOMAIN stages, Fire(w, k), pc[w] # "idle",
             copies' \in [Workers -> State], plans' \in Seq(Nat),
             go' \in [Workers -> [live : BOOLEAN, preview : BOOLEAN]],
             \A v \in Workers \ {w} : go'[v] = go[v],
             UNCHANGED <<stages, seed, crew, current, begun>>
      PROVE  Typed'
  <2> DEFINE out == Trigger(stages[k], call[w], live.fired[k])
  <2>1. w \in Workers /\ State' = State /\ Event' = Event
    BY <1>3 DEF State, Event, Typed
  <2>2. out \in [event : Kinds \union {"none"}, got : Received, fired : Nat]
    <3>1. live.fired[k] \in Nat
      BY <1>3, FireTyped
    <3>2. out \in [event : Kinds \union {"none"}, got : Received,
                  fired : {live.fired[k], live.fired[k] + 1}]
      BY <1>3, <3>1, FireTyped
    <3> HIDE DEF out
    <3> QED
      BY <3>1, <3>2
  <2>3. CASE Counted(k) /\ out.event # "none"
    <3>1. /\ pc' = [pc EXCEPT ![w] = "counting"] /\ stage' = [stage EXCEPT ![w] = k]
          /\ UNCHANGED <<call, held, live, events, diverged>>
      BY <1>3, <2>3 DEF Fire, Enter
    <3>2. pc' \in [Workers -> Steps] /\ stage' \in [Workers -> DOMAIN stages]
      BY <1>3, <3>1 DEF Typed
    <3>3. \A v \in Workers : /\ pc'[v] # "idle" => v \in crew /\ call[v] \in CallSet /\ begun > 0
                             /\ pc'[v] = "selected" /\ go'[v].preview => held'[v] \in Workers
      BY <1>3, <2>1, <3>1 DEF Typed
    <3> QED
      BY <1>3, <2>1, <3>1, <3>2, <3>3 DEF Typed
  <2>4. CASE ~(Counted(k) /\ out.event # "none")
    <3>1. Finish(w, k, out)
      BY <1>3, <2>4 DEF Fire
    <3> HIDE DEF out
    <3> QED
      BY <1>3, <2>1, <2>2, <3>1, FinishTyped DEF Typed
  <2> QED
    BY <2>3, <2>4
<1>4. ASSUME NEW w \in crew, Act(w)
      PROVE  Typed'
  <2>1. w \in Workers /\ pc[w] = "selected" /\ Plan(w) /\ 1 \in DOMAIN stages
        /\ UNCHANGED <<stages, seed, crew, current, begun>>
        /\ go' = [go EXCEPT ![w] = [live |-> FALSE, preview |-> FALSE]]
    BY <1>4, CampaignType DEF Act, Spent, Typed
  <2>2. copies' \in [Workers -> State] /\ plans' \in Seq(Nat)
    BY <2>1, PlanTyped
  <2>3. go' \in [Workers -> [live : BOOLEAN, preview : BOOLEAN]]
        /\ \A v \in Workers \ {w} : go'[v] = go[v]
    BY <2>1 DEF Typed
  <2>4. CASE go[w].live
    <3>1. Fire(w, 1)
      BY <1>4, <2>4 DEF Act
    <3> QED
      BY <1>3, <2>1, <2>2, <2>3, <3>1
  <2>5. CASE ~go[w].live
    <3>1. Return(w) /\ UNCHANGED <<live, events, diverged>>
      BY <1>4, <2>5 DEF Act
    <3>2. live' \in State /\ diverged' \in BOOLEAN
      BY <3>1 DEF Typed
    <3> QED
      BY <2>1, <2>2, <2>3, <3>1, <3>2, ReturnTyped
  <2> QED
    BY <2>4, <2>5
<1>5. ASSUME NEW w \in crew, PickStage(w)
      PROVE  Typed'
  <2>1. w \in Workers /\ pc[w] = "selected" /\ Plan(w)
        /\ UNCHANGED <<stages, seed, crew, live, current, begun, events>>
        /\ go' = [go EXCEPT ![w] = [live |-> FALSE, preview |-> FALSE]]
        /\ diverged' \in BOOLEAN /\ live' \in State
    BY <1>5 DEF PickStage, Spent, Typed
  <2>2. copies' \in [Workers -> State] /\ plans' \in Seq(Nat)
    BY <2>1, PlanTyped
  <2>3. go' \in [Workers -> [live : BOOLEAN, preview : BOOLEAN]]
        /\ \A v \in Workers \ {w} : go'[v] = go[v]
    BY <2>1 DEF Typed
  <2>4. CASE Pending(live)
    <3>1. /\ pc' = [pc EXCEPT ![w] = "staged"] /\ stage' = [stage EXCEPT ![w] = live.index]
          /\ UNCHANGED <<call, held>> /\ live.index \in DOMAIN stages
      BY <1>5, <2>4 DEF PickStage, Enter, Pending
    <3>2. pc' \in [Workers -> Steps] /\ stage' \in [Workers -> DOMAIN stages]
          /\ State' = State /\ Event' = Event
      BY <2>1, <3>1 DEF Typed, State, Event
    <3>3. \A v \in Workers : /\ pc'[v] # "idle" => v \in crew /\ call[v] \in CallSet /\ begun > 0
                             /\ pc'[v] = "selected" /\ go'[v].preview => held'[v] \in Workers
      BY <2>1, <2>3, <3>1 DEF Typed
    <3> QED
      BY <2>1, <2>2, <2>3, <3>1, <3>2, <3>3 DEF Typed
  <2>5. CASE ~Pending(live)
    <3>1. Return(w)
      BY <1>5, <2>5 DEF PickStage
    <3> QED
      BY <2>1, <2>2, <2>3, <3>1, ReturnTyped
  <2> QED
    BY <2>4, <2>5
<1>6. ASSUME NEW w \in crew, FireStage(w)
      PROVE  Typed'
  <2>1. stage[w] \in DOMAIN stages /\ pc[w] # "idle" /\ Fire(w, stage[w])
        /\ UNCHANGED <<stages, seed, crew, copies, current, go, begun, plans>>
    BY <1>6 DEF FireStage, Typed
  <2>2. copies' \in [Workers -> State] /\ plans' \in Seq(Nat)
        /\ go' \in [Workers -> [live : BOOLEAN, preview : BOOLEAN]]
        /\ \A v \in Workers \ {w} : go'[v] = go[v]
    BY <2>1 DEF Typed
  <2> QED
    BY <1>3, <2>1, <2>2
<1>7. ASSUME NEW w \in crew, Count(w)
      PROVE  Typed'
  <2> DEFINE k == stage[w]
             out == [Trigger(stages[k], call[w], 0) EXCEPT !.fired = live.fired[k] + 1]
  <2>1. /\ w \in Workers /\ k \in DOMAIN stages /\ pc[w] = "counting" /\ Finish(w, k, out)
        /\ UNCHANGED <<stages, seed, crew, copies, current, go, begun, plans>>
    BY <1>7 DEF Count, Typed
  <2>2. out \in [event : Kinds \union {"none"}, got : Received, fired : Nat]
    BY <2>1, FireTyped
  <2>3. State' = State /\ Event' = Event
    BY <2>1 DEF State, Event
  <2> HIDE DEF k, out
  <2> QED
    BY <2>1, <2>2, <2>3, FinishTyped DEF Typed
<1>8. ASSUME NEW w \in crew, AdvanceStage(w)
      PROVE  Typed'
  <2>1. Return(w) /\ UNCHANGED <<stages, seed, crew, copies, current, go, begun, events, plans, diverged>>
    BY <1>8 DEF AdvanceStage
  <2>2. live' \in State
    <3>1. live \in State /\ (live' = live \/ live' = [live EXCEPT !.index = @ + 1])
      BY <1>8 DEF AdvanceStage, Typed
    <3> QED
      BY <3>1 DEF State
  <2> QED
    BY <2>1, <2>2, ReturnTyped DEF Typed
<1>9. CASE UNCHANGED vars
  BY <1>9 DEF vars, Typed, State, Event
<1> QED
  BY <1>1, <1>2, <1>4, <1>5, <1>6, <1>7, <1>8, <1>9 DEF Next, Done

LEMMA TypedInit ==
    Init => Typed
<1> SUFFICES ASSUME Init PROVE Typed
  OBVIOUS
<1>1. stages \in Campaigns /\ 1 \in DOMAIN stages /\ Fresh \in State
  BY FreshType, CampaignType DEF Init
<1>2. seed \in [1..MaxCalls -> BOOLEAN]
  BY DEF Init
<1>3. crew \subseteq Workers /\ crew # {}
  BY FaultsAssumption DEF Init
<1>4. /\ live \in State /\ copies \in [Workers -> State]
      /\ pc \in [Workers -> Steps] /\ stage \in [Workers -> DOMAIN stages]
      /\ begun \in 0..MaxCalls /\ events \in Seq(Event) /\ plans \in Seq(Nat)
  BY <1>1, FaultsAssumption DEF Init, Steps
<1> QED
  BY <1>1, <1>2, <1>3, <1>4 DEF Init, Typed

\* What is right of each value by itself: the state of a fault, its copies, the place of
\* each call, events and plans.
THEOREM TypesHold == Spec => []Typed
  BY TypedInit, TypedStep, PTL DEF Spec

-----------------------------------------------------------------------------
(* Counting calls: each moves a counter, leaves an event and leaves a plan *)
(* once at most, and those that have not yet done so are still to come.    *)

At(places) == {w \in Workers : pc[w] \in places}
Bit(b) == IF b THEN 1 ELSE 0

Asked == {"copying", "selected"}
Unfinished == Asked \union {"staged", "counting"}
InStage == {"staged", "counting", "advancing"}

Counts ==
    /\ \A k \in DOMAIN stages : live.fired[k] + Cardinality(At(Unfinished)) <= begun
    /\ Len(events) + Cardinality(At(Unfinished)) <= begun
    /\ Len(plans) + Cardinality(At(Asked)) <= begun
    /\ \A k \in DOMAIN stages : live.drawn[k] <= begun
    /\ \A v \in Workers, k \in DOMAIN stages :
          copies[v].fired[k] + Cardinality(At(Asked)) <= begun
    /\ live.index + Cardinality(At(InStage)) <= Len(stages) + Cardinality(crew)
    /\ ~Cascade => live.index = 1 /\ At({"staged", "advancing"}) = {}

\* Two sets that differ in one element at most.
LEMMA MovedCount ==
    ASSUME NEW A, NEW B, NEW w, IsFiniteSet(A), A \ {w} = B \ {w}
    PROVE  /\ IsFiniteSet(B) /\ Cardinality(A) \in Nat /\ Cardinality(B) \in Nat
           /\ Cardinality(B) = Cardinality(A) + Bit(w \in B) - Bit(w \in A)
<1>1. Cardinality(A) \in Nat
  BY FS_CardinalityType
<1>2. CASE w \in A /\ w \in B
  <2>1. A = B
    BY <1>2
  <2> QED
    BY <1>1, <1>2, <2>1 DEF Bit
<1>3. CASE w \notin A /\ w \notin B
  <2>1. A = B
    BY <1>3
  <2> QED
    BY <1>1, <1>3, <2>1 DEF Bit
<1>4. CASE w \in A /\ w \notin B
  <2>1. B = A \ {w}
    BY <1>4
  <2> QED
    BY <1>1, <1>4, <2>1, FS_RemoveElement, FS_CardinalityType DEF Bit
<1>5. CASE w \notin A /\ w \in B
  <2>1. B = A \union {w}
    BY <1>5
  <2> QED
    BY <1>1, <1>5, <2>1, FS_AddElement, FS_CardinalityType DEF Bit
<1> QED
  BY <1>2, <1>3, <1>4, <1>5

\* One thread moves.
LEMMA MoveCount ==
    ASSUME Typed, NEW w \in Workers, NEW l \in Steps, pc' = [pc EXCEPT ![w] = l], NEW places
    PROVE  /\ Cardinality(At(places)) \in Nat /\ Cardinality(At(places)') \in Nat
           /\ Cardinality(At(places)') =
                 Cardinality(At(places)) + Bit(l \in places) - Bit(pc[w] \in places)
<1>1. IsFiniteSet(At(places))
  BY FS_Subset, FaultsAssumption DEF At
<1>2. At(places) \ {w} = At(places)' \ {w}
  BY DEF At, Typed
<1>3. (w \in At(places) <=> pc[w] \in places) /\ (w \in At(places)' <=> l \in places)
  BY DEF At, Typed
<1> QED
  BY <1>1, <1>2, <1>3, MovedCount DEF Bit

\* Only threads of the crew are in a call, so no more than there are.
LEMMA AtBound ==
    ASSUME Typed, NEW places, "idle" \notin places
    PROVE  /\ Cardinality(At(places)) \in Nat /\ Cardinality(crew) \in Nat \ {0}
           /\ Cardinality(At(places)) <= Cardinality(crew)
<1>1. IsFiniteSet(crew) /\ crew # {}
  BY FS_Subset, FaultsAssumption DEF Typed
<1>2. At(places) \subseteq crew
  BY DEF At, Typed
<1> QED
  BY <1>1, <1>2, FS_Subset, FS_CardinalityType, FS_EmptySet

LEMMA Sizes ==
    ASSUME Typed
    PROVE  /\ Cardinality(crew) \in Nat \ {0} /\ Len(stages) \in Nat \ {0} /\ MaxCalls \in Nat
           /\ begun \in Nat /\ Len(events) \in Nat /\ Len(plans) \in Nat
<1>1. IsFiniteSet(crew) /\ crew # {}
  BY FS_Subset, FaultsAssumption DEF Typed
<1>2. Cardinality(crew) \in Nat \ {0}
  BY <1>1, FS_CardinalityType, FS_EmptySet
<1>3. Len(stages) \in Nat \ {0}
  BY CampaignType DEF Typed
<1> QED
  BY <1>2, <1>3, FaultsAssumption, LenProperties DEF Typed

LEMMA AtBoundNext ==
    ASSUME Typed', UNCHANGED crew
    PROVE  /\ Cardinality(At(InStage)') \in Nat /\ Cardinality(crew) \in Nat \ {0}
           /\ Cardinality(At(InStage)') <= Cardinality(crew)
<1>1. IsFiniteSet(crew) /\ crew # {} /\ crew' = crew
  BY FS_Subset, FaultsAssumption DEF Typed
<1>2. At(InStage)' \subseteq crew
  BY <1>1 DEF At, Typed, InStage
<1> QED
  BY <1>1, <1>2, FS_Subset, FS_CardinalityType, FS_EmptySet

\* What a thread's move from its place to l may add to a number that is bounded by
\* the calls begun, together with the calls still at the places.
Room(w, l, places) == Bit(pc[w] = "idle") + Bit(pc[w] \in places) - Bit(l \in places)

Moves(w, l) ==
    /\ pc' = [pc EXCEPT ![w] = l] /\ UNCHANGED <<stages, crew>>
    /\ begun' = begun + Bit(pc[w] = "idle")
    /\ \A k \in DOMAIN stages : /\ live'.fired[k] <= live.fired[k] + Room(w, l, Unfinished)
                                /\ live'.drawn[k] <= live.drawn[k] + Bit(pc[w] = "idle")
    /\ Len(events') <= Len(events) + Room(w, l, Unfinished)
    /\ Len(plans') <= Len(plans) + Room(w, l, Asked)
    /\ \A v \in Workers, k \in DOMAIN stages :
          \/ copies'[v].fired[k] <= copies[v].fired[k] + Room(w, l, Asked)
          \/ copies'[v].fired[k] = 0
    /\ \/ live'.index <= Len(stages)
       \/ live'.index <= live.index + Bit(pc[w] \in InStage) - Bit(l \in InStage)
    /\ ~Cascade => live'.index = 1 /\ l \notin {"staged", "advancing"}

\* The arithmetic of such a move: a number that is bounded together with the calls
\* still at some places, and the index of a cascade.
LEMMA RoomAdds ==
    ASSUME NEW w, NEW l, NEW places, NEW i \in {0, 1}, NEW n \in Nat, NEW m \in Nat, begun \in Nat,
           Cardinality(At(places)) \in Nat, Cardinality(At(places)') \in Nat, Room(w, l, places) \in Int,
           Cardinality(At(places)') = Cardinality(At(places)) + i - Room(w, l, places),
           n + Cardinality(At(places)) <= begun, m <= n + Room(w, l, places)
    PROVE  m + Cardinality(At(places)') <= begun + i
  OBVIOUS

LEMMA DrawAdds ==
    ASSUME NEW i \in {0, 1}, NEW n \in Nat, NEW m \in Nat, begun \in Nat, n <= begun, m <= n + i
    PROVE  m <= begun + i
  OBVIOUS

LEMMA IndexAdds ==
    ASSUME NEW w, NEW l,
           Cardinality(At(InStage)) \in Nat, Cardinality(At(InStage)') \in Nat, Cardinality(crew) \in Nat, Len(stages) \in Nat,
           Cardinality(At(InStage)') <= Cardinality(crew), live.index \in Nat, live'.index \in Nat,
           live.index + Cardinality(At(InStage)) <= Len(stages) + Cardinality(crew),
           \/ live'.index <= Len(stages)
           \/ live'.index <= live.index + Bit(pc[w] \in InStage) - Bit(l \in InStage),
           Bit(l \in InStage) \in {0, 1}, Bit(pc[w] \in InStage) \in {0, 1},
           Cardinality(At(InStage)') = Cardinality(At(InStage)) + Bit(l \in InStage) - Bit(pc[w] \in InStage)
    PROVE  live'.index + Cardinality(At(InStage)') <= Len(stages) + Cardinality(crew)
  OBVIOUS

\* Such moves keep the counts.
LEMMA CountsMove ==
    ASSUME Typed, Typed', Counts, NEW w \in crew, NEW l \in Steps, Moves(w, l)
    PROVE  Counts'
<1> DEFINE i == Bit(pc[w] = "idle")
<1>1. w \in Workers /\ pc[w] \in Steps /\ pc' = [pc EXCEPT ![w] = l]
  BY DEF Typed, Moves
<1>2. /\ begun \in Nat /\ Len(events) \in Nat /\ Len(events') \in Nat
      /\ Len(plans) \in Nat /\ Len(plans') \in Nat /\ Len(stages) \in Nat
  BY CampaignType, FaultsAssumption, LenProperties DEF Typed
<1>3. /\ DOMAIN stages' = DOMAIN stages /\ Len(stages') = Len(stages) /\ crew' = crew
      /\ (Cascade' <=> Cascade) /\ begun' = begun + i /\ i \in {0, 1}
  BY DEF Moves, Cascade, Bit
<1>4. ASSUME NEW places
      PROVE  /\ Cardinality(At(places)) \in Nat /\ Cardinality(At(places)') \in Nat
             /\ Cardinality(At(places)') = Cardinality(At(places)) + i - Room(w, l, places)
             /\ Room(w, l, places) \in Int
  <2>1. /\ Cardinality(At(places)) \in Nat /\ Cardinality(At(places)') \in Nat
        /\ Cardinality(At(places)') = Cardinality(At(places)) + Bit(l \in places) - Bit(pc[w] \in places)
    BY <1>1, MoveCount
  <2>2. Bit(l \in places) \in {0, 1} /\ Bit(pc[w] \in places) \in {0, 1}
    BY DEF Bit
  <2> HIDE DEF i
  <2> QED
    BY <1>3, <2>1, <2>2 DEF Room, i
<1> HIDE DEF i
<1>5. /\ Cardinality(At(Unfinished)) \in Nat /\ Cardinality(At(Unfinished)') \in Nat
      /\ Cardinality(At(Unfinished)') = Cardinality(At(Unfinished)) + i - Room(w, l, Unfinished)
      /\ Cardinality(At(Asked)) \in Nat /\ Cardinality(At(Asked)') \in Nat
      /\ Cardinality(At(Asked)') = Cardinality(At(Asked)) + i - Room(w, l, Asked)
      /\ Room(w, l, Unfinished) \in Int /\ Room(w, l, Asked) \in Int
  BY <1>4
<1>6. /\ \A k \in DOMAIN stages : /\ live.fired[k] \in Nat /\ live'.fired[k] \in Nat
                                  /\ live.drawn[k] \in Nat /\ live'.drawn[k] \in Nat
      /\ \A v \in Workers, k \in DOMAIN stages :
            copies[v].fired[k] \in Nat /\ copies'[v].fired[k] \in Nat
  <2>1. live \in State /\ live' \in State /\ copies \in [Workers -> State] /\ copies' \in [Workers -> State]
    BY <1>3 DEF Typed, State
  <2> QED
    BY <2>1 DEF State
<1>7. /\ Len(events') + Cardinality(At(Unfinished)') <= begun + i
      /\ Len(plans') + Cardinality(At(Asked)') <= begun + i
  <2>1. /\ Len(events') <= Len(events) + Room(w, l, Unfinished)
        /\ Len(plans') <= Len(plans) + Room(w, l, Asked)
    BY DEF Moves
  <2>2. Len(events) + Cardinality(At(Unfinished)) <= begun /\ Len(plans) + Cardinality(At(Asked)) <= begun
    BY DEF Counts
  <2>3. Len(events') + Cardinality(At(Unfinished)') <= begun + i
    BY <1>2, <1>3, <1>5, <2>1, <2>2, RoomAdds
  <2>4. Len(plans') + Cardinality(At(Asked)') <= begun + i
    BY <1>2, <1>3, <1>5, <2>1, <2>2, RoomAdds
  <2> QED
    BY <2>3, <2>4
<1>8. \A k \in DOMAIN stages : /\ live'.fired[k] + Cardinality(At(Unfinished)') <= begun + i
                               /\ live'.drawn[k] <= begun + i
  <2>1. \A k \in DOMAIN stages : live'.fired[k] <= live.fired[k] + Room(w, l, Unfinished)
    BY DEF Moves
  <2>2. \A k \in DOMAIN stages : live'.drawn[k] <= live.drawn[k] + i
    BY DEF Moves, i
  <2>3. \A k \in DOMAIN stages : live.fired[k] + Cardinality(At(Unfinished)) <= begun /\ live.drawn[k] <= begun
    BY DEF Counts
  <2>4. ASSUME NEW k \in DOMAIN stages
        PROVE  live'.fired[k] + Cardinality(At(Unfinished)') <= begun + i
    <3>1. /\ live.fired[k] \in Nat /\ live'.fired[k] \in Nat
          /\ live'.fired[k] <= live.fired[k] + Room(w, l, Unfinished)
          /\ live.fired[k] + Cardinality(At(Unfinished)) <= begun
      BY <1>6, <2>1, <2>3
    <3> QED
      BY <1>2, <1>3, <1>5, <3>1, RoomAdds
  <2>5. ASSUME NEW k \in DOMAIN stages
        PROVE  live'.drawn[k] <= begun + i
    <3>1. /\ live.drawn[k] \in Nat /\ live'.drawn[k] \in Nat
          /\ live'.drawn[k] <= live.drawn[k] + i /\ live.drawn[k] <= begun
      BY <1>6, <2>2, <2>3
    <3> QED
      BY <1>2, <1>3, <3>1, DrawAdds
  <2> QED
    BY <2>4, <2>5
<1>9. \A v \in Workers, k \in DOMAIN stages : copies'[v].fired[k] + Cardinality(At(Asked)') <= begun + i
  <2>1. \A v \in Workers, k \in DOMAIN stages :
           copies'[v].fired[k] <= copies[v].fired[k] + Room(w, l, Asked) \/ copies'[v].fired[k] = 0
    BY DEF Moves
  <2>2. \A v \in Workers, k \in DOMAIN stages : copies[v].fired[k] + Cardinality(At(Asked)) <= begun
    BY DEF Counts
  <2> SUFFICES ASSUME NEW v \in Workers, NEW k \in DOMAIN stages
               PROVE  copies'[v].fired[k] + Cardinality(At(Asked)') <= begun + i
    OBVIOUS
  <2>3. /\ copies[v].fired[k] \in Nat /\ copies'[v].fired[k] \in Nat
        /\ copies[v].fired[k] + Cardinality(At(Asked)) <= begun
    BY <1>6, <2>2
  <2>4. CASE copies'[v].fired[k] <= copies[v].fired[k] + Room(w, l, Asked)
    BY <1>2, <1>3, <1>5, <2>3, <2>4, RoomAdds
  <2>5. CASE copies'[v].fired[k] = 0
    <3>1. Len(plans') \in Nat /\ Len(plans') + Cardinality(At(Asked)') <= begun + i
      BY <1>2, <1>7
    <3>2. 0 + Cardinality(At(Asked)') <= begun + i
      BY <1>2, <1>3, <1>5, <3>1
    <3> QED
      BY <2>5, <3>2
  <2> QED
    BY <2>1, <2>4, <2>5
<1>10. live'.index + Cardinality(At(InStage)') <= Len(stages) + Cardinality(crew)
  <2>1. /\ Cardinality(At(InStage)') \in Nat /\ Cardinality(crew) \in Nat
        /\ Cardinality(At(InStage)') <= Cardinality(crew)
    BY <1>3, AtBoundNext
  <2>2. live.index \in Nat /\ live'.index \in Nat
    BY DEF Typed, State
  <2>3. live.index + Cardinality(At(InStage)) <= Len(stages) + Cardinality(crew)
    BY DEF Counts
  <2>4. \/ live'.index <= Len(stages)
        \/ live'.index <= live.index + Bit(pc[w] \in InStage) - Bit(l \in InStage)
    BY DEF Moves
  <2>5. Bit(l \in InStage) \in {0, 1} /\ Bit(pc[w] \in InStage) \in {0, 1}
    BY DEF Bit
  <2>6. Cardinality(At(InStage)) \in Nat
        /\ Cardinality(At(InStage)') = Cardinality(At(InStage)) + Bit(l \in InStage) - Bit(pc[w] \in InStage)
    BY <1>1, MoveCount
  <2> QED
    BY <1>2, <2>1, <2>2, <2>3, <2>4, <2>5, <2>6, IndexAdds
<1>11. ~Cascade => live'.index = 1 /\ At({"staged", "advancing"})' = {}
  BY <1>1 DEF Counts, Moves, At, Typed
<1>12. /\ Len(events') + Cardinality(At(Unfinished)') <= begun'
       /\ Len(plans') + Cardinality(At(Asked)') <= begun'
       /\ \A k \in DOMAIN stages : /\ live'.fired[k] + Cardinality(At(Unfinished)') <= begun'
                                   /\ live'.drawn[k] <= begun'
       /\ \A v \in Workers, k \in DOMAIN stages : copies'[v].fired[k] + Cardinality(At(Asked)') <= begun'
  BY <1>3, <1>7, <1>8, <1>9, Zenon
<1> QED
  BY <1>3, <1>10, <1>11, <1>12 DEF Counts

\* The room a move leaves, by the place it starts from.
LEMMA RoomOf ==
    ASSUME NEW w, NEW l
    PROVE  /\ pc[w] = "selected" /\ l \in InStage \union {"idle"} => Room(w, l, Asked) = 1
           /\ pc[w] \in InStage /\ l \in InStage \union {"idle"} => Room(w, l, Asked) = 0
           /\ pc[w] \in {"selected", "staged", "counting"} /\ l \in {"advancing", "idle"} =>
                 Room(w, l, Unfinished) = 1
           /\ pc[w] \in {"selected", "staged", "counting"} /\ l \in {"staged", "counting"} =>
                 Room(w, l, Unfinished) = 0
           /\ pc[w] = "advancing" /\ l = "idle" => Room(w, l, Unfinished) = 0
           /\ pc[w] = "idle" /\ l \in Asked => Room(w, l, Unfinished) = 0 /\ Room(w, l, Asked) = 0
           /\ pc[w] = "copying" /\ l = "selected" =>
                 Room(w, l, Unfinished) = 0 /\ Room(w, l, Asked) = 0
  BY DEF Room, Bit, Asked, Unfinished, InStage

\* A plan adds itself, and one to the counter of one copy at most.
LEMMA PlanCounts ==
    ASSUME Typed, NEW w \in crew, pc[w] = "selected", Plan(w)
    PROVE  /\ Len(plans') \in Nat /\ Len(plans) \in Nat /\ Len(plans') <= Len(plans) + 1
           /\ \A v \in Workers, k \in DOMAIN stages :
                 copies'[v].fired[k] <= copies[v].fired[k] + 1
<1>1. \A v \in Workers, k \in DOMAIN stages : copies[v].fired[k] \in Nat
  BY DEF Typed, State
<1>2. CASE ~go[w].preview
  BY <1>1, <1>2, LenProperties DEF Plan, Typed
<1>3. CASE go[w].preview
  <2> DEFINE st == copies[held[w]]
  <2>1. held[w] \in Workers /\ st \in State /\ begun \in Nat
    BY <1>3, FaultsAssumption DEF Typed
  <2>2. Len(plans) \in Nat /\ Len(plans') = Len(plans) + 1
    BY <1>3, <2>1, AppendProperties, LenProperties DEF Plan, Typed
  <2>3. CASE ~Pending(st)
    BY <1>1, <1>3, <2>2, <2>3 DEF Plan
  <2>4. CASE Pending(st)
    <3>1. copies' = [copies EXCEPT ![held[w]] = AdvancePreview(st)]
      BY <1>3, <2>4 DEF Plan
    <3>2. \A k \in DOMAIN stages : AdvancePreview(st).fired[k] <= st.fired[k] + 1
      BY <2>1, <2>4 DEF AdvancePreview, State, Pending
    <3>3. \A v \in Workers : copies'[v] = copies[v] \/ (v = held[w] /\ copies'[v] = AdvancePreview(st))
      BY <2>1, <3>1 DEF Typed
    <3> QED
      BY <1>1, <2>1, <2>2, <3>2, <3>3
  <2> QED
    BY <2>3, <2>4
<1> QED
  BY <1>2, <1>3

\* What a stage that is done with a call moves.
LEMMA FinishCounts ==
    ASSUME Typed, NEW w \in crew, NEW k \in DOMAIN stages, NEW out, Finish(w, k, out),
           out \in [event : Kinds \union {"none"}, got : Received, fired : Nat],
           out.fired <= live.fired[k] + 1
    PROVE  /\ live'.index = live.index /\ live'.drawn = live.drawn
           /\ \A j \in DOMAIN stages : live'.fired[j] <= live.fired[j] + 1
           /\ Len(events) \in Nat /\ Len(events') \in Nat /\ Len(events') <= Len(events) + 1
           /\ \/ pc' = [pc EXCEPT ![w] = "idle"]
              \/ pc' = [pc EXCEPT ![w] = "advancing"] /\ Cascade
<1>1. live' = [live EXCEPT !.fired[k] = out.fired] /\ live \in State
  BY DEF Finish, Typed
<1>2. \A j \in DOMAIN stages : live'.fired[j] <= live.fired[j] + 1
  BY <1>1 DEF State
<1>3. live'.index = live.index /\ live'.drawn = live.drawn
  BY <1>1 DEF State
<1>4. Len(events) \in Nat /\ Len(events') \in Nat /\ Len(events') <= Len(events) + 1
  <2>1. events \in Seq(Event) /\ Len(events) \in Nat
    BY LenProperties DEF Typed
  <2>2. CASE out.event = "none"
    BY <2>1, <2>2 DEF Finish
  <2>3. CASE out.event # "none"
    <3>1. w \in Workers /\ call[w] \in CallSet \union {NoCall}
      BY DEF Typed
    <3>2. events' = Append(events, Record(k, call[w], out))
      BY <2>3 DEF Finish
    <3>3. Len(events') = Len(events) + 1
      BY <2>1, <3>2
    <3> QED
      BY <2>1, <3>3
  <2> QED
    BY <2>2, <2>3
<1>5. \/ pc' = [pc EXCEPT ![w] = "idle"]
      \/ pc' = [pc EXCEPT ![w] = "advancing"] /\ Cascade
  BY DEF Finish, Enter, Return
<1> QED
  BY <1>2, <1>3, <1>4, <1>5

\* What plans and copies may gain from a call that leaves its place.
Gains(w) ==
    LET r == Bit(pc[w] = "selected")
    IN  /\ Len(plans') <= Len(plans) + r
        /\ \A v \in Workers, k \in DOMAIN stages :
              copies'[v].fired[k] <= copies[v].fired[k] + r

LEMMA FinishMoves ==
    ASSUME Typed, Counts, NEW w \in crew, NEW k \in DOMAIN stages, NEW out, Finish(w, k, out),
           out \in [event : Kinds \union {"none"}, got : Received, fired : Nat],
           out.fired <= live.fired[k] + 1, Gains(w), UNCHANGED <<stages, crew, begun>>,
           pc[w] \in {"selected", "staged", "counting"}, pc[w] = "selected" => ~Cascade
    PROVE  \E l \in Steps : Moves(w, l)
<1>1. /\ live'.index = live.index /\ live'.drawn = live.drawn
      /\ \A j \in DOMAIN stages : live'.fired[j] <= live.fired[j] + 1
      /\ Len(events) \in Nat /\ Len(events') \in Nat /\ Len(events') <= Len(events) + 1
      /\ \/ pc' = [pc EXCEPT ![w] = "idle"]
         \/ pc' = [pc EXCEPT ![w] = "advancing"] /\ Cascade
  BY FinishCounts
<1>2. PICK l \in {"idle", "advancing"} : pc' = [pc EXCEPT ![w] = l] /\ (l = "advancing" => Cascade)
  BY <1>1
<1>3. /\ Room(w, l, Unfinished) = 1 /\ Room(w, l, Asked) = Bit(pc[w] = "selected")
      /\ Bit(pc[w] = "idle") = 0
      /\ Bit(l \in InStage) <= Bit(pc[w] \in InStage)
      /\ Bit(l \in InStage) \in {0, 1} /\ Bit(pc[w] \in InStage) \in {0, 1}
  BY <1>2, RoomOf DEF Bit, InStage
<1>4. begun \in Nat /\ live \in State /\ begun' = begun
  BY FaultsAssumption DEF Typed
<1>5. \A j \in DOMAIN stages : live'.drawn[j] <= live.drawn[j] + 0
  BY <1>1, <1>4 DEF State
<1>6. live'.index <= live.index + Bit(pc[w] \in InStage) - Bit(l \in InStage)
  BY <1>1, <1>3, <1>4 DEF State
<1>7. ~Cascade => live'.index = 1 /\ l \notin {"staged", "advancing"}
  BY <1>1, <1>2 DEF Counts
<1>8. begun' = begun + 0
  BY <1>4
<1> QED
  BY <1>1, <1>2, <1>3, <1>5, <1>6, <1>7, <1>8 DEF Moves, Gains, Steps

LEMMA FireMoves ==
    ASSUME Typed, Counts, NEW w \in crew, NEW k \in DOMAIN stages, Fire(w, k),
           Gains(w), UNCHANGED <<stages, crew, begun>>,
           pc[w] \in {"selected", "staged"}, IF Cascade THEN pc[w] = "staged" ELSE pc[w] = "selected"
    PROVE  \E l \in Steps : Moves(w, l)
<1> DEFINE out == Trigger(stages[k], call[w], live.fired[k])
<1>1. live.fired[k] \in Nat /\ out \in [event : Kinds \union {"none"}, got : Received,
                                        fired : {live.fired[k], live.fired[k] + 1}]
  BY FireTyped
<1>2. CASE Counted(k) /\ out.event # "none"
  <2>1. pc' = [pc EXCEPT ![w] = "counting"] /\ UNCHANGED <<live, events>>
    BY <1>2 DEF Fire, Enter
  <2>2. /\ Room(w, "counting", Unfinished) = 0
        /\ Room(w, "counting", Asked) = Bit(pc[w] = "selected")
        /\ Bit(pc[w] = "idle") = 0
        /\ "counting" \in InStage /\ Bit("counting" \in InStage) = 1
        /\ pc[w] = "staged" => Bit(pc[w] \in InStage) = 1
    BY RoomOf DEF Bit, InStage
  <2>3. begun \in Nat /\ live \in State /\ Len(events) \in Nat /\ Len(stages) \in {1, 2}
    BY FaultsAssumption, CampaignType, LenProperties DEF Typed
  <2>4. /\ begun' = begun + 0 /\ Len(events') <= Len(events) + 0
        /\ \A j \in DOMAIN stages : /\ live'.fired[j] <= live.fired[j] + 0
                                    /\ live'.drawn[j] <= live.drawn[j] + 0
    BY <2>1, <2>3 DEF State
  <2>5. ~Cascade => live'.index = 1
    BY <2>1 DEF Counts
  <2>6. \/ live'.index <= Len(stages)
        \/ live'.index <= live.index + Bit(pc[w] \in InStage) - Bit("counting" \in InStage)
    <3>1. CASE Cascade
      BY <2>1, <2>2, <2>3, <3>1 DEF State
    <3>2. CASE ~Cascade
      BY <2>3, <2>5, <3>2
    <3> QED
      BY <3>1, <3>2
  <2> QED
    BY <2>1, <2>2, <2>4, <2>5, <2>6 DEF Moves, Gains, Steps
<1>3. CASE ~(Counted(k) /\ out.event # "none")
  <2>1. Finish(w, k, out)
    BY <1>3 DEF Fire
  <2>2. out \in [event : Kinds \union {"none"}, got : Received, fired : Nat]
        /\ out.fired <= live.fired[k] + 1
    <3> HIDE DEF out
    <3> QED
      BY <1>1
  <2> HIDE DEF out
  <2> QED
    BY <2>1, <2>2, FinishMoves
<1> QED
  BY <1>2, <1>3

\* A call that leaves its place after its plan, or without one.
LEMMA GainsHold ==
    ASSUME Typed, NEW w \in crew
    PROVE  /\ pc[w] = "selected" /\ Plan(w) => Gains(w)
           /\ pc[w] # "selected" /\ UNCHANGED <<copies, plans>> => Gains(w)
<1>1. Len(plans) \in Nat /\ \A v \in Workers, k \in DOMAIN stages : copies[v].fired[k] \in Nat
  BY LenProperties DEF Typed, State
<1>2. CASE pc[w] = "selected" /\ Plan(w)
  <2>1. Bit(pc[w] = "selected") = 1
    BY <1>2 DEF Bit
  <2> QED
    BY <1>2, <2>1, PlanCounts DEF Gains
<1>3. CASE pc[w] # "selected" /\ UNCHANGED <<copies, plans>>
  <2>1. Bit(pc[w] = "selected") = 0
    BY <1>3 DEF Bit
  <2> QED
    BY <1>1, <1>3, <2>1 DEF Gains
<1> QED
  BY <1>2, <1>3

\* A move that adds to no counter.
LEMMA QuietMoves ==
    ASSUME Typed, Counts, NEW w \in crew, NEW l \in Steps, pc' = [pc EXCEPT ![w] = l],
           UNCHANGED <<stages, crew, live, events>>, begun' = begun + Bit(pc[w] = "idle"),
           Room(w, l, Unfinished) \in {0, 1}, Bit(l \in InStage) = 0 \/ live.index <= Len(stages),
           Len(plans') <= Len(plans) + Room(w, l, Asked),
           \A v \in Workers, k \in DOMAIN stages :
              \/ copies'[v].fired[k] <= copies[v].fired[k] + Room(w, l, Asked)
              \/ copies'[v].fired[k] = 0,
           ~Cascade => l \notin {"staged", "advancing"}
    PROVE  Moves(w, l)
<1>1. live \in State /\ Len(events) \in Nat /\ Len(stages) \in Nat
  BY CampaignType, LenProperties DEF Typed
<1>2. /\ Len(events') <= Len(events) + Room(w, l, Unfinished)
      /\ \A k \in DOMAIN stages : /\ live'.fired[k] <= live.fired[k] + Room(w, l, Unfinished)
                                  /\ live'.drawn[k] <= live.drawn[k] + Bit(pc[w] = "idle")
  BY <1>1 DEF State, Bit
<1>3. \/ live'.index <= Len(stages)
      \/ live'.index <= live.index + Bit(pc[w] \in InStage) - Bit(l \in InStage)
  BY <1>1 DEF State, Bit
<1>4. ~Cascade => live'.index = 1
  BY DEF Counts
<1> QED
  BY <1>2, <1>3, <1>4 DEF Moves

\* Every step of a call is such a move.
LEMMA CountsStep ==
    ASSUME Typed, Typed', Counts, [Next]_vars
    PROVE  Counts'
<1> USE DEF Steps
<1>0. ASSUME NEW w \in crew, \E l \in Steps : Moves(w, l)
      PROVE  Counts'
  BY <1>0, CountsMove
<1>1. ASSUME NEW w \in crew, NEW c \in CallSet, Select(w, c)
      PROVE  Counts'
  <2> DEFINE peeked == IF current = NoCopy THEN Fresh ELSE copies[current]
  <2>1. /\ pc[w] = "idle" /\ live' = Drawn(c, live) /\ begun' = begun + 1
        /\ copies' = IF current = NoCopy THEN copies ELSE [copies EXCEPT ![current] = Drawn(c, peeked)]
        /\ UNCHANGED <<stages, crew, events, plans>>
    BY <1>1 DEF Select
  <2>2. PICK l \in {"copying", "selected"} : pc' = [pc EXCEPT ![w] = l]
    BY <1>1 DEF Select
  <2>3. /\ Room(w, l, Unfinished) = 0 /\ Room(w, l, Asked) = 0
        /\ Bit(pc[w] = "idle") = 1 /\ Bit(pc[w] \in InStage) = 0 /\ Bit(l \in InStage) = 0
    BY <2>1, <2>2, RoomOf DEF Bit, Asked, InStage
  <2>4. \A st \in State : /\ Drawn(c, st).fired = st.fired /\ Drawn(c, st).index = st.index
                          /\ \A k \in DOMAIN stages : Drawn(c, st).drawn[k] <= st.drawn[k] + 1
    BY DEF Drawn, Draws, Pending, State
  <2>5. live \in State /\ Len(events) \in Nat /\ Len(plans) \in Nat /\ copies \in [Workers -> State]
        /\ current \in Workers \union {NoCopy}
    BY LenProperties DEF Typed
  <2>6. \A v \in Workers, k \in DOMAIN stages : copies'[v].fired[k] <= copies[v].fired[k] + 0
    <3>1. \A v \in Workers : copies'[v] = copies[v] \/ copies'[v] = Drawn(c, copies[v])
      BY <2>1, <2>5
    <3>2. \A v \in Workers : copies'[v].fired = copies[v].fired
      BY <2>4, <2>5, <3>1
    <3>3. \A v \in Workers, k \in DOMAIN stages : copies[v].fired[k] \in Nat
      BY <2>5 DEF State
    <3> QED
      BY <3>2, <3>3
  <2>7. /\ live'.index = live.index /\ live.index \in Nat
        /\ \A k \in DOMAIN stages : /\ live'.fired[k] <= live.fired[k] + 0
                                   /\ live'.drawn[k] <= live.drawn[k] + 1
    <3>1. \A k \in DOMAIN stages : live.fired[k] \in Nat /\ live'.fired[k] = live.fired[k]
      BY <2>1, <2>4, <2>5 DEF State
    <3> QED
      BY <2>1, <2>4, <2>5, <3>1 DEF State
  <2>8. Len(events') <= Len(events) + 0 /\ Len(plans') <= Len(plans) + 0
    BY <2>1, <2>5
  <2>9. live'.index <= live.index + 0 - 0
    BY <2>7
  <2>10. ~Cascade => live'.index = 1 /\ l \notin {"staged", "advancing"}
    BY <2>2, <2>7 DEF Counts
  <2>11. Moves(w, l)
    BY <2>1, <2>2, <2>3, <2>6, <2>7, <2>8, <2>9, <2>10 DEF Moves
  <2> QED
    BY <1>0, <2>2, <2>11
<1>2. ASSUME NEW w \in crew, MakeCopy(w)
      PROVE  Counts'
  <2>1. /\ pc[w] = "copying" /\ pc' = [pc EXCEPT ![w] = "selected"]
        /\ copies' = [copies EXCEPT ![w] = Drawn(call[w], Fresh)]
        /\ UNCHANGED <<stages, crew, live, begun, events, plans>>
    BY <1>2 DEF MakeCopy
  <2>2. /\ Room(w, "selected", Unfinished) = 0 /\ Room(w, "selected", Asked) = 0
        /\ Bit(pc[w] = "idle") = 0 /\ Bit("selected" \in InStage) = 0
    BY <2>1, RoomOf DEF Bit, InStage
  <2>3. \A k \in DOMAIN stages : Drawn(call[w], Fresh).fired[k] = 0
    BY DEF Drawn, Fresh
  <2>4. \A v \in Workers, k \in DOMAIN stages :
           copies'[v].fired[k] <= copies[v].fired[k] + 0 \/ copies'[v].fired[k] = 0
    <3>1. \A v \in Workers : copies'[v] = copies[v] \/ copies'[v] = Drawn(call[w], Fresh)
      BY <2>1 DEF Typed
    <3>2. \A v \in Workers, k \in DOMAIN stages : copies[v].fired[k] \in Nat
      BY DEF Typed, State
    <3> QED
      BY <2>3, <3>1, <3>2
  <2>5. begun' = begun + 0 /\ Len(plans') <= Len(plans) + 0
    BY <2>1, FaultsAssumption, LenProperties DEF Typed
  <2>6. Moves(w, "selected")
    BY <2>1, <2>2, <2>4, <2>5, QuietMoves
  <2> QED
    BY <1>0, <2>6
<1>3. ASSUME NEW w \in crew, pc[w] \in {"selected", "advancing"}, Return(w), Gains(w),
             UNCHANGED <<stages, crew, begun, live, events>>
      PROVE  Moves(w, "idle")
  <2>1. pc' = [pc EXCEPT ![w] = "idle"]
    BY <1>3 DEF Return
  <2>2. /\ Room(w, "idle", Unfinished) \in {0, 1} /\ Room(w, "idle", Asked) = Bit(pc[w] = "selected")
        /\ Bit(pc[w] = "idle") = 0 /\ Bit("idle" \in InStage) = 0
    BY <1>3, RoomOf DEF Bit, InStage
  <2>3. begun' = begun + 0
    BY <1>3, FaultsAssumption DEF Typed
  <2> QED
    BY <1>3, <2>1, <2>2, <2>3, QuietMoves DEF Gains
<1>4. ASSUME NEW w \in crew, Act(w)
      PROVE  Counts'
  <2>1. /\ pc[w] = "selected" /\ Plan(w) /\ UNCHANGED <<stages, crew, begun>>
        /\ ~Cascade \/ ~go[w].live
    BY <1>4 DEF Act, Spent
  <2>2. Gains(w)
    BY <2>1, GainsHold
  <2>3. CASE go[w].live
    BY <1>0, <1>4, <2>1, <2>2, <2>3, FireMoves, CampaignType DEF Act, Typed
  <2>4. CASE ~go[w].live
    <3>1. Return(w) /\ UNCHANGED <<live, events>>
      BY <1>4, <2>4 DEF Act
    <3> QED
      BY <1>0, <1>3, <2>1, <2>2, <3>1
  <2> QED
    BY <2>3, <2>4
<1>5. ASSUME NEW w \in crew, PickStage(w)
      PROVE  Counts'
  <2>1. /\ pc[w] = "selected" /\ Plan(w) /\ Cascade /\ UNCHANGED <<stages, crew, live, begun, events>>
    BY <1>5 DEF PickStage, Spent
  <2>2. Gains(w)
    BY <2>1, GainsHold
  <2>3. CASE Pending(live)
    <3>1. pc' = [pc EXCEPT ![w] = "staged"] /\ live.index <= Len(stages)
      BY <1>5, <2>3, CampaignType DEF PickStage, Enter, Pending, Typed
    <3>2. /\ Room(w, "staged", Unfinished) = 0 /\ Room(w, "staged", Asked) = 1
          /\ Bit(pc[w] = "idle") = 0 /\ Bit(pc[w] = "selected") = 1
      BY <2>1, RoomOf DEF Bit, InStage
    <3>3. begun' = begun + 0
      BY <2>1, FaultsAssumption DEF Typed
    <3>4. Moves(w, "staged")
      BY <2>1, <2>2, <3>1, <3>2, <3>3, QuietMoves DEF Gains
    <3> QED
      BY <1>0, <3>4
  <2>4. CASE ~Pending(live)
    <3>1. Return(w)
      BY <1>5, <2>4 DEF PickStage
    <3> QED
      BY <1>0, <1>3, <2>1, <2>2, <3>1
  <2> QED
    BY <2>3, <2>4
<1>6. ASSUME NEW w \in crew, FireStage(w)
      PROVE  Counts'
  <2>1. /\ pc[w] = "staged" /\ Fire(w, stage[w]) /\ stage[w] \in DOMAIN stages
        /\ UNCHANGED <<stages, crew, copies, begun, plans>>
    BY <1>6 DEF FireStage, Typed
  <2>2. Gains(w)
    BY <2>1, GainsHold
  <2>3. Cascade
    BY <2>1 DEF Counts, At, Typed
  <2> QED
    BY <1>0, <2>1, <2>2, <2>3, FireMoves
<1>7. ASSUME NEW w \in crew, Count(w)
      PROVE  Counts'
  <2> DEFINE k == stage[w]
             out == [Trigger(stages[k], call[w], 0) EXCEPT !.fired = live.fired[k] + 1]
  <2>1. /\ pc[w] = "counting" /\ k \in DOMAIN stages /\ Finish(w, k, out)
        /\ UNCHANGED <<stages, crew, copies, begun, plans>>
    BY <1>7 DEF Count, Typed
  <2>2. Gains(w)
    BY <2>1, GainsHold
  <2>3. live.fired[k] \in Nat /\ Trigger(stages[k], call[w], 0) \in
           [event : Kinds \union {"none"}, got : Received, fired : {0, 0 + 1}]
    BY <2>1, FireTyped
  <2>4. out \in [event : Kinds \union {"none"}, got : Received, fired : Nat]
        /\ out.fired = live.fired[k] + 1
    BY <2>3
  <2> HIDE DEF k, out
  <2>5. out.fired <= live.fired[k] + 1
    BY <2>3, <2>4
  <2> QED
    BY <1>0, <2>1, <2>2, <2>4, <2>5, FinishMoves
<1>8. ASSUME NEW w \in crew, AdvanceStage(w)
      PROVE  Counts'
  <2>1. /\ pc[w] = "advancing" /\ pc' = [pc EXCEPT ![w] = "idle"]
        /\ UNCHANGED <<stages, crew, copies, begun, events, plans>>
        /\ live' = live \/ live' = [live EXCEPT !.index = @ + 1]
    BY <1>8 DEF AdvanceStage, Return
  <2>2. Cascade
    BY <2>1 DEF Counts, At, Typed
  <2>3. /\ Room(w, "idle", Unfinished) = 0 /\ Room(w, "idle", Asked) = 0
        /\ Bit(pc[w] = "idle") = 0 /\ Bit(pc[w] \in InStage) = 1 /\ Bit("idle" \in InStage) = 0
    BY <2>1, RoomOf DEF Bit, InStage
  <2>4. /\ Len(events) \in Nat /\ Len(plans) \in Nat /\ begun \in Nat
        /\ \A v \in Workers, k \in DOMAIN stages : copies[v].fired[k] \in Nat
        /\ \A k \in DOMAIN stages : live.fired[k] \in Nat /\ live.drawn[k] \in Nat
        /\ live.index \in Nat
    <3>1. live \in State /\ copies \in [Workers -> State]
      BY DEF Typed
    <3> QED
      BY <3>1, Sizes DEF State
  <2>5. live'.index <= live.index + 1 - 0
        /\ \A k \in DOMAIN stages : live'.fired[k] <= live.fired[k] + 0 /\ live'.drawn[k] <= live.drawn[k] + 0
    <3>1. live \in State
      BY DEF Typed
    <3>2. /\ live'.fired = live.fired /\ live'.drawn = live.drawn
          /\ live'.index = live.index \/ live'.index = live.index + 1
      BY <2>1, <3>1 DEF State
    <3> QED
      BY <2>4, <3>2
  <2>6. /\ Len(events') <= Len(events) + 0 /\ Len(plans') <= Len(plans) + 0 /\ begun' = begun + 0
        /\ \A v \in Workers, k \in DOMAIN stages : copies'[v].fired[k] <= copies[v].fired[k] + 0
    BY <2>1, <2>4
  <2>7. Moves(w, "idle")
    BY <2>1, <2>2, <2>3, <2>5, <2>6 DEF Moves
  <2> QED
    BY <1>0, <2>7
<1>9. CASE UNCHANGED vars
  BY <1>9 DEF vars, Counts, At, Cascade
<1> QED
  BY <1>1, <1>2, <1>4, <1>5, <1>6, <1>7, <1>8, <1>9 DEF Next, Done

LEMMA CountsInit ==
    Init => Counts
<1> SUFFICES ASSUME Init PROVE Counts
  OBVIOUS
<1>1. Typed /\ Cardinality(crew) \in Nat \ {0} /\ Len(stages) \in Nat \ {0}
  BY TypedInit, Sizes
<1>2. At(Unfinished) = {} /\ At(Asked) = {} /\ At(InStage) = {} /\ At({"staged", "advancing"}) = {}
  BY DEF At, Init, Unfinished, Asked, InStage
<1>3. Cardinality({}) = 0
  BY FS_EmptySet
<1> QED
  BY <1>1, <1>2, <1>3 DEF Counts, Init, Fresh

\* Every variable stays in its set; no counter passes the number of calls, and the
\* index of a cascade passes its stages by the threads that share it at most.
THEOREM FaultsTypesHold == Spec => []FaultsTypeOK
<1>1. Init => Typed /\ Counts
  BY TypedInit, CountsInit
<1>2. Typed /\ Counts /\ [Next]_vars => Typed' /\ Counts'
  BY TypedStep, CountsStep
<1>3. Typed /\ Counts => FaultsTypeOK
  <2> SUFFICES ASSUME Typed, Counts PROVE FaultsTypeOK
    OBVIOUS
  <2> DEFINE u == Cardinality(At(Unfinished))
             a == Cardinality(At(Asked))
             n == Cardinality(At(InStage))
  <2>1. u \in Nat /\ a \in Nat /\ n \in Nat
    BY AtBound DEF Unfinished, Asked, InStage
  <2>2. begun \in 0..MaxCalls /\ MaxCalls \in Nat /\ Len(events) \in Nat /\ Len(plans) \in Nat
        /\ live \in State /\ copies \in [Workers -> State]
    BY FaultsAssumption, LenProperties DEF Typed
  <2>3. /\ \A k \in DOMAIN stages : live.fired[k] + u <= begun /\ live.drawn[k] <= begun
        /\ Len(events) + u <= begun /\ Len(plans) + a <= begun
        /\ \A v \in Workers, k \in DOMAIN stages : copies[v].fired[k] + a <= begun
        /\ live.index + n <= Len(stages) + Cardinality(crew)
    BY DEF Counts
  <2> HIDE DEF u, a, n
  <2>4. Len(events) <= MaxCalls /\ Len(plans) <= MaxCalls
    BY <2>1, <2>2, <2>3
  <2>5. live.fired \in [DOMAIN stages -> 0..MaxCalls] /\ live.drawn \in [DOMAIN stages -> 0..MaxCalls]
    BY <2>1, <2>2, <2>3 DEF State
  <2>6. ASSUME NEW v \in Workers
        PROVE  copies[v].fired \in [DOMAIN stages -> 0..MaxCalls]
    <3>1. copies[v] \in State /\ \A k \in DOMAIN stages : copies[v].fired[k] + a <= begun
      BY <2>2, <2>3
    <3> QED
      BY <2>1, <2>2, <3>1 DEF State
  <2>7. live.index \in 1..(Len(stages) + Cardinality(crew))
    <3>1. live.index \in Nat \ {0} /\ Len(stages) \in Nat /\ Cardinality(crew) \in Nat
      BY <2>2, Sizes DEF State
    <3> QED
      BY <2>1, <2>3, <3>1
  <2> QED
    BY <2>2, <2>4, <2>5, <2>6, <2>7 DEF FaultsTypeOK, Typed, Steps
<1> QED
  BY <1>1, <1>2, <1>3, PTL DEF Spec

-----------------------------------------------------------------------------
(* The truth of the events.                                                *)

\* What an event tells of its call.
Honest(e) ==
    LET f == stages[e.stage]
    IN  /\ e.event = "errored" <=> e.got = "raised"
        /\ e.event = "delayed" => e.got = "genuine"
        /\ (e.event \in {"looped", "degraded"} /\ e.got = "genuine") =>
               f.type \in {"silent_degradation", "memory_corruption"} /\ e.shape # "prose"
        /\ f.type \in {"tool_failure", "handoff_corruption"} => e.label \in f.target

\* Nobody moves the stage under a call that is on its way to it.
Steady == Alone \/ ~Cascade

\* A selected call stays in the scope of the stage that is to have it.
Truths ==
    /\ \A i \in DOMAIN events : Honest(events[i])
    /\ Steady => \A i \in DOMAIN events : events[i].label \in stages[events[i].stage].scope
    /\ Steady => \A v \in Workers :
          /\ pc[v] \in Asked /\ go[v].live => call[v].label \in stages[live.index].scope
          /\ pc[v] \in {"staged", "counting"} => call[v].label \in stages[stage[v]].scope

LEMMA OneThread ==
    ASSUME Typed, Alone, NEW w \in crew
    PROVE  crew = {w} /\ \A v \in Workers \ {w} : pc[v] = "idle"
<1>1. IsFiniteSet(crew)
  BY FS_Subset, FaultsAssumption DEF Typed
<1>2. PICK x : crew = {x}
  BY <1>1, FS_Singleton DEF Alone
<1> QED
  BY <1>2 DEF Typed

\* The record a stage appends is honest, and in scope if the call was.
LEMMA FinishTruths ==
    ASSUME Typed, Truths, NEW w \in crew, NEW k \in DOMAIN stages, NEW out, Finish(w, k, out),
           pc[w] # "idle", out \in [event : Kinds \union {"none"}, got : Received, fired : Nat],
           Truthful(stages[k], call[w], out),
           Steady => call[w].label \in stages[k].scope,
           \A v \in Workers \ {w} : go'[v] = go[v], UNCHANGED <<stages, crew>>
    PROVE  Truths'
<1>1. /\ live'.index = live.index /\ (Steady' <=> Steady)
      /\ \/ pc' = [pc EXCEPT ![w] = "idle"]
         \/ pc' = [pc EXCEPT ![w] = "advancing"] /\ Cascade
  BY DEF Finish, Enter, Return, Typed, State, Steady, Alone, Cascade
<1>2. \A v \in Workers \ {w} : pc'[v] = pc[v] /\ call'[v] = call[v] /\ stage'[v] = stage[v]
  BY DEF Finish, Enter, Return, Typed
<1>3. pc'[w] \in {"idle", "advancing"}
  BY <1>1 DEF Typed
<1>4. Steady' => \A v \in Workers :
          /\ pc'[v] \in Asked /\ go'[v].live => call'[v].label \in stages'[live'.index].scope
          /\ pc'[v] \in {"staged", "counting"} => call'[v].label \in stages'[stage'[v]].scope
  BY <1>1, <1>2, <1>3 DEF Truths, Asked
<1>5. CASE out.event = "none"
  <2>1. events' = events
    BY <1>5 DEF Finish
  <2> QED
    BY <1>1, <1>4, <2>1 DEF Truths, Honest
<1>6. CASE out.event # "none"
  <2> DEFINE e == Record(k, call[w], out)
  <2>1. events \in Seq(Event) /\ events' = Append(events, e)
    BY <1>6 DEF Finish, Typed
  <2>2. Len(events) \in Nat /\ DOMAIN events = 1..Len(events) /\ DOMAIN events' = 1..(Len(events) + 1)
        /\ events'[Len(events) + 1] = e
        /\ \A i \in DOMAIN events : events'[i] = events[i]
    BY <2>1, AppendProperties, LenProperties
  <2>3. \A i \in DOMAIN events' : (i \in DOMAIN events /\ events'[i] = events[i]) \/ events'[i] = e
    BY <2>2
  <2>4. e.stage = k /\ e.label = call[w].label /\ e.shape = call[w].shape /\ e.event = out.event
        /\ e.got = out.got
    BY DEF Record
  <2> HIDE DEF e
  <2>5. Honest(e)
    BY <1>6, <2>4 DEF Honest, Truthful
  <2>6. \A i \in DOMAIN events' : Honest(events'[i])
    BY <2>3, <2>5 DEF Truths
  <2>7. (\A i \in DOMAIN events : Honest(events[i]))'
    BY <2>6 DEF Honest
  <2>8. Steady' => \A i \in DOMAIN events' : events'[i].label \in stages'[events'[i].stage].scope
    BY <1>1, <2>3, <2>4 DEF Truths
  <2> QED
    BY <1>4, <2>7, <2>8 DEF Truths
<1> QED
  BY <1>5, <1>6

LEMMA FireTruths ==
    ASSUME Typed, Truths, NEW w \in crew, NEW k \in DOMAIN stages, Fire(w, k),
           pc[w] # "idle", Steady => call[w].label \in stages[k].scope,
           \A v \in Workers \ {w} : go'[v] = go[v], UNCHANGED <<stages, crew>>
    PROVE  Truths'
<1> DEFINE out == Trigger(stages[k], call[w], live.fired[k])
<1>1. /\ live.fired[k] \in Nat /\ Truthful(stages[k], call[w], out)
      /\ out \in [event : Kinds \union {"none"}, got : Received,
                  fired : {live.fired[k], live.fired[k] + 1}]
  BY FireTyped
<1>2. CASE Counted(k) /\ out.event # "none"
  <2>1. pc' = [pc EXCEPT ![w] = "counting"] /\ stage' = [stage EXCEPT ![w] = k]
        /\ UNCHANGED <<live, events, call>>
    BY <1>2 DEF Fire, Enter
  <2>2. Steady' <=> Steady
    BY DEF Steady, Alone, Cascade
  <2>3. \A i \in DOMAIN events : Honest(events[i])'
    BY <2>1 DEF Truths, Honest
  <2>4. Steady' => \A v \in Workers :
          /\ pc'[v] \in Asked /\ go'[v].live => call'[v].label \in stages'[live'.index].scope
          /\ pc'[v] \in {"staged", "counting"} => call'[v].label \in stages'[stage'[v]].scope
    BY <2>1, <2>2 DEF Truths, Typed, Asked
  <2> QED
    BY <2>1, <2>2, <2>3, <2>4 DEF Truths
<1>3. CASE ~(Counted(k) /\ out.event # "none")
  <2>1. Finish(w, k, out)
    BY <1>3 DEF Fire
  <2>2. out \in [event : Kinds \union {"none"}, got : Received, fired : Nat]
    <3> HIDE DEF out
    <3> QED
      BY <1>1
  <2> HIDE DEF out
  <2> QED
    BY <1>1, <2>1, <2>2, FinishTruths
<1> QED
  BY <1>2, <1>3

LEMMA TruthsStep ==
    ASSUME Typed, Typed', Counts, Truths, [Next]_vars
    PROVE  Truths'
<1>0. ASSUME UNCHANGED <<stages, crew, events>>
      PROVE  /\ Steady' <=> Steady
             /\ (\A i \in DOMAIN events : Honest(events[i]))'
             /\ Steady' => \A i \in DOMAIN events' : events'[i].label \in stages'[events'[i].stage].scope
  BY <1>0 DEF Truths, Honest, Steady, Alone, Cascade
<1>1. ASSUME NEW w \in crew, NEW c \in CallSet, Select(w, c)
      PROVE  Truths'
  <2>1. /\ live' = Drawn(c, live) /\ call' = [call EXCEPT ![w] = c] /\ w \in Workers
        /\ UNCHANGED <<stages, crew, events, stage>>
        /\ \A v \in Workers \ {w} : pc'[v] = pc[v] /\ go'[v] = go[v]
        /\ pc'[w] \in Asked /\ go'[w].live = Selected(c, live)
    BY <1>1 DEF Select, Typed, Asked
  <2>2. live'.index = live.index
    BY <2>1 DEF Drawn, Typed, State
  <2>3. go'[w].live => c.label \in stages[live.index].scope
    BY <2>1 DEF Selected, InScope, ShouldTrigger
  <2>4. ASSUME NEW v \in Workers, Steady
        PROVE  /\ pc'[v] \in Asked /\ go'[v].live => call'[v].label \in stages'[live'.index].scope
               /\ pc'[v] \in {"staged", "counting"} => call'[v].label \in stages'[stage'[v]].scope
    <3>1. CASE v = w
      BY <2>1, <2>2, <2>3, <3>1 DEF Typed, Asked
    <3>2. CASE v # w
      BY <2>1, <2>2, <2>4, <3>2 DEF Truths, Typed
    <3> QED
      BY <3>1, <3>2
  <2> QED
    BY <1>0, <2>1, <2>4 DEF Truths
<1>2. ASSUME NEW w \in crew, MakeCopy(w)
      PROVE  Truths'
  <2>1. /\ UNCHANGED <<stages, crew, events, live, call, stage>> /\ pc[w] \in Asked
        /\ \A v \in Workers : go'[v].live = go[v].live /\ (pc'[v] = pc[v] \/ v = w)
        /\ pc'[w] = "selected" /\ w \in Workers
    BY <1>2 DEF MakeCopy, Typed, Asked
  <2>2. Steady => \A v \in Workers :
           /\ pc'[v] \in Asked /\ go'[v].live => call'[v].label \in stages'[live'.index].scope
           /\ pc'[v] \in {"staged", "counting"} => call'[v].label \in stages'[stage'[v]].scope
    BY <2>1 DEF Truths
  <2> QED
    BY <1>0, <2>1, <2>2 DEF Truths
<1>3. ASSUME NEW w \in crew, Return(w), \A v \in Workers \ {w} : go'[v] = go[v],
             UNCHANGED <<stages, crew, events>>,
             \/ live'.index = live.index
             \/ \A v \in Workers \ {w} : pc[v] = "idle"
             \/ ~Steady
      PROVE  Truths'
  <2>1. /\ pc'[w] = "idle"
        /\ \A v \in Workers \ {w} : pc'[v] = pc[v] /\ call'[v] = call[v] /\ stage'[v] = stage[v]
    BY <1>3 DEF Return, Typed
  <2>2. Steady => \A v \in Workers :
           /\ pc'[v] \in Asked /\ go'[v].live => call'[v].label \in stages'[live'.index].scope
           /\ pc'[v] \in {"staged", "counting"} => call'[v].label \in stages'[stage'[v]].scope
    <3>1. CASE live'.index = live.index
      BY <1>3, <2>1, <3>1 DEF Truths, Asked
    <3>2. CASE \A v \in Workers \ {w} : pc[v] = "idle"
      <4>1. \A v \in Workers : pc'[v] = "idle"
        BY <2>1, <3>2
      <4> QED
        BY <4>1 DEF Asked
    <3> QED
      BY <1>3, <3>1, <3>2
  <2> QED
    BY <1>0, <1>3, <2>2 DEF Truths
<1>4. ASSUME NEW w \in crew, Act(w)
      PROVE  Truths'
  <2>1. /\ pc[w] = "selected" /\ UNCHANGED <<stages, crew>> /\ 1 \in DOMAIN stages
        /\ \A v \in Workers \ {w} : go'[v] = go[v]
        /\ ~Cascade \/ ~go[w].live
    BY <1>4, CampaignType DEF Act, Spent, Typed
  <2>2. CASE go[w].live
    <3>1. Fire(w, 1)
      BY <1>4, <2>2 DEF Act
    <3>2. live.index = 1
      BY <2>1, <2>2 DEF Counts
    <3>3. Steady => call[w].label \in stages[1].scope
      BY <2>1, <2>2, <3>2 DEF Truths, Typed, Asked
    <3> QED
      BY <2>1, <3>1, <3>3, FireTruths
  <2>3. CASE ~go[w].live
    BY <1>3, <1>4, <2>1, <2>3 DEF Act
  <2> QED
    BY <2>2, <2>3
<1>5. ASSUME NEW w \in crew, PickStage(w)
      PROVE  Truths'
  <2>1. /\ pc[w] = "selected" /\ go[w].live /\ UNCHANGED <<stages, crew, live, events>>
        /\ w \in Workers /\ \A v \in Workers \ {w} : go'[v] = go[v]
    BY <1>5 DEF PickStage, Spent, Typed
  <2>2. CASE Pending(live)
    <3>1. /\ pc' = [pc EXCEPT ![w] = "staged"] /\ stage' = [stage EXCEPT ![w] = live.index]
          /\ call' = call
      BY <1>5, <2>2 DEF PickStage, Enter
    <3>2. Steady => \A v \in Workers :
           /\ pc'[v] \in Asked /\ go'[v].live => call'[v].label \in stages'[live'.index].scope
           /\ pc'[v] \in {"staged", "counting"} => call'[v].label \in stages'[stage'[v]].scope
      BY <2>1, <3>1 DEF Truths, Typed, Asked
    <3> QED
      BY <1>0, <2>1, <3>2 DEF Truths
  <2>3. CASE ~Pending(live)
    BY <1>3, <1>5, <2>1, <2>3 DEF PickStage
  <2> QED
    BY <2>2, <2>3
<1>6. ASSUME NEW w \in crew, FireStage(w)
      PROVE  Truths'
  <2>1. /\ pc[w] = "staged" /\ Fire(w, stage[w]) /\ stage[w] \in DOMAIN stages /\ w \in Workers
        /\ UNCHANGED <<stages, crew, go>>
    BY <1>6 DEF FireStage, Typed
  <2>2. Steady => call[w].label \in stages[stage[w]].scope
    BY <2>1 DEF Truths
  <2> QED
    BY <2>1, <2>2, FireTruths
<1>7. ASSUME NEW w \in crew, Count(w)
      PROVE  Truths'
  <2> DEFINE k == stage[w]
             out == [Trigger(stages[k], call[w], 0) EXCEPT !.fired = live.fired[k] + 1]
  <2>1. /\ pc[w] = "counting" /\ k \in DOMAIN stages /\ Finish(w, k, out) /\ w \in Workers
        /\ UNCHANGED <<stages, crew, go>>
    BY <1>7 DEF Count, Typed
  <2>2. Steady => call[w].label \in stages[k].scope
    BY <2>1 DEF Truths
  <2>3. /\ live.fired[k] \in Nat /\ Truthful(stages[k], call[w], Trigger(stages[k], call[w], 0))
        /\ Trigger(stages[k], call[w], 0) \in
           [event : Kinds \union {"none"}, got : Received, fired : {0, 0 + 1}]
    BY <2>1, FireTyped
  <2>4. out \in [event : Kinds \union {"none"}, got : Received, fired : Nat]
        /\ Truthful(stages[k], call[w], out)
    BY <2>3 DEF Truthful
  <2> HIDE DEF k, out
  <2> QED
    BY <2>1, <2>2, <2>4, FinishTruths
<1>8. ASSUME NEW w \in crew, AdvanceStage(w)
      PROVE  Truths'
  <2>1. /\ pc[w] = "advancing" /\ Return(w) /\ UNCHANGED <<stages, crew, events, go>>
    BY <1>8 DEF AdvanceStage
  <2>2. Cascade
    BY <2>1 DEF Counts, At, Typed
  <2>3. Steady => \A v \in Workers \ {w} : pc[v] = "idle"
    BY <2>2, OneThread DEF Steady
  <2> QED
    BY <1>3, <2>1, <2>3
<1>9. CASE UNCHANGED vars
  BY <1>0, <1>9 DEF vars, Truths
<1> QED
  BY <1>1, <1>2, <1>4, <1>5, <1>6, <1>7, <1>8, <1>9 DEF Next, Done

\* An event tells what happened to its call, and the call was in the scope and in the
\* target of the stage that fired, unless another thread moved a cascade on meanwhile.
THEOREM EventTruthHolds == Spec => []EventTruth
<1>1. Init => Typed /\ Counts /\ Truths
  BY TypedInit, CountsInit DEF Init, Truths, Asked
<1>2. Typed /\ Counts /\ Truths /\ [Next]_vars => Typed' /\ Counts' /\ Truths'
  BY TypedStep, CountsStep, TruthsStep
<1>3. FaultsTypeOK /\ Truths => EventTruth
  BY DEF Truths, Honest, EventTruth, Steady
<1> QED
  BY <1>1, <1>2, <1>3, FaultsTypesHold, PTL DEF Spec

-----------------------------------------------------------------------------
(* The budget of a burst or of a loop's turns.                             *)

\* A counted fault injects only within its budget, and otherwise leaves its counter alone.
LEMMA CountedTrigger ==
    ASSUME NEW f \in FaultSet, f.type \in {"rate_limit_storm", "infinite_loop"},
           NEW c \in CallSet, NEW n \in Nat
    PROVE  /\ Trigger(f, c, n).event # "none" => n < f.budget /\ Trigger(f, c, 0).event # "none"
           /\ Trigger(f, c, n).event = "none" => Trigger(f, c, n).fired = n
<1>1. f.budget \in Nat
  BY DEF FaultSet
<1>2. CASE f.type = "rate_limit_storm"
  <2>1. Trigger(f, c, n) = RateLimitStorm(f, c, n) /\ Trigger(f, c, 0) = RateLimitStorm(f, c, 0)
    BY <1>2, Zenon DEF Trigger
  <2> QED
    BY <1>1, <2>1 DEF RateLimitStorm, PassThrough, Outcome
<1>3. CASE f.type = "infinite_loop"
  <2>1. Trigger(f, c, n) = InfiniteLoop(f, c, n) /\ Trigger(f, c, 0) = InfiniteLoop(f, c, 0)
    BY <1>3, Zenon DEF Trigger
  <2> QED
    BY <1>1, <2>1 DEF InfiniteLoop, AfterTarget, PassThrough, Outcome
<1> QED
  BY <1>2, <1>3

\* The threads between looking at the counter of stage k and moving it.
InCount(k) == {v \in Workers : pc[v] = "counting" /\ stage[v] = k}
Most(k) == stages[k].budget + Cardinality(crew) - 1

\* Every counted injection has its event; those under way fit in the budget together
\* with the counter, but for one of each further thread.
EventBudget ==
    /\ \A v \in Workers : pc[v] = "counting" =>
          Counted(stage[v]) /\ Trigger(stages[stage[v]], call[v], 0).event # "none"
    /\ \A k \in DOMAIN stages : Counted(k) =>
          /\ Cardinality(EventsOf(k)) = live.fired[k]
          /\ live.fired[k] + Cardinality(InCount(k)) <= Most(k)

LEMMA EventCount ==
    ASSUME Typed, NEW k
    PROVE  IsFiniteSet(EventsOf(k)) /\ Cardinality(EventsOf(k)) \in Nat
           /\ Cardinality(EventsOf(k)) <= Len(events)
<1>1. Len(events) \in Nat /\ DOMAIN events = 1..Len(events)
  BY LenProperties DEF Typed
<1>2. \A n \in Nat : IsFiniteSet(1..n) /\ Cardinality(1..n) = n
  BY FS_Interval
<1> QED
  BY <1>1, <1>2, FS_Subset, FS_CardinalityType DEF EventsOf

\* The stage that finishes with an event has one event more.
LEMMA EventsGrow ==
    ASSUME Typed, NEW w \in crew, NEW k \in DOMAIN stages, NEW out, Finish(w, k, out), NEW j
    PROVE  /\ EventsOf(j)' = IF j = k /\ out.event # "none" THEN EventsOf(j) \union {Len(events) + 1}
                                                           ELSE EventsOf(j)
           /\ Cardinality(EventsOf(j)') =
                 IF j = k /\ out.event # "none" THEN Cardinality(EventsOf(j)) + 1
                                               ELSE Cardinality(EventsOf(j))
<1>1. events \in Seq(Event) /\ Len(events) \in Nat /\ DOMAIN events = 1..Len(events)
  BY LenProperties DEF Typed
<1>2. CASE out.event = "none"
  BY <1>2 DEF Finish, EventsOf
<1>3. CASE out.event # "none"
  <2>1. events' = Append(events, Record(k, call[w], out)) /\ Record(k, call[w], out).stage = k
    BY <1>3 DEF Finish, Record
  <2>2. /\ DOMAIN events' = 1..(Len(events) + 1) /\ events'[Len(events) + 1].stage = k
        /\ \A i \in DOMAIN events : events'[i] = events[i]
    BY <1>1, <2>1
  <2>3. EventsOf(j)' = IF j = k THEN EventsOf(j) \union {Len(events) + 1} ELSE EventsOf(j)
    <3>1. Len(events) + 1 \notin DOMAIN events
          /\ DOMAIN events' = DOMAIN events \union {Len(events) + 1}
      BY <1>1, <2>2
    <3> QED
      BY <2>2, <3>1 DEF EventsOf
  <2>4. Len(events) + 1 \notin EventsOf(j)
    BY <1>1 DEF EventsOf
  <2> QED
    BY <1>3, <2>3, <2>4, EventCount, FS_AddElement
<1> QED
  BY <1>2, <1>3

\* One thread moves to or from the count of a stage.
LEMMA InCountMove ==
    ASSUME Typed, NEW w \in crew, NEW k, \A v \in Workers \ {w} : pc'[v] = pc[v] /\ stage'[v] = stage[v]
    PROVE  /\ Cardinality(InCount(k)) \in Nat /\ Cardinality(InCount(k)') \in Nat
           /\ Cardinality(InCount(k)') = Cardinality(InCount(k))
                 + Bit(pc'[w] = "counting" /\ stage'[w] = k) - Bit(pc[w] = "counting" /\ stage[w] = k)
<1>1. IsFiniteSet(InCount(k)) /\ w \in Workers
  BY FS_Subset, FaultsAssumption DEF InCount, Typed
<1>2. InCount(k) \ {w} = InCount(k)' \ {w}
  BY DEF InCount
<1>3. /\ w \in InCount(k) <=> (pc[w] = "counting" /\ stage[w] = k)
      /\ w \in InCount(k)' <=> (pc'[w] = "counting" /\ stage'[w] = k)
  BY <1>1 DEF InCount
<1>4. /\ Cardinality(InCount(k)) \in Nat /\ Cardinality(InCount(k)') \in Nat
      /\ Cardinality(InCount(k)') = Cardinality(InCount(k)) + Bit(w \in InCount(k)') - Bit(w \in InCount(k))
  BY <1>1, <1>2, MovedCount
<1> QED
  BY <1>3, <1>4 DEF Bit

\* Never more threads than there are.
LEMMA SomeOfCrew ==
    ASSUME Typed, NEW A, A \subseteq crew
    PROVE  /\ IsFiniteSet(A) /\ Cardinality(A) \in Nat /\ Cardinality(A) <= Cardinality(crew)
           /\ \A w \in crew : w \notin A => Cardinality(A) <= Cardinality(crew) - 1
<1>1. IsFiniteSet(crew)
  BY FS_Subset, FaultsAssumption DEF Typed
<1>2. IsFiniteSet(A) /\ Cardinality(A) <= Cardinality(crew) /\ Cardinality(A) \in Nat
  BY <1>1, FS_Subset, FS_CardinalityType
<1>3. ASSUME NEW w \in crew, w \notin A
      PROVE  Cardinality(A) <= Cardinality(crew) - 1
  <2>1. A \subseteq crew \ {w} /\ IsFiniteSet(crew \ {w})
        /\ Cardinality(crew \ {w}) = Cardinality(crew) - 1
    BY <1>1, <1>3, FS_RemoveElement
  <2> QED
    BY <2>1, FS_Subset
<1> QED
  BY <1>2, <1>3

LEMMA InCountBound ==
    ASSUME Typed, NEW k
    PROVE  /\ IsFiniteSet(InCount(k)) /\ Cardinality(InCount(k)) \in Nat
           /\ \A w \in crew : w \notin InCount(k) => Cardinality(InCount(k)) <= Cardinality(crew) - 1
<1>1. InCount(k) \subseteq crew
  BY DEF Typed, InCount
<1> QED
  BY <1>1, SomeOfCrew

\* Steps without a count or an event.
LEMMA BudgetQuiet ==
    ASSUME Typed, EventBudget, UNCHANGED <<stages, crew, events>>, live'.fired = live.fired,
           \A v \in Workers : /\ pc'[v] = "counting" <=> pc[v] = "counting"
                              /\ pc[v] = "counting" => stage'[v] = stage[v] /\ call'[v] = call[v]
    PROVE  EventBudget'
<1>1. \A k : EventsOf(k)' = EventsOf(k) /\ InCount(k)' = InCount(k) /\ (Counted(k)' <=> Counted(k))
              /\ Most(k)' = Most(k)
  <2>1. \A k : InCount(k)' = InCount(k)
    BY DEF InCount
  <2>2. \A k : EventsOf(k)' = EventsOf(k) /\ (Counted(k)' <=> Counted(k)) /\ Most(k)' = Most(k)
    BY DEF EventsOf, Counted, Most
  <2> QED
    BY <2>1, <2>2
<1>2. (\A v \in Workers : pc[v] = "counting" =>
          Counted(stage[v]) /\ Trigger(stages[stage[v]], call[v], 0).event # "none")'
  BY DEF EventBudget, Counted
<1>3. (\A k \in DOMAIN stages : Counted(k) =>
          /\ Cardinality(EventsOf(k)) = live.fired[k]
          /\ live.fired[k] + Cardinality(InCount(k)) <= Most(k))'
  BY <1>1 DEF EventBudget
<1> QED
  BY <1>2, <1>3 DEF EventBudget

\* A stage is done: after its count, or without being one that counts here.
LEMMA FinishBudget ==
    ASSUME Typed, EventBudget, NEW w \in crew, NEW k \in DOMAIN stages, NEW out, Finish(w, k, out),
           out \in [event : Kinds \union {"none"}, got : Received, fired : Nat],
           UNCHANGED <<stages, crew>>,
           \/ pc[w] = "counting" /\ stage[w] = k /\ out.event # "none" /\ out.fired = live.fired[k] + 1
           \/ pc[w] # "counting" /\ (Counted(k) => out.event = "none" /\ out.fired = live.fired[k])
    PROVE  EventBudget'
<1>1. live' = [live EXCEPT !.fired[k] = out.fired] /\ live \in State
  BY DEF Finish, Typed
<1>2. /\ live'.fired[k] = out.fired /\ live.fired[k] \in Nat
      /\ \A j \in DOMAIN stages \ {k} : live'.fired[j] = live.fired[j]
      /\ \A j \in DOMAIN stages : live.fired[j] \in Nat
  BY <1>1 DEF State
<1>3. pc'[w] # "counting" /\ \A v \in Workers \ {w} :
         pc'[v] = pc[v] /\ call'[v] = call[v] /\ stage'[v] = stage[v]
  BY DEF Finish, Enter, Return, Typed
<1>4. (\A v \in Workers : pc[v] = "counting" =>
          Counted(stage[v]) /\ Trigger(stages[stage[v]], call[v], 0).event # "none")'
  BY <1>3 DEF EventBudget, Counted
<1>5. ASSUME NEW j \in DOMAIN stages, Counted(j)
      PROVE  Cardinality(EventsOf(j)') = live'.fired[j]
             /\ live'.fired[j] + Cardinality(InCount(j)') <= Most(j)
  <2>1. /\ Cardinality(InCount(j)) \in Nat /\ Cardinality(InCount(j)') \in Nat
        /\ Cardinality(InCount(j)') = Cardinality(InCount(j))
               + Bit(pc'[w] = "counting" /\ stage'[w] = j) - Bit(pc[w] = "counting" /\ stage[w] = j)
    BY <1>3, InCountMove
  <2>2. Bit(pc'[w] = "counting" /\ stage'[w] = j) = 0
    BY <1>3 DEF Bit
  <2>3. Cardinality(EventsOf(j)) = live.fired[j] /\ live.fired[j] + Cardinality(InCount(j)) <= Most(j)
    BY <1>5 DEF EventBudget
  <2>4. Cardinality(EventsOf(j)') = IF j = k /\ out.event # "none" THEN Cardinality(EventsOf(j)) + 1
                                                               ELSE Cardinality(EventsOf(j))
    BY EventsGrow
  <2>5. CASE j = k /\ pc[w] = "counting"
    <3>1. Bit(pc[w] = "counting" /\ stage[w] = j) = 1 /\ live'.fired[j] = live.fired[j] + 1
          /\ out.event # "none"
      BY <1>2, <2>5 DEF Bit
    <3> QED
      BY <1>2, <2>1, <2>2, <2>3, <2>4, <2>5, <3>1
  <2>6. CASE ~(j = k /\ pc[w] = "counting")
    <3>1. Bit(pc[w] = "counting" /\ stage[w] = j) = 0 /\ live'.fired[j] = live.fired[j]
          /\ ~(j = k /\ out.event # "none")
      BY <1>2, <1>5, <2>6 DEF Bit
    <3> QED
      BY <1>2, <2>1, <2>2, <2>3, <2>4, <3>1
  <2> QED
    BY <2>5, <2>6
<1>6. \A j : (Counted(j)' <=> Counted(j)) /\ Most(j)' = Most(j)
  BY DEF Counted, Most
<1>7. (\A j \in DOMAIN stages : Counted(j) =>
          /\ Cardinality(EventsOf(j)) = live.fired[j]
          /\ live.fired[j] + Cardinality(InCount(j)) <= Most(j))'
  BY <1>5, <1>6
<1> QED
  BY <1>4, <1>7 DEF EventBudget

LEMMA FireBudget ==
    ASSUME Typed, EventBudget, NEW w \in crew, NEW k \in DOMAIN stages, Fire(w, k),
           pc[w] \notin {"idle", "counting"}, UNCHANGED <<stages, crew>>
    PROVE  EventBudget'
<1> DEFINE n == live.fired[k]
           out == Trigger(stages[k], call[w], n)
<1>1. /\ n \in Nat /\ stages[k] \in FaultSet /\ call[w] \in CallSet /\ w \in Workers
      /\ out \in [event : Kinds \union {"none"}, got : Received, fired : {n, n + 1}]
  BY FireTyped, CampaignType DEF Typed
<1>2. Counted(k) =>
         /\ out.event # "none" => n < stages[k].budget /\ Trigger(stages[k], call[w], 0).event # "none"
         /\ out.event = "none" => out.fired = n
  BY <1>1, CountedTrigger DEF Counted
<1>3. CASE Counted(k) /\ out.event # "none"
  <2>1. pc' = [pc EXCEPT ![w] = "counting"] /\ stage' = [stage EXCEPT ![w] = k]
        /\ UNCHANGED <<call, live, events>>
    BY <1>3 DEF Fire, Enter
  <2>2. /\ pc'[w] = "counting" /\ stage'[w] = k
        /\ \A v \in Workers \ {w} : pc'[v] = pc[v] /\ stage'[v] = stage[v]
    BY <1>1, <2>1 DEF Typed
  <2>3. n < stages[k].budget /\ Trigger(stages[k], call[w], 0).event # "none" /\ stages[k].budget \in Nat
    BY <1>1, <1>2, <1>3 DEF FaultSet
  <2>4. (\A v \in Workers : pc[v] = "counting" =>
          Counted(stage[v]) /\ Trigger(stages[stage[v]], call[v], 0).event # "none")'
    BY <1>3, <2>1, <2>2, <2>3 DEF EventBudget, Counted
  <2>5. ASSUME NEW j \in DOMAIN stages, Counted(j)
        PROVE  Cardinality(EventsOf(j)') = live'.fired[j]
               /\ live'.fired[j] + Cardinality(InCount(j)') <= Most(j)
    <3>1. /\ Cardinality(InCount(j)) \in Nat /\ Cardinality(InCount(j)') \in Nat
          /\ Cardinality(InCount(j)') = Cardinality(InCount(j))
                 + Bit(pc'[w] = "counting" /\ stage'[w] = j) - Bit(pc[w] = "counting" /\ stage[w] = j)
      BY <2>2, InCountMove
    <3>2. Bit(pc[w] = "counting" /\ stage[w] = j) = 0 /\ w \notin InCount(j)
      BY DEF Bit, InCount
    <3>3. Cardinality(EventsOf(j)) = live.fired[j] /\ live.fired[j] + Cardinality(InCount(j)) <= Most(j)
      BY <2>5 DEF EventBudget
    <3>4. Cardinality(EventsOf(j)') = live'.fired[j] /\ live'.fired[j] = live.fired[j]
          /\ live.fired[j] \in Nat
      BY <2>1, <3>3 DEF EventsOf, Typed, State
    <3>5. CASE j = k
      <4>1. Bit(pc'[w] = "counting" /\ stage'[w] = j) = 1
        BY <2>2, <3>5 DEF Bit
      <4>2. Cardinality(InCount(j)) <= Cardinality(crew) - 1 /\ Cardinality(crew) \in Nat
        BY <3>2, InCountBound, Sizes
      <4>3. Cardinality(InCount(j)') = Cardinality(InCount(j)) + 1
        BY <3>1, <3>2, <4>1
      <4> QED
        BY <2>3, <3>1, <3>4, <3>5, <4>2, <4>3 DEF Most
    <3>6. CASE j # k
      <4>1. Bit(pc'[w] = "counting" /\ stage'[w] = j) = 0
        BY <2>2, <3>6 DEF Bit
      <4> QED
        BY <3>1, <3>2, <3>3, <3>4, <4>1
    <3> QED
      BY <3>5, <3>6
  <2>6. \A j : (Counted(j)' <=> Counted(j)) /\ Most(j)' = Most(j)
    BY DEF Counted, Most
  <2>7. (\A j \in DOMAIN stages : Counted(j) =>
          /\ Cardinality(EventsOf(j)) = live.fired[j]
          /\ live.fired[j] + Cardinality(InCount(j)) <= Most(j))'
    BY <2>5, <2>6
  <2> QED
    BY <2>4, <2>7 DEF EventBudget
<1>4. CASE ~(Counted(k) /\ out.event # "none")
  <2>1. Finish(w, k, out)
    BY <1>4 DEF Fire
  <2>2. out \in [event : Kinds \union {"none"}, got : Received, fired : Nat]
        /\ (Counted(k) => out.event = "none" /\ out.fired = live.fired[k])
    <3> HIDE DEF out
    <3> QED
      BY <1>1, <1>2, <1>4
  <2> HIDE DEF out
  <2> QED
    BY <2>1, <2>2, FinishBudget
<1> QED
  BY <1>3, <1>4

LEMMA EventBudgetStep ==
    ASSUME Typed, EventBudget, [Next]_vars
    PROVE  EventBudget'
<1>0. ASSUME NEW w \in crew, pc[w] # "counting", UNCHANGED <<stages, crew, events>>,
             live'.fired = live.fired, pc'[w] # "counting",
             \A v \in Workers \ {w} : pc'[v] = pc[v] /\ stage'[v] = stage[v] /\ call'[v] = call[v]
      PROVE  EventBudget'
  <2>1. \A v \in Workers : /\ pc'[v] = "counting" <=> pc[v] = "counting"
                           /\ pc[v] = "counting" => stage'[v] = stage[v] /\ call'[v] = call[v]
    BY <1>0
  <2> QED
    BY <1>0, <2>1, BudgetQuiet
<1>1. ASSUME NEW w \in crew, NEW c \in CallSet, Select(w, c)
      PROVE  EventBudget'
  <2>1. live'.fired = live.fired
    BY <1>1 DEF Select, Drawn, Typed, State
  <2>2. pc[w] # "counting" /\ pc'[w] # "counting" /\ UNCHANGED <<stages, crew, events>>
    BY <1>1 DEF Select, Typed
  <2>3. \A v \in Workers \ {w} : pc'[v] = pc[v] /\ stage'[v] = stage[v] /\ call'[v] = call[v]
    BY <1>1 DEF Select, Typed
  <2> QED
    BY <1>0, <2>1, <2>2, <2>3
<1>2. ASSUME NEW w \in crew, MakeCopy(w)
      PROVE  EventBudget'
  BY <1>0, <1>2 DEF MakeCopy, Typed
<1>3. ASSUME NEW w \in crew, pc[w] # "counting", Return(w), UNCHANGED <<stages, crew, events>>,
             live'.fired = live.fired
      PROVE  EventBudget'
  BY <1>0, <1>3 DEF Return, Typed
<1>4. ASSUME NEW w \in crew, Act(w)
      PROVE  EventBudget'
  <2>1. pc[w] = "selected" /\ UNCHANGED <<stages, crew>> /\ 1 \in DOMAIN stages
    BY <1>4, CampaignType DEF Act, Typed
  <2>2. CASE go[w].live
    BY <1>4, <2>1, <2>2, FireBudget DEF Act
  <2>3. CASE ~go[w].live
    BY <1>3, <1>4, <2>1, <2>3 DEF Act
  <2> QED
    BY <2>2, <2>3
<1>5. ASSUME NEW w \in crew, PickStage(w)
      PROVE  EventBudget'
  <2>1. pc[w] = "selected" /\ UNCHANGED <<stages, crew, live, events>>
    BY <1>5 DEF PickStage
  <2>2. CASE Pending(live)
    <3>1. Enter(w, live.index, "staged")
      BY <1>5, <2>2 DEF PickStage
    <3> QED
      BY <1>0, <2>1, <3>1 DEF Enter, Typed
  <2>3. CASE ~Pending(live)
    BY <1>3, <1>5, <2>1, <2>3 DEF PickStage
  <2> QED
    BY <2>2, <2>3
<1>6. ASSUME NEW w \in crew, FireStage(w)
      PROVE  EventBudget'
  BY <1>6, FireBudget DEF FireStage, Typed
<1>7. ASSUME NEW w \in crew, Count(w)
      PROVE  EventBudget'
  <2> DEFINE k == stage[w]
             out == [Trigger(stages[k], call[w], 0) EXCEPT !.fired = live.fired[k] + 1]
  <2>1. /\ pc[w] = "counting" /\ k \in DOMAIN stages /\ Finish(w, k, out) /\ w \in Workers
        /\ UNCHANGED <<stages, crew>>
    BY <1>7 DEF Count, Typed
  <2>2. /\ live.fired[k] \in Nat /\ Trigger(stages[k], call[w], 0).event # "none"
        /\ Trigger(stages[k], call[w], 0) \in
           [event : Kinds \union {"none"}, got : Received, fired : {0, 0 + 1}]
    BY <2>1, FireTyped DEF EventBudget
  <2>3. out \in [event : Kinds \union {"none"}, got : Received, fired : Nat]
        /\ out.event # "none" /\ out.fired = live.fired[k] + 1
    BY <2>2
  <2>4. stage[w] = k
    OBVIOUS
  <2> HIDE DEF k, out
  <2> QED
    BY <2>1, <2>3, <2>4, FinishBudget
<1>8. ASSUME NEW w \in crew, AdvanceStage(w)
      PROVE  EventBudget'
  <2>1. live'.fired = live.fired
    BY <1>8 DEF AdvanceStage, Typed, State
  <2> QED
    BY <1>3, <1>8, <2>1 DEF AdvanceStage
<1>9. CASE UNCHANGED vars
  BY <1>9, BudgetQuiet DEF vars
<1> QED
  BY <1>1, <1>2, <1>4, <1>5, <1>6, <1>7, <1>8, <1>9 DEF Next, Done

LEMMA EventBudgetInit ==
    Init => EventBudget
<1> SUFFICES ASSUME Init PROVE EventBudget
  OBVIOUS
<1>1. Typed /\ Cardinality(crew) \in Nat \ {0}
  BY TypedInit, Sizes
<1>2. Cardinality({}) = 0
  BY FS_EmptySet
<1>3. \A k : EventsOf(k) = {} /\ InCount(k) = {}
  BY DEF Init, EventsOf, InCount
<1>4. \A k \in DOMAIN stages : stages[k].budget \in Nat /\ live.fired[k] = 0
  BY <1>1, CampaignType DEF Init, FaultSet, Fresh
<1>5. ASSUME NEW k \in DOMAIN stages
      PROVE  /\ Cardinality(EventsOf(k)) = live.fired[k]
             /\ live.fired[k] + Cardinality(InCount(k)) <= Most(k)
  <2>1. Cardinality(EventsOf(k)) = 0 /\ Cardinality(InCount(k)) = 0
    BY <1>2, <1>3
  <2> QED
    BY <1>1, <1>4, <2>1 DEF Most
<1>6. \A v \in Workers : pc[v] # "counting"
  BY DEF Init
<1> QED
  BY <1>5, <1>6 DEF EventBudget

-----------------------------------------------------------------------------
(* The plans of a dry run.                                                 *)

\* The calls that are selected on the copy of thread v.
Holding(v) == {x \in Workers : pc[x] = "selected" /\ go[x].preview /\ held[x] = v}

\* A copy is made once by each thread, before anyone could have got hold of it.
CopiesFresh ==
    /\ current \in crew \union {NoCopy} /\ \A x \in Workers : held[x] \in crew \union {NoCopy}
    /\ \A v \in Workers : pc[v] = "copying" =>
          current # v /\ copies[v].fired[1] = 0 /\ \A x \in Workers : held[x] # v
    /\ current = NoCopy => \A v \in Workers : held[v] = NoCopy /\ copies[v].fired[1] = 0
    /\ ~Cascade => \A v \in Workers : copies[v].index = 1

\* Each plan of a counted fault is one count of one copy.
Numbered(f) ==
    /\ f \in [DOMAIN plans -> crew \X (Nat \ {0})]
    /\ \A i \in DOMAIN plans : f[i][2] <= copies[f[i][1]].fired[1]
    /\ \A i, j \in DOMAIN plans : i # j => f[i] # f[j]

PlanBudget ==
    ~Cascade /\ Counted(1) =>
        /\ \A v \in Workers : copies[v].fired[1] + Cardinality(Holding(v)) <= Most(1)
        /\ \E f : Numbered(f)

LEMMA FreshQuiet ==
    ASSUME Typed, CopiesFresh, NEW w \in crew, UNCHANGED <<stages, crew, current>>,
           pc'[w] # "copying", held'[w] \in {held[w], NoCopy},
           \A v \in Workers \ {w} : pc'[v] = pc[v] /\ held'[v] = held[v],
           \A v \in Workers : \/ copies'[v].fired[1] = copies[v].fired[1]
                              \/ held[w] = v,
           ~Cascade => \A v \in Workers : copies'[v].index = copies[v].index
    PROVE  CopiesFresh'
<1>1. \A v \in Workers : held'[v] \in {held[v], NoCopy}
  OBVIOUS
<1>2. Cascade' <=> Cascade
  BY DEF Cascade
<1>3. \A v \in Workers : pc'[v] = "copying" => pc[v] = "copying"
  OBVIOUS
<1>4. w \in Workers /\ NoCopy \notin Workers
  BY FaultsAssumption DEF Typed
<1>5. ASSUME NEW v \in Workers, pc'[v] = "copying"
      PROVE  current # v /\ copies'[v].fired[1] = 0 /\ \A x \in Workers : held'[x] # v
  BY <1>1, <1>3, <1>4, <1>5 DEF CopiesFresh
<1>6. current = NoCopy => \A v \in Workers : held'[v] = NoCopy /\ copies'[v].fired[1] = 0
  BY <1>1, <1>4 DEF CopiesFresh
<1>7. ~Cascade => \A v \in Workers : copies'[v].index = 1
  BY DEF CopiesFresh
<1>8. \A x \in Workers : held'[x] \in crew \union {NoCopy}
  BY <1>1 DEF CopiesFresh
<1> QED
  BY <1>2, <1>5, <1>6, <1>7, <1>8 DEF CopiesFresh

LEMMA PlanFresh ==
    ASSUME Typed, CopiesFresh, NEW w \in crew, pc[w] = "selected", Plan(w)
    PROVE  /\ \A v \in Workers : copies'[v] = copies[v] \/ held[w] = v
           /\ ~Cascade => \A v \in Workers : copies'[v].index = copies[v].index
<1>1. CASE ~go[w].preview
  BY <1>1 DEF Plan
<1>2. CASE go[w].preview
  <2>1. held[w] \in Workers /\ copies[held[w]] \in State
    BY <1>2 DEF Typed
  <2>2. copies' = copies \/ copies' = [copies EXCEPT ![held[w]] = AdvancePreview(copies[held[w]])]
    BY <1>2 DEF Plan
  <2>3. ~Cascade => AdvancePreview(copies[held[w]]).index = copies[held[w]].index
    BY <2>1 DEF AdvancePreview, State
  <2> QED
    BY <2>1, <2>2, <2>3 DEF Typed
<1> QED
  BY <1>1, <1>2

LEMMA CopiesFreshStep ==
    ASSUME Typed, CopiesFresh, [Next]_vars
    PROVE  CopiesFresh'
<1>1. ASSUME NEW w \in crew, NEW c \in CallSet, Select(w, c)
      PROVE  CopiesFresh'
  <2> DEFINE peeked == IF current = NoCopy THEN Fresh ELSE copies[current]
  <2>1. /\ w \in Workers /\ NoCopy \notin Workers /\ UNCHANGED <<stages, crew, current>>
        /\ held' = [held EXCEPT ![w] = current]
        /\ \A v \in Workers \ {w} : pc'[v] = pc[v]
        /\ pc'[w] = "copying" => current = NoCopy
        /\ copies' = IF current = NoCopy THEN copies ELSE [copies EXCEPT ![current] = Drawn(c, peeked)]
    BY <1>1, FaultsAssumption DEF Select, Typed
  <2>2. \A st \in State : Drawn(c, st).fired = st.fired /\ Drawn(c, st).index = st.index
    BY DEF Drawn, State
  <2>3. \A v \in Workers : copies'[v].fired = copies[v].fired /\ copies'[v].index = copies[v].index
    BY <2>1, <2>2 DEF Typed
  <2>4. \A x \in Workers : held'[x] = IF x = w THEN current ELSE held[x]
    BY <2>1 DEF Typed
  <2>5. ASSUME NEW v \in Workers, pc'[v] = "copying"
        PROVE  current # v /\ copies'[v].fired[1] = 0 /\ \A x \in Workers : held'[x] # v
    <3>1. CASE v = w
      BY <2>1, <2>3, <2>4, <2>5, <3>1 DEF CopiesFresh
    <3>2. CASE v # w
      BY <2>1, <2>3, <2>4, <2>5, <3>2 DEF CopiesFresh
    <3> QED
      BY <3>1, <3>2
  <2>6. /\ current = NoCopy => \A v \in Workers : held'[v] = NoCopy /\ copies'[v].fired[1] = 0
        /\ ~Cascade => \A v \in Workers : copies'[v].index = 1
        /\ current \in crew \union {NoCopy} /\ \A x \in Workers : held'[x] \in crew \union {NoCopy}
    BY <2>3, <2>4 DEF CopiesFresh
  <2> QED
    BY <2>1, <2>5, <2>6 DEF CopiesFresh, Cascade
<1>2. ASSUME NEW w \in crew, MakeCopy(w)
      PROVE  CopiesFresh'
  <2>1. /\ w \in Workers /\ NoCopy \notin Workers /\ UNCHANGED <<stages, crew>> /\ current' = w
        /\ \A x \in Workers : /\ held'[x] = IF x = w THEN w ELSE held[x]
                              /\ pc'[x] = IF x = w THEN "selected" ELSE pc[x]
                              /\ copies'[x] = IF x = w THEN Drawn(call[w], Fresh) ELSE copies[x]
    BY <1>2, FaultsAssumption DEF MakeCopy, Typed
  <2>2. Drawn(call[w], Fresh).index = 1
    BY DEF Drawn, Fresh
  <2> QED
    BY <2>1, <2>2 DEF CopiesFresh, Cascade
<1>3. ASSUME NEW w \in crew, pc'[w] # "copying", held'[w] \in {held[w], NoCopy},
             \A v \in Workers \ {w} : pc'[v] = pc[v] /\ held'[v] = held[v],
             UNCHANGED <<stages, crew, current>>,
             UNCHANGED copies \/ (pc[w] = "selected" /\ Plan(w))
      PROVE  CopiesFresh'
  BY <1>3, PlanFresh, FreshQuiet
<1>4. ASSUME NEW w \in crew, NEW k, NEW out, Finish(w, k, out)
      PROVE  /\ pc'[w] # "copying" /\ held'[w] \in {held[w], NoCopy}
             /\ \A v \in Workers \ {w} : pc'[v] = pc[v] /\ held'[v] = held[v]
  BY <1>4 DEF Finish, Enter, Return, Typed
<1>5. ASSUME NEW w \in crew, NEW k, Fire(w, k)
      PROVE  /\ pc'[w] # "copying" /\ held'[w] \in {held[w], NoCopy}
             /\ \A v \in Workers \ {w} : pc'[v] = pc[v] /\ held'[v] = held[v]
  <2>1. CASE Enter(w, k, "counting")
    BY <2>1 DEF Enter, Typed
  <2>2. CASE Finish(w, k, Trigger(stages[k], call[w], live.fired[k]))
    BY <1>4, <2>2
  <2> QED
    BY <1>5, <2>1, <2>2 DEF Fire
<1>6. ASSUME NEW w \in crew, Return(w)
      PROVE  /\ pc'[w] # "copying" /\ held'[w] \in {held[w], NoCopy}
             /\ \A v \in Workers \ {w} : pc'[v] = pc[v] /\ held'[v] = held[v]
  BY <1>6 DEF Return, Typed
<1>7. ASSUME NEW w \in crew, Act(w)
      PROVE  CopiesFresh'
  <2>1. pc[w] = "selected" /\ Plan(w) /\ UNCHANGED <<stages, crew, current>>
        /\ (Fire(w, 1) \/ Return(w))
    BY <1>7 DEF Act, Spent
  <2> QED
    BY <1>3, <1>5, <1>6, <2>1
<1>8. ASSUME NEW w \in crew, PickStage(w)
      PROVE  CopiesFresh'
  <2>1. pc[w] = "selected" /\ Plan(w) /\ UNCHANGED <<stages, crew, current>>
        /\ (Enter(w, live.index, "staged") \/ Return(w))
    BY <1>8 DEF PickStage, Spent
  <2>2. CASE Enter(w, live.index, "staged")
    BY <1>3, <2>1, <2>2 DEF Enter, Typed
  <2> QED
    BY <1>3, <1>6, <2>1, <2>2
<1>9. ASSUME NEW w \in crew, FireStage(w)
      PROVE  CopiesFresh'
  BY <1>3, <1>5, <1>9 DEF FireStage
<1>10. ASSUME NEW w \in crew, Count(w)
       PROVE  CopiesFresh'
  BY <1>3, <1>4, <1>10 DEF Count
<1>11. ASSUME NEW w \in crew, AdvanceStage(w)
       PROVE  CopiesFresh'
  BY <1>3, <1>6, <1>11 DEF AdvanceStage
<1>12. CASE UNCHANGED vars
  BY <1>12 DEF vars, CopiesFresh, Cascade
<1> QED
  BY <1>1, <1>2, <1>7, <1>8, <1>9, <1>10, <1>11, <1>12 DEF Next, Done

\* One thread gets hold of a copy, or lets go of it.
LEMMA HoldingMove ==
    ASSUME Typed, NEW w \in crew, NEW u,
           \A x \in Workers \ {w} : (x \in Holding(u))' <=> x \in Holding(u)
    PROVE  /\ Cardinality(Holding(u)) \in Nat /\ Cardinality(Holding(u)') \in Nat
           /\ Cardinality(Holding(u)') =
                 Cardinality(Holding(u)) + Bit((w \in Holding(u))') - Bit(w \in Holding(u))
           /\ w \notin Holding(u) => Cardinality(Holding(u)) <= Cardinality(crew) - 1
<1>1. w \in Workers /\ Holding(u) \subseteq crew /\ Holding(u) \subseteq Workers
      /\ Holding(u)' \subseteq Workers
  BY DEF Holding, Typed
<1>2. /\ IsFiniteSet(Holding(u))
      /\ w \notin Holding(u) => Cardinality(Holding(u)) <= Cardinality(crew) - 1
  BY <1>1, SomeOfCrew
<1>3. Holding(u) \ {w} = Holding(u)' \ {w}
  BY <1>1
<1> QED
  BY <1>2, <1>3, MovedCount

\* A thread that lets go of its copy, if it held one, and plans nothing more.
LEMMA LetGo ==
    ASSUME Typed, PlanBudget, NEW w \in crew, UNCHANGED <<stages, crew, plans>>,
           pc'[w] # "selected" \/ ~go'[w].preview,
           \A x \in Workers \ {w} : pc'[x] = pc[x] /\ go'[x] = go[x] /\ held'[x] = held[x],
           \A v \in Workers : copies'[v].fired[1] = copies[v].fired[1]
    PROVE  PlanBudget'
<1> SUFFICES ASSUME ~Cascade', Counted(1)'
             PROVE  /\ (\A v \in Workers : copies[v].fired[1] + Cardinality(Holding(v)) <= Most(1))'
                    /\ (\E f : Numbered(f))'
  BY DEF PlanBudget
<1>1. ~Cascade /\ Counted(1)
  BY DEF Cascade, Counted
<1>2. ASSUME NEW v \in Workers
      PROVE  copies[v].fired[1] + Cardinality(Holding(v)') <= Most(1)
  <2>1. \A x \in Workers \ {w} : (x \in Holding(v))' <=> x \in Holding(v)
    BY DEF Holding
  <2>2. Bit((w \in Holding(v))') = 0 /\ Bit(w \in Holding(v)) \in {0, 1}
    BY DEF Holding, Bit
  <2>3. /\ Cardinality(Holding(v)) \in Nat /\ Cardinality(Holding(v)') \in Nat
        /\ Cardinality(Holding(v)') =
                 Cardinality(Holding(v)) + Bit((w \in Holding(v))') - Bit(w \in Holding(v))
    BY <2>1, HoldingMove
  <2>4. copies[v].fired[1] + Cardinality(Holding(v)) <= Most(1)
    BY <1>1 DEF PlanBudget
  <2>5. copies[v].fired[1] \in Nat /\ Most(1) \in Int
    <3>1. stages[1].budget \in Nat /\ copies[v] \in State /\ 1 \in DOMAIN stages
      BY CampaignType DEF Typed, FaultSet
    <3> QED
      BY <3>1, Sizes DEF State, Most
  <2> QED
    BY <2>2, <2>3, <2>4, <2>5
<1>3. (\A v \in Workers : copies[v].fired[1] + Cardinality(Holding(v)) <= Most(1))'
  BY <1>2 DEF Most
<1>4. PICK f : Numbered(f)
  BY <1>1 DEF PlanBudget
<1>5. \A i \in DOMAIN plans : f[i][1] \in Workers
  BY <1>4 DEF Numbered, Typed
<1>6. Numbered(f)'
  BY <1>4, <1>5 DEF Numbered
<1> QED
  BY <1>3, <1>6

\* A thread selects on a copy: it is within the budget of that copy.
LEMMA TakeHold ==
    ASSUME Typed, PlanBudget, NEW w \in crew, NEW u \in Workers, UNCHANGED <<stages, crew, plans>>,
           pc[w] # "selected", pc'[w] = "selected", held'[w] = u,
           \A x \in Workers \ {w} : pc'[x] = pc[x] /\ go'[x] = go[x] /\ held'[x] = held[x],
           ~Cascade /\ Counted(1) =>
              /\ \A v \in Workers : copies'[v].fired[1] = copies[v].fired[1]
              /\ go'[w].preview => copies'[u].fired[1] < stages[1].budget
    PROVE  PlanBudget'
<1> SUFFICES ASSUME ~Cascade', Counted(1)'
             PROVE  /\ (\A v \in Workers : copies[v].fired[1] + Cardinality(Holding(v)) <= Most(1))'
                    /\ (\E f : Numbered(f))'
  BY DEF PlanBudget
<1>1. ~Cascade /\ Counted(1)
  BY DEF Cascade, Counted
<1>2. \A v \in Workers : copies'[v].fired[1] = copies[v].fired[1]
  BY <1>1
<1>3. ASSUME NEW v \in Workers
      PROVE  copies[v].fired[1] + Cardinality(Holding(v)') <= Most(1)
  <2>1. \A x \in Workers \ {w} : (x \in Holding(v))' <=> x \in Holding(v)
    BY DEF Holding
  <2>2. Bit(w \in Holding(v)) = 0 /\ w \notin Holding(v)
    BY DEF Holding, Bit
  <2>3. /\ Cardinality(Holding(v)) \in Nat /\ Cardinality(Holding(v)') \in Nat
        /\ Cardinality(Holding(v)') =
                 Cardinality(Holding(v)) + Bit((w \in Holding(v))') - Bit(w \in Holding(v))
        /\ Cardinality(Holding(v)) <= Cardinality(crew) - 1
    BY <2>1, <2>2, HoldingMove
  <2>4. copies[v].fired[1] + Cardinality(Holding(v)) <= Most(1)
    BY <1>1 DEF PlanBudget
  <2>5. copies[v].fired[1] \in Nat /\ stages[1].budget \in Nat /\ Cardinality(crew) \in Nat
    <3>1. stages[1].budget \in Nat /\ copies[v] \in State /\ 1 \in DOMAIN stages
      BY CampaignType DEF Typed, FaultSet
    <3> QED
      BY <3>1, Sizes DEF State, Most
  <2>6. CASE (w \in Holding(v))'
    <3>1. v = u /\ copies[v].fired[1] < stages[1].budget /\ Bit((w \in Holding(v))') = 1
      BY <1>1, <1>2, <2>6 DEF Holding, Bit
    <3> QED
      BY <2>2, <2>3, <2>5, <3>1 DEF Most
  <2>7. CASE ~(w \in Holding(v))'
    <3>1. Bit((w \in Holding(v))') = 0
      BY <2>7 DEF Bit
    <3> QED
      BY <2>2, <2>3, <2>4, <3>1
  <2> QED
    BY <2>6, <2>7
<1>4. (\A v \in Workers : copies[v].fired[1] + Cardinality(Holding(v)) <= Most(1))'
  BY <1>2, <1>3 DEF Most
<1>5. PICK f : Numbered(f)
  BY <1>1 DEF PlanBudget
<1>6. \A i \in DOMAIN plans : f[i][1] \in Workers
  BY <1>5 DEF Numbered, Typed
<1>7. Numbered(f)'
  BY <1>2, <1>5, <1>6 DEF Numbered
<1> QED
  BY <1>4, <1>7

\* A selected thread plans, which is a new count of its copy, and lets go of it.
LEMMA PlanAdds ==
    ASSUME Typed, CopiesFresh, PlanBudget, NEW w \in crew, pc[w] = "selected", Plan(w),
           pc'[w] # "selected", UNCHANGED <<stages, crew>>,
           \A x \in Workers \ {w} : pc'[x] = pc[x] /\ go'[x] = go[x] /\ held'[x] = held[x]
    PROVE  PlanBudget'
<1>1. CASE ~go[w].preview
  BY <1>1, LetGo DEF Plan
<1>2. CASE go[w].preview
  <2> SUFFICES ASSUME ~Cascade', Counted(1)'
               PROVE  /\ (\A v \in Workers : copies[v].fired[1] + Cardinality(Holding(v)) <= Most(1))'
                      /\ (\E f : Numbered(f))'
    BY DEF PlanBudget
  <2> DEFINE u == held[w]
             m == copies[u].fired[1] + 1
  <2>1. ~Cascade /\ Counted(1) /\ w \in Workers /\ 1 \in DOMAIN stages
    BY CampaignType DEF Cascade, Counted, Typed
  <2>2. u \in Workers /\ u \in crew /\ copies[u] \in State /\ copies[u].index = 1
    BY <1>2, <2>1, FaultsAssumption DEF Typed, CopiesFresh
  <2>3. /\ copies' = [copies EXCEPT ![u] = AdvancePreview(copies[u])]
        /\ AdvancePreview(copies[u]).fired[1] = m
        /\ begun \in Nat /\ plans' = Append(plans, begun)
    <3>1. Pending(copies[u])
      BY <2>1, <2>2 DEF Pending
    <3>2. AdvancePreview(copies[u]).fired[1] = m
      BY <2>1, <2>2 DEF AdvancePreview, State
    <3> QED
      BY <1>2, <3>1, <3>2, Sizes DEF Plan
  <2>4. \A v \in Workers : copies'[v].fired[1] = IF v = u THEN m ELSE copies[v].fired[1]
    BY <2>2, <2>3 DEF Typed
  <2>5. \A v \in Workers : copies[v].fired[1] \in Nat
    BY <2>1 DEF Typed, State
  <2> HIDE DEF u, m
  <2>6. ASSUME NEW v \in Workers
        PROVE  copies'[v].fired[1] + Cardinality(Holding(v)') <= Most(1)
    <3>1. \A x \in Workers \ {w} : (x \in Holding(v))' <=> x \in Holding(v)
      BY DEF Holding
    <3>2. Bit((w \in Holding(v))') = 0 /\ Bit(w \in Holding(v)) = IF v = u THEN 1 ELSE 0
      BY <1>2, <2>1 DEF Holding, Bit, u
    <3>3. /\ Cardinality(Holding(v)) \in Nat /\ Cardinality(Holding(v)') \in Nat
          /\ Cardinality(Holding(v)') =
                 Cardinality(Holding(v)) + Bit((w \in Holding(v))') - Bit(w \in Holding(v))
      BY <3>1, HoldingMove
    <3>4. copies[v].fired[1] + Cardinality(Holding(v)) <= Most(1)
      BY <2>1 DEF PlanBudget
    <3>5. copies[v].fired[1] \in Nat /\ Most(1) \in Int
      <4>1. stages[1].budget \in Nat
        BY <2>1, CampaignType DEF Typed, FaultSet
      <4> QED
        BY <2>5, <4>1, Sizes DEF Most
    <3>6. CASE v = u
      BY <2>4, <3>2, <3>3, <3>4, <3>5, <3>6 DEF m
    <3>7. CASE v # u
      BY <2>4, <3>2, <3>3, <3>4, <3>5, <3>7
    <3> QED
      BY <3>6, <3>7
  <2>7. (\A v \in Workers : copies[v].fired[1] + Cardinality(Holding(v)) <= Most(1))'
    BY <2>6 DEF Most
  <2>8. PICK f : Numbered(f)
    BY <2>1 DEF PlanBudget
  <2> DEFINE g == [i \in DOMAIN plans' |-> IF i \in DOMAIN plans THEN f[i] ELSE <<u, m>>]
  <2>9. m \in Nat \ {0} /\ \A i \in DOMAIN plans : (f[i][1] \in Workers /\ f[i][2] < m) \/ f[i][1] # u
    <3>1. m \in Nat \ {0}
      BY <2>2, <2>5 DEF m
    <3>2. \A i \in DOMAIN plans : f[i] \in crew \X (Nat \ {0}) /\ f[i][2] <= copies[f[i][1]].fired[1]
      BY <2>8 DEF Numbered
    <3>3. ASSUME NEW i \in DOMAIN plans, f[i][1] = u
          PROVE  f[i][1] \in Workers /\ f[i][2] < m
      <4>1. f[i][2] \in Nat /\ f[i][2] <= copies[u].fired[1] /\ copies[u].fired[1] \in Nat
        BY <2>2, <2>5, <3>2, <3>3
      <4> QED
        BY <2>2, <3>3, <4>1 DEF m
    <3> QED
      BY <3>1, <3>3
  <2>10. /\ DOMAIN plans' = DOMAIN plans \union {Len(plans) + 1}
         /\ Len(plans) + 1 \notin DOMAIN plans
    BY <2>3, Sizes DEF Typed
  <2>11. g \in [DOMAIN plans' -> crew \X (Nat \ {0})]
    BY <2>2, <2>8, <2>9 DEF Numbered
  <2>12. ASSUME NEW i \in DOMAIN plans'
         PROVE  g[i][2] <= copies'[g[i][1]].fired[1]
    <3>1. CASE i \in DOMAIN plans
      <4>1. /\ g[i] = f[i] /\ f[i] \in crew \X (Nat \ {0}) /\ f[i][2] <= copies[f[i][1]].fired[1]
            /\ f[i][1] \in Workers /\ f[i][2] \in Nat
        BY <2>8, <3>1 DEF Numbered, Typed
      <4>2. CASE f[i][1] = u
        BY <2>4, <2>9, <3>1, <4>1, <4>2
      <4>3. CASE f[i][1] # u
        BY <2>4, <4>1, <4>3
      <4> QED
        BY <4>2, <4>3
    <3>2. CASE i \notin DOMAIN plans
      BY <2>2, <2>4, <2>9, <3>2
    <3> QED
      BY <3>1, <3>2
  <2>13. \A i, j \in DOMAIN plans' : i # j => g[i] # g[j]
    <3>1. \A i \in DOMAIN plans : f[i] # <<u, m>>
      BY <2>9
    <3> QED
      BY <2>8, <2>10, <3>1 DEF Numbered
  <2> HIDE DEF g
  <2>14. (\E h : Numbered(h))'
    <3>1. PICK h : h = g
      OBVIOUS
    <3>2. Numbered(h)'
      BY <2>11, <2>12, <2>13, <3>1 DEF Numbered
    <3> QED
      BY <3>2
  <2> QED
    BY <2>7, <2>14
<1> QED
  BY <1>1, <1>2

LEMMA EligibleCounted ==
    ASSUME NEW k, Counted(k), NEW c, NEW st
    PROVE  StageEligible(k, c, st) <=> st.fired[k] < stages[k].budget
<1>1. CASE stages[k].type = "rate_limit_storm"
  BY <1>1, Zenon DEF StageEligible, Counted
<1>2. CASE stages[k].type = "infinite_loop"
  BY <1>2, Zenon DEF StageEligible, Counted
<1> QED
  BY <1>1, <1>2 DEF Counted

LEMMA PlanBudgetStep ==
    ASSUME Typed, Counts, CopiesFresh, PlanBudget, [Next]_vars
    PROVE  PlanBudget'
<1>1. ASSUME NEW w \in crew, NEW c \in CallSet, Select(w, c)
      PROVE  PlanBudget'
  <2> DEFINE peeked == IF current = NoCopy THEN Fresh ELSE copies[current]
  <2>1. /\ w \in Workers /\ NoCopy \notin Workers /\ current \in Workers \union {NoCopy}
        /\ UNCHANGED <<stages, crew, plans>>
        /\ held' = [held EXCEPT ![w] = current] /\ pc[w] = "idle"
        /\ copies' = IF current = NoCopy THEN copies ELSE [copies EXCEPT ![current] = Drawn(c, peeked)]
        /\ \A x \in Workers \ {w} : pc'[x] = pc[x] /\ go'[x] = go[x] /\ held'[x] = held[x]
    BY <1>1, FaultsAssumption DEF Select, Typed
  <2>2. \A st \in State : Drawn(c, st).fired = st.fired
    BY DEF Drawn, State
  <2>3. \A v \in Workers : copies'[v].fired = copies[v].fired
    BY <2>1, <2>2 DEF Typed
  <2>4. CASE current = NoCopy
    <3>1. InScope(c, peeked) \/ ~Selected(c, peeked)
      BY DEF Selected
    <3>2. pc'[w] # "selected" \/ ~go'[w].preview
      BY <1>1, <2>1, <2>4, <3>1 DEF Select, Typed
    <3> QED
      BY <2>1, <2>3, <3>2, LetGo
  <2>5. CASE current # NoCopy
    <3>1. pc'[w] = "selected" /\ held'[w] = current /\ current \in Workers
          /\ go'[w].preview = Selected(c, copies[current])
      BY <1>1, <2>1, <2>5 DEF Select, Typed, Selected
    <3>2. ASSUME ~Cascade, Counted(1), go'[w].preview
          PROVE  copies'[current].fired[1] < stages[1].budget
      <4>1. copies[current].index = 1 /\ Eligible(c, copies[current])
        BY <3>1, <3>2 DEF CopiesFresh, Selected
      <4>2. StageEligible(1, c, copies[current])
        BY <4>1 DEF Eligible
      <4> QED
        BY <2>3, <3>1, <3>2, <4>2, EligibleCounted
    <3> QED
      BY <2>1, <2>3, <3>1, <3>2, TakeHold
  <2> QED
    BY <2>4, <2>5
<1>2. ASSUME NEW w \in crew, MakeCopy(w)
      PROVE  PlanBudget'
  <2>1. /\ w \in Workers /\ UNCHANGED <<stages, crew, plans>> /\ pc[w] = "copying"
        /\ \A x \in Workers : /\ held'[x] = IF x = w THEN w ELSE held[x]
                              /\ pc'[x] = IF x = w THEN "selected" ELSE pc[x]
                              /\ copies'[x] = IF x = w THEN Drawn(call[w], Fresh) ELSE copies[x]
                              /\ x # w => go'[x] = go[x]
        /\ go'[w].preview = Selected(call[w], Fresh) /\ 1 \in DOMAIN stages
    BY <1>2, CampaignType DEF MakeCopy, Typed
  <2>2. Drawn(call[w], Fresh).fired[1] = 0 /\ copies[w].fired[1] = 0 /\ Fresh.fired[1] = 0 /\ Fresh.index = 1
    BY <2>1 DEF Drawn, Fresh, CopiesFresh
  <2>3. ASSUME ~Cascade, Counted(1), go'[w].preview
        PROVE  copies'[w].fired[1] < stages[1].budget
    <3>1. StageEligible(1, call[w], Fresh)
      BY <2>1, <2>2, <2>3 DEF Selected, Eligible
    <3> QED
      BY <2>1, <2>2, <2>3, <3>1, EligibleCounted
  <2> QED
    BY <2>1, <2>2, <2>3, TakeHold
<1>3. ASSUME NEW w \in crew, pc[w] # "selected", pc'[w] # "selected",
             \A x \in Workers \ {w} : pc'[x] = pc[x] /\ held'[x] = held[x],
             UNCHANGED <<stages, crew, copies, plans, go>>
      PROVE  PlanBudget'
  BY <1>3, LetGo
<1>4. ASSUME NEW w \in crew, NEW k, NEW out, Finish(w, k, out)
      PROVE  pc'[w] # "selected" /\ \A v \in Workers \ {w} : pc'[v] = pc[v] /\ held'[v] = held[v]
  BY <1>4 DEF Finish, Enter, Return, Typed
<1>5. ASSUME NEW w \in crew, NEW k, Fire(w, k)
      PROVE  pc'[w] # "selected" /\ \A v \in Workers \ {w} : pc'[v] = pc[v] /\ held'[v] = held[v]
  <2>1. CASE Enter(w, k, "counting")
    BY <2>1 DEF Enter, Typed
  <2>2. CASE Finish(w, k, Trigger(stages[k], call[w], live.fired[k]))
    BY <1>4, <2>2
  <2> QED
    BY <1>5, <2>1, <2>2 DEF Fire
<1>6. ASSUME NEW w \in crew, Return(w)
      PROVE  pc'[w] # "selected" /\ \A v \in Workers \ {w} : pc'[v] = pc[v] /\ held'[v] = held[v]
  BY <1>6 DEF Return, Typed
<1>7. ASSUME NEW w \in crew, Act(w)
      PROVE  PlanBudget'
  <2>1. /\ pc[w] = "selected" /\ Plan(w) /\ UNCHANGED <<stages, crew>>
        /\ (Fire(w, 1) \/ Return(w))
        /\ \A x \in Workers \ {w} : go'[x] = go[x]
    BY <1>7 DEF Act, Spent, Typed
  <2>2. pc'[w] # "selected" /\ \A v \in Workers \ {w} : pc'[v] = pc[v] /\ held'[v] = held[v]
    BY <1>5, <1>6, <2>1
  <2> QED
    BY <2>1, <2>2, PlanAdds
<1>8. ASSUME NEW w \in crew, PickStage(w)
      PROVE  PlanBudget'
  BY <1>8 DEF PickStage, PlanBudget, Cascade
<1>9. ASSUME NEW w \in crew, FireStage(w)
      PROVE  PlanBudget'
  BY <1>3, <1>5, <1>9 DEF FireStage
<1>10. ASSUME NEW w \in crew, Count(w)
       PROVE  PlanBudget'
  BY <1>3, <1>4, <1>10 DEF Count
<1>11. ASSUME NEW w \in crew, AdvanceStage(w)
       PROVE  PlanBudget'
  BY <1>3, <1>6, <1>11 DEF AdvanceStage
<1>12. CASE UNCHANGED vars
  <2>1. /\ (Cascade' <=> Cascade) /\ (Counted(1)' <=> Counted(1)) /\ Most(1)' = Most(1)
        /\ \A v : Holding(v)' = Holding(v)
        /\ \A f : Numbered(f)' <=> Numbered(f)
    BY <1>12 DEF vars, Cascade, Counted, Most, Holding, Numbered
  <2> QED
    BY <1>12, <2>1 DEF vars, PlanBudget
<1> QED
  BY <1>1, <1>2, <1>7, <1>8, <1>9, <1>10, <1>11, <1>12 DEF Next, Done

\* So many pairs of a copy and a count there are.
LEMMA PlansBounded ==
    ASSUME Typed, Counts, PlanBudget, ~Cascade
    PROVE  Len(plans) <= Cardinality(crew) * (Budget(1) + Cardinality(crew) - 1)
<1> DEFINE size == Cardinality(crew)
<1>1. size \in Nat \ {0} /\ MaxCalls \in Nat /\ Len(plans) \in Nat /\ IsFiniteSet(crew)
  BY Sizes, SomeOfCrew
<1>2. stages[1].budget \in Nat
  BY CampaignType DEF Typed, FaultSet
<1>3. CASE ~Counted(1)
  <2>1. Len(plans) + Cardinality(At(Asked)) <= begun /\ begun \in 0..MaxCalls /\ Cardinality(At(Asked)) \in Nat
    BY AtBound DEF Counts, Typed, Asked
  <2>2. Len(plans) <= MaxCalls
    BY <1>1, <2>1
  <2>3. \A a \in Nat \ {0}, b \in Nat : b <= a * (b + a - 1)
    <3>1. ASSUME NEW a \in Nat \ {0}, NEW b \in Nat
          PROVE  b <= a * (b + a - 1)
      <4>1. b + a - 1 \in Nat /\ a - 1 \in Nat
        OBVIOUS
      <4>2. a * (b + a - 1) = (a - 1) * (b + a - 1) + (b + a - 1) /\ (a - 1) * (b + a - 1) \in Nat
        BY <4>1
      <4> QED
        BY <4>1, <4>2
    <3> QED
      BY <3>1
  <2>4. MaxCalls <= size * (MaxCalls + size - 1)
    BY <1>1, <2>3
  <2>5. Budget(1) = MaxCalls
    BY <1>3 DEF Budget
  <2>6. size * (MaxCalls + size - 1) \in Int
    BY <1>1
  <2> QED
    BY <1>1, <2>2, <2>4, <2>5, <2>6
<1>4. CASE Counted(1)
  <2> DEFINE n == stages[1].budget + size - 1
             pairs == crew \X (1..n)
  <2>1. n \in Nat /\ Most(1) = n /\ Budget(1) = stages[1].budget
    BY <1>1, <1>2, <1>4 DEF Most, Budget
  <2>2. \A a \in Nat : IsFiniteSet(1..a) /\ Cardinality(1..a) = a
    BY FS_Interval
  <2>3. IsFiniteSet(1..n) /\ Cardinality(1..n) = n
    BY <2>1, <2>2
  <2>4. IsFiniteSet(pairs) /\ Cardinality(pairs) = size * n
    BY <1>1, <2>3, FS_Product
  <2>5. DOMAIN plans = 1..Len(plans) /\ IsFiniteSet(DOMAIN plans) /\ Cardinality(DOMAIN plans) = Len(plans)
    BY <1>1, <2>2, LenProperties DEF Typed
  <2>6. PICK f : Numbered(f)
    BY <1>4 DEF PlanBudget
  <2>7. \A v \in Workers : copies[v].fired[1] \in Nat /\ copies[v].fired[1] <= n
    <3> SUFFICES ASSUME NEW v \in Workers
                 PROVE  copies[v].fired[1] \in Nat /\ copies[v].fired[1] <= n
      OBVIOUS
    <3>1. copies[v] \in State /\ 1 \in DOMAIN stages
      BY CampaignType DEF Typed
    <3>2. Holding(v) \subseteq crew
      BY DEF Holding, Typed
    <3>3. copies[v].fired[1] + Cardinality(Holding(v)) <= n /\ Cardinality(Holding(v)) \in Nat
      BY <1>4, <2>1, <3>2, SomeOfCrew DEF PlanBudget
    <3>4. copies[v].fired[1] \in Nat
      BY <3>1 DEF State
    <3> HIDE DEF n
    <3> QED
      BY <2>1, <3>3, <3>4
  <2> HIDE DEF n
  <2>8. \A i \in DOMAIN plans : f[i] \in pairs
    <3> SUFFICES ASSUME NEW i \in DOMAIN plans
                 PROVE  f[i] \in pairs
      OBVIOUS
    <3>1. f[i] \in crew \X (Nat \ {0}) /\ f[i][2] <= copies[f[i][1]].fired[1] /\ f[i][1] \in Workers
      BY <2>6 DEF Numbered, Typed
    <3>2. f[i][2] \in Nat \ {0} /\ f[i][2] <= n
      BY <2>1, <2>7, <3>1
    <3> QED
      BY <2>1, <3>1, <3>2
  <2>9. f \in [DOMAIN plans -> pairs] /\ \A i, j \in DOMAIN plans : i # j => f[i] # f[j]
    BY <2>6, <2>8 DEF Numbered
  <2>10. ~(Cardinality(pairs) < Cardinality(DOMAIN plans))
    <3> HIDE DEF pairs
    <3> QED
      BY <2>4, <2>5, <2>9, FS_PigeonHole
  <2>11. size * n \in Nat
    BY <1>1, <2>1
  <2> QED
    BY <1>1, <2>1, <2>4, <2>5, <2>10, <2>11 DEF n
<1> QED
  BY <1>3, <1>4

LEMMA PlansInit ==
    Init => CopiesFresh /\ PlanBudget
<1> SUFFICES ASSUME Init PROVE CopiesFresh /\ PlanBudget
  OBVIOUS
<1>1. Typed /\ Cardinality(crew) \in Nat \ {0} /\ 1 \in DOMAIN stages /\ stages[1].budget \in Nat
  BY TypedInit, Sizes, CampaignType DEF Typed, FaultSet
<1>2. CopiesFresh
  BY <1>1, FaultsAssumption DEF Init, CopiesFresh, Fresh
<1>3. ASSUME NEW v \in Workers
      PROVE  copies[v].fired[1] + Cardinality(Holding(v)) <= Most(1)
  <2>1. Holding(v) = {} /\ copies[v].fired[1] = 0
    BY <1>1 DEF Init, Holding, Fresh
  <2>2. Cardinality(Holding(v)) = 0
    BY <2>1, FS_EmptySet
  <2> QED
    BY <1>1, <2>1, <2>2 DEF Most
<1>4. \E f : Numbered(f)
  <2>1. Numbered(<<>>)
    BY DEF Init, Numbered
  <2> QED
    BY <2>1
<1> QED
  BY <1>2, <1>3, <1>4 DEF PlanBudget

\* A burst or a turn budget is exceeded by at most one injection per further thread that
\* shares the fault, and likewise on each of the copies a dry run plans on.
THEOREM BudgetHoldsAlways == Spec => []BudgetHolds
<1> DEFINE Inv == Typed /\ Counts /\ EventBudget /\ CopiesFresh /\ PlanBudget
<1>1. Init => Inv
  BY TypedInit, CountsInit, EventBudgetInit, PlansInit
<1>2. Inv /\ [Next]_vars => Inv'
  <2> SUFFICES ASSUME Inv, [Next]_vars PROVE Inv'
    OBVIOUS
  <2>1. Typed' /\ Counts'
    BY TypedStep, CountsStep
  <2> QED
    BY <2>1, EventBudgetStep, CopiesFreshStep, PlanBudgetStep
<1>3. Inv => BudgetHolds
  <2> SUFFICES ASSUME Inv PROVE BudgetHolds
    OBVIOUS
  <2>1. ASSUME NEW k \in DOMAIN stages
        PROVE  Cardinality(EventsOf(k)) <= Budget(k) + Cardinality(crew) - 1
    <3>1. /\ Cardinality(crew) \in Nat \ {0} /\ MaxCalls \in Nat /\ Len(events) \in Nat
          /\ stages[k].budget \in Nat /\ live.fired[k] \in Nat /\ begun \in 0..MaxCalls
      BY Sizes, CampaignType DEF Typed, FaultSet, State
    <3>2. Cardinality(EventsOf(k)) \in Nat /\ Cardinality(EventsOf(k)) <= Len(events)
      BY EventCount
    <3>3. CASE Counted(k)
      <4>1. Cardinality(InCount(k)) \in Nat
        BY InCountBound
      <4>2. /\ Cardinality(EventsOf(k)) = live.fired[k]
            /\ live.fired[k] + Cardinality(InCount(k)) <= Budget(k) + Cardinality(crew) - 1
        BY <3>3 DEF EventBudget, Budget, Most
      <4>3. Budget(k) = stages[k].budget
        BY <3>3 DEF Budget
      <4> QED
        BY <3>1, <4>1, <4>2, <4>3
    <3>4. CASE ~Counted(k)
      <4>1. Len(events) + Cardinality(At(Unfinished)) <= begun /\ Cardinality(At(Unfinished)) \in Nat
        BY AtBound DEF Counts, Unfinished, Asked
      <4>2. Budget(k) = MaxCalls
        BY <3>4 DEF Budget
      <4> QED
        BY <3>1, <3>2, <4>1, <4>2
    <3> QED
      BY <3>3, <3>4
  <2> QED
    BY <2>1, PlansBounded DEF BudgetHolds
<1> QED
  BY <1>1, <1>2, <1>3, PTL DEF Spec

-----------------------------------------------------------------------------
(* The order of a cascade.                                                 *)

Limit(k) == IF stages[k].type = "rate_limit_storm" THEN stages[k].budget ELSE 1
Shots(k) == Cardinality(EventsOf(k))

\* The stages before the index are over, those after it have not begun, and the one
\* at the index has something left to do unless its thread is about to move on.
Ordered ==
    Cascade /\ Alone =>
        /\ live.index \in 1..3
        /\ \A x \in crew : pc[x] \in InStage => stage[x] = live.index
        /\ \A k \in {1, 2} : /\ k < live.index => Shots(k) = Limit(k)
                             /\ k > live.index => Shots(k) = 0
        /\ \A x \in crew, k \in {1, 2} : k = live.index =>
               IF pc[x] = "advancing" THEN Shots(k) \in 1..Limit(k) ELSE Shots(k) < Limit(k)
        /\ \A i \in EventsOf(2), j \in EventsOf(1) : j < i

\* Both stages of a cascade fire at least once.
LEMMA LimitPositive ==
    ASSUME Typed, Cascade
    PROVE  DOMAIN stages = {1, 2} /\ \A k \in {1, 2} : Limit(k) \in Nat \ {0}
<1>1. DOMAIN stages = {1, 2} /\ \A k \in {1, 2} : stages[k] \in FaultSet
  BY CampaignType DEF Typed
<1>2. \A k \in {1, 2} : stages[k].type = "rate_limit_storm" => stages[k].budget > 0
  BY FaultsAssumption DEF Typed, Cascade
<1>3. \A k \in {1, 2} : stages[k].budget \in Nat
  BY <1>1 DEF FaultSet
<1> QED
  BY <1>1, <1>2, <1>3 DEF Limit

\* Steps before and after the stages.
LEMMA OrderedQuiet ==
    ASSUME Typed, Ordered, NEW w \in crew, UNCHANGED <<stages, crew, events>>,
           live'.index = live.index, pc[w] # "advancing", pc'[w] # "advancing",
           Cascade /\ pc'[w] \in InStage => stage'[w] = live.index
    PROVE  Ordered'
<1> SUFFICES ASSUME Cascade', Alone'
             PROVE  Ordered'
  BY DEF Ordered
<1>1. Cascade /\ Alone
  BY DEF Cascade, Alone
<1>2. crew = {w}
  BY <1>1, OneThread
<1>3. \A k : EventsOf(k)' = EventsOf(k) /\ Shots(k)' = Shots(k) /\ Limit(k)' = Limit(k)
  BY DEF EventsOf, Shots, Limit
<1> QED
  BY <1>1, <1>2, <1>3 DEF Ordered

\* The stage at the index is done with the call of the only thread.
LEMMA FinishOrdered ==
    ASSUME Typed, Ordered, NEW w \in crew, NEW out, Finish(w, stage[w], out),
           out \in [event : Kinds \union {"none"}, got : Received, fired : Nat],
           pc[w] \in {"selected", "staged", "counting"}, Cascade => pc[w] # "selected",
           UNCHANGED <<stages, crew>>
    PROVE  Ordered'
<1> DEFINE k == stage[w]
<1> SUFFICES ASSUME Cascade', Alone'
             PROVE  Ordered'
  BY DEF Ordered
<1>1. Cascade /\ Alone /\ w \in Workers /\ k \in DOMAIN stages
  BY DEF Cascade, Alone, Typed
<1>2. crew = {w} /\ DOMAIN stages = {1, 2} /\ \A j \in {1, 2} : Limit(j) \in Nat \ {0}
  BY <1>1, OneThread, LimitPositive
<1>3. k = live.index /\ live'.index = live.index
  BY <1>1 DEF Ordered, InStage, Finish, Typed, State
<1>4. CASE out.event = "none"
  <2>1. events' = events /\ pc'[w] = "idle"
    BY <1>1, <1>4 DEF Finish, Return, Typed
  <2> QED
    BY <1>3, <2>1, OrderedQuiet DEF InStage
<1>5. CASE out.event # "none"
  <2>1. pc'[w] = "advancing" /\ stage'[w] = k
    BY <1>1, <1>5 DEF Finish, Enter, Typed
  <2>2. \A j : /\ EventsOf(j)' = IF j = k THEN EventsOf(j) \union {Len(events) + 1} ELSE EventsOf(j)
               /\ Shots(j)' = IF j = k THEN Shots(j) + 1 ELSE Shots(j)
               /\ Limit(j)' = Limit(j) /\ Shots(j) \in Nat
    <3>1. k \in DOMAIN stages /\ Finish(w, k, out)
      BY <1>1
    <3> HIDE DEF k
    <3>2. \A j : EventsOf(j)' = (IF j = k THEN EventsOf(j) \union {Len(events) + 1} ELSE EventsOf(j))
      BY <1>5, <3>1, EventsGrow
    <3>3. \A j : Cardinality(EventsOf(j)') =
                    (IF j = k THEN Cardinality(EventsOf(j)) + 1 ELSE Cardinality(EventsOf(j)))
      BY <1>5, <3>1, EventsGrow
    <3> QED
      BY <3>2, <3>3, EventCount DEF Shots, Limit
  <2> HIDE DEF k
  <2>3. /\ live.index \in 1..3 /\ Shots(k) < Limit(k)
        /\ \A j \in {1, 2} : (j < k => Shots(j) = Limit(j)) /\ (j > k => Shots(j) = 0)
        /\ \A i \in EventsOf(2), j \in EventsOf(1) : j < i
    <3>1. /\ live.index \in 1..3
          /\ \A j \in {1, 2} : (j < live.index => Shots(j) = Limit(j)) /\ (j > live.index => Shots(j) = 0)
          /\ \A i \in EventsOf(2), j \in EventsOf(1) : j < i
      BY <1>1 DEF Ordered
    <3>2. k \in {1, 2} /\ pc[w] # "advancing"
      BY <1>1, <1>2
    <3>3. Shots(k) < Limit(k)
      BY <1>1, <1>3, <3>2 DEF Ordered
    <3> QED
      BY <1>3, <3>1, <3>3
  <2>4. Shots(k) + 1 \in 1..Limit(k)
    BY <1>1, <1>2, <2>2, <2>3
  <2>5. \A i \in EventsOf(2)', j \in EventsOf(1)' : j < i
    <3>1. CASE k = 1
      <4>1. Shots(2) = 0
        BY <2>3, <3>1
      <4>2. EventsOf(2) = {}
        BY <4>1, EventCount, FS_EmptySet DEF Shots
      <4> QED
        BY <2>2, <3>1, <4>2
    <3>2. CASE k = 2
      <4>1. \A j \in EventsOf(1) : j < Len(events) + 1
        BY Sizes, LenProperties DEF EventsOf, Typed
      <4> QED
        BY <2>2, <2>3, <3>2, <4>1
    <3> QED
      BY <1>1, <1>2, <3>1, <3>2
  <2> QED
    BY <1>2, <1>3, <2>1, <2>2, <2>3, <2>4, <2>5 DEF Ordered
<1> QED
  BY <1>4, <1>5

LEMMA OrderedStep ==
    ASSUME Typed, Counts, EventBudget, Ordered, [Next]_vars
    PROVE  Ordered'
<1>1. ASSUME NEW w \in crew, NEW c \in CallSet, Select(w, c)
      PROVE  Ordered'
  <2>1. live'.index = live.index
    BY <1>1 DEF Select, Drawn, Typed, State
  <2>2. pc[w] = "idle" /\ pc'[w] \in {"copying", "selected"} /\ UNCHANGED <<stages, crew, events>>
    BY <1>1 DEF Select, Typed
  <2> QED
    BY <2>1, <2>2, OrderedQuiet DEF InStage
<1>2. ASSUME NEW w \in crew, MakeCopy(w)
      PROVE  Ordered'
  BY <1>2, OrderedQuiet DEF MakeCopy, Typed, InStage
<1>3. ASSUME NEW w \in crew, pc[w] # "advancing", Return(w), UNCHANGED <<stages, crew, events, live>>
      PROVE  Ordered'
  BY <1>3, OrderedQuiet DEF Return, Typed, InStage
<1>4. ASSUME NEW w \in crew, Act(w)
      PROVE  Ordered'
  <2>1. CASE Cascade
    BY <1>3, <1>4, <2>1 DEF Act
  <2>2. CASE ~Cascade
    BY <1>4, <2>2 DEF Act, Ordered, Cascade
  <2> QED
    BY <2>1, <2>2
<1>5. ASSUME NEW w \in crew, PickStage(w)
      PROVE  Ordered'
  <2>1. pc[w] = "selected" /\ UNCHANGED <<stages, crew, live, events>>
    BY <1>5 DEF PickStage
  <2>2. CASE Pending(live)
    <3>1. Enter(w, live.index, "staged")
      BY <1>5, <2>2 DEF PickStage
    <3> QED
      BY <2>1, <3>1, OrderedQuiet DEF Enter, Typed, InStage
  <2>3. CASE ~Pending(live)
    BY <1>3, <1>5, <2>1, <2>3 DEF PickStage
  <2> QED
    BY <2>2, <2>3
<1>6. ASSUME NEW w \in crew, FireStage(w)
      PROVE  Ordered'
  <2> DEFINE k == stage[w]
             out == Trigger(stages[k], call[w], live.fired[k])
  <2>1. /\ pc[w] = "staged" /\ Fire(w, k) /\ k \in DOMAIN stages /\ w \in Workers
        /\ UNCHANGED <<stages, crew>>
    BY <1>6 DEF FireStage, Typed
  <2>2. out \in [event : Kinds \union {"none"}, got : Received, fired : Nat]
    <3>1. live.fired[k] \in Nat
      BY <2>1, FireTyped
    <3>2. out \in [event : Kinds \union {"none"}, got : Received,
                  fired : {live.fired[k], live.fired[k] + 1}]
      BY <2>1, <3>1, FireTyped
    <3> HIDE DEF out
    <3> QED
      BY <3>1, <3>2
  <2>3. CASE Counted(k) /\ out.event # "none"
    <3>1. UNCHANGED <<live, events>> /\ pc'[w] = "counting" /\ stage'[w] = stage[w]
      BY <2>1, <2>3 DEF Fire, Enter, Typed
    <3>2. Cascade /\ Alone => stage'[w] = live.index
      BY <2>1, <3>1 DEF Ordered, InStage
    <3>3. CASE Alone
      BY <2>1, <3>1, <3>2, <3>3, OrderedQuiet
    <3>4. CASE ~Alone
      BY <2>1, <3>4 DEF Ordered, Alone
    <3> QED
      BY <3>3, <3>4
  <2>4. CASE ~(Counted(k) /\ out.event # "none")
    <3>1. Finish(w, stage[w], out)
      BY <2>1, <2>4 DEF Fire
    <3> HIDE DEF out
    <3> QED
      BY <2>1, <2>2, <3>1, FinishOrdered
  <2> QED
    BY <2>3, <2>4
<1>7. ASSUME NEW w \in crew, Count(w)
      PROVE  Ordered'
  <2> DEFINE k == stage[w]
             out == [Trigger(stages[k], call[w], 0) EXCEPT !.fired = live.fired[k] + 1]
  <2>1. /\ pc[w] = "counting" /\ k \in DOMAIN stages /\ Finish(w, stage[w], out) /\ w \in Workers
        /\ UNCHANGED <<stages, crew>>
    BY <1>7 DEF Count, Typed
  <2>2. /\ live.fired[k] \in Nat /\ Trigger(stages[k], call[w], 0) \in
           [event : Kinds \union {"none"}, got : Received, fired : {0, 0 + 1}]
    BY <2>1, FireTyped
  <2>3. out \in [event : Kinds \union {"none"}, got : Received, fired : Nat]
    BY <2>2
  <2> HIDE DEF k, out
  <2> QED
    BY <2>1, <2>3, FinishOrdered
<1>8. ASSUME NEW w \in crew, AdvanceStage(w)
      PROVE  Ordered'
  <2> DEFINE k == stage[w]
  <2> SUFFICES ASSUME Cascade', Alone'
               PROVE  Ordered'
    BY DEF Ordered
  <2>1. /\ pc[w] = "advancing" /\ pc'[w] = "idle" /\ w \in Workers /\ k \in DOMAIN stages
        /\ UNCHANGED <<stages, crew, events>> /\ live \in State
    BY <1>8 DEF AdvanceStage, Return, Typed
  <2>2. Cascade /\ Alone
    BY <2>1 DEF Cascade, Alone
  <2>3. crew = {w} /\ DOMAIN stages = {1, 2} /\ \A j \in {1, 2} : Limit(j) \in Nat \ {0}
    BY <2>2, OneThread, LimitPositive
  <2>4. \A j : EventsOf(j)' = EventsOf(j) /\ Shots(j)' = Shots(j) /\ Limit(j)' = Limit(j)
    BY <2>1 DEF EventsOf, Shots, Limit
  <2>5. k = live.index /\ k \in {1, 2} /\ Shots(k) \in 1..Limit(k)
        /\ (\A j \in {1, 2} : (j < k => Shots(j) = Limit(j)) /\ (j > k => Shots(j) = 0))
        /\ (\A i \in EventsOf(2), j \in EventsOf(1) : j < i)
    <3>1. /\ \A j \in {1, 2} : (j < live.index => Shots(j) = Limit(j)) /\ (j > live.index => Shots(j) = 0)
          /\ \A i \in EventsOf(2), j \in EventsOf(1) : j < i
      BY <2>2 DEF Ordered
    <3>2. k = live.index /\ k \in {1, 2}
      BY <2>1, <2>2, <2>3 DEF Ordered, InStage
    <3>3. Shots(k) \in 1..Limit(k)
      BY <2>1, <2>2, <3>2 DEF Ordered
    <3> QED
      BY <3>1, <3>2, <3>3
  <2>6. stages[k].type = "rate_limit_storm" =>
           Shots(k) = live.fired[k] /\ Limit(k) = stages[k].budget
    BY <2>1 DEF EventBudget, Counted, Shots, Limit
  <2>7. stages[k].type # "rate_limit_storm" => Limit(k) = 1
    BY DEF Limit
  <2>8. live'.index = IF StageOver(k, live.fired[k]) THEN k + 1 ELSE k
    BY <1>8, <2>1, <2>5 DEF AdvanceStage, State
  <2> HIDE DEF k
  <2>9. CASE StageOver(k, live.fired[k])
    <3>1. Shots(k) = Limit(k) /\ live'.index = k + 1
      BY <2>3, <2>5, <2>6, <2>7, <2>8, <2>9 DEF StageOver
    <3>2. CASE k = 1
      <4>1. Shots(2) = 0 /\ 0 < Limit(2) /\ live'.index = 2
        BY <2>3, <2>5, <3>1, <3>2
      <4> QED
        BY <2>1, <2>3, <2>4, <2>5, <3>1, <3>2, <4>1 DEF Ordered, InStage
    <3>3. CASE k = 2
      <4>1. Shots(1) = Limit(1) /\ live'.index = 3
        BY <2>5, <3>1, <3>3
      <4> QED
        BY <2>1, <2>3, <2>4, <2>5, <3>1, <3>3, <4>1 DEF Ordered, InStage
    <3> QED
      BY <2>5, <3>2, <3>3
  <2>10. CASE ~StageOver(k, live.fired[k])
    <3>1. Shots(k) < Limit(k) /\ live'.index = k
      <4>1. stages[k].type = "rate_limit_storm" /\ ~(live.fired[k] >= stages[k].budget)
        BY <2>10 DEF StageOver
      <4>2. Shots(k) # Limit(k)
        BY <2>3, <2>5, <2>6, <4>1
      <4> QED
        BY <2>3, <2>5, <2>8, <2>10, <4>2
    <3> QED
      BY <2>1, <2>3, <2>4, <2>5, <3>1 DEF Ordered, InStage
  <2> QED
    BY <2>9, <2>10
<1>9. CASE UNCHANGED vars
  BY <1>9 DEF vars, Ordered, Cascade, Alone, Shots, EventsOf, Limit
<1> QED
  BY <1>1, <1>2, <1>4, <1>5, <1>6, <1>7, <1>8, <1>9 DEF Next, Done

\* Without concurrency a cascade fires its first stage until it is over and only then
\* the second one, each as often as its kind says.
THEOREM CascadeInOrderAlways == Spec => []CascadeInOrder
<1> DEFINE Inv == Typed /\ Counts /\ EventBudget /\ Ordered
<1>1. Init => Inv
  <2> SUFFICES ASSUME Init PROVE Inv
    OBVIOUS
  <2>1. Typed /\ Counts /\ EventBudget
    BY TypedInit, CountsInit, EventBudgetInit
  <2>2. \A k : EventsOf(k) = {} /\ Shots(k) = 0
    BY FS_EmptySet DEF Init, EventsOf, Shots
  <2>3. live.index = 1 /\ \A x \in Workers : pc[x] = "idle"
    BY DEF Init, Fresh
  <2>4. Cascade => Limit(1) > 0
    BY <2>1, LimitPositive
  <2>5. Ordered
    BY <2>1, <2>2, <2>3, <2>4 DEF Ordered, InStage, Typed
  <2> QED
    BY <2>1, <2>5
<1>2. Inv /\ [Next]_vars => Inv'
  BY TypedStep, CountsStep, EventBudgetStep, OrderedStep
<1>3. Inv => CascadeInOrder
  <2> SUFFICES ASSUME Inv, Cascade, Alone
               PROVE  /\ \A k \in {1, 2} : Shots(k) <= Limit(k)
                      /\ \A i \in EventsOf(2) : \A j \in EventsOf(1) : j < i
                      /\ EventsOf(2) # {} => Shots(1) = Limit(1)
                      /\ live.index \in 1..3
    BY DEF CascadeInOrder, Shots, Limit
  <2>1. \A k \in {1, 2} : Limit(k) \in Nat \ {0} /\ Shots(k) \in Nat
    BY LimitPositive, EventCount DEF Shots
  <2>2. PICK w : w \in crew
    BY DEF Typed
  <2>3. /\ live.index \in 1..3
        /\ \A k \in {1, 2} : /\ k < live.index => Shots(k) = Limit(k)
                             /\ k > live.index => Shots(k) = 0
        /\ \A i \in EventsOf(2), j \in EventsOf(1) : j < i
    BY DEF Ordered
  <2>4. ASSUME NEW k \in {1, 2}
        PROVE  Shots(k) <= Limit(k)
    <3>1. CASE k = live.index
      <4>1. Shots(k) \in 1..Limit(k) \/ Shots(k) < Limit(k)
        BY <2>2, <3>1 DEF Ordered
      <4> QED
        BY <2>1, <4>1
    <3>2. CASE k # live.index
      BY <2>1, <2>3, <3>2
    <3> QED
      BY <3>1, <3>2
  <2>5. ASSUME EventsOf(2) # {}
        PROVE  Shots(1) = Limit(1)
    <3>1. Shots(2) # 0
      BY <2>5, EventCount, FS_EmptySet DEF Shots
    <3>2. ~(2 > live.index)
      BY <2>3, <3>1
    <3>3. 1 < live.index
      BY <2>3, <3>2
    <3> QED
      BY <2>3, <3>3
  <2> QED
    BY <2>3, <2>4, <2>5
<1> QED
  BY <1>1, <1>2, <1>3, PTL DEF Spec

-----------------------------------------------------------------------------
(* What a preview predicts.                                                *)

\* Two states of a fault that select, draw and advance alike.
Agree(a, b) ==
    /\ a.index = b.index /\ a.drawn = b.drawn
    /\ \A k \in DOMAIN stages : Counted(k) => a.fired[k] = b.fired[k]

Preview == IF current = NoCopy THEN Fresh ELSE copies[current]
Times == [i \in DOMAIN events |-> events[i].at]

\* The live state once the stage k that has fired makes room for the next.
Advanced(k) ==
    IF StageOver(k, live.fired[k]) THEN [live EXCEPT !.index = @ + 1] ELSE live

LEMMA EligibleAgree ==
    ASSUME NEW k \in DOMAIN stages, NEW a, NEW b, NEW c, Agree(a, b)
    PROVE  StageEligible(k, c, a) <=> StageEligible(k, c, b)
<1>1. CASE Counted(k)
  BY <1>1, EligibleCounted DEF Agree
<1>2. CASE ~Counted(k)
  <2>1. stages[k].type # "rate_limit_storm" /\ stages[k].type # "infinite_loop"
    BY <1>2 DEF Counted
  <2>2. CASE stages[k].type = "tool_failure"
    BY <2>2, Zenon DEF StageEligible, Counted
  <2>3. CASE stages[k].type = "handoff_corruption"
    BY <2>3, Zenon DEF StageEligible, Counted
  <2>4. CASE stages[k].type # "tool_failure" /\ stages[k].type # "handoff_corruption"
    BY <2>1, <2>4, Zenon DEF StageEligible, Counted
  <2> QED
    BY <2>2, <2>3, <2>4
<1> QED
  BY <1>1, <1>2

LEMMA SelectAgree ==
    ASSUME NEW a \in State, NEW b \in State, NEW c, Agree(a, b)
    PROVE  /\ Pending(a) <=> Pending(b)
           /\ InScope(c, a) <=> InScope(c, b)
           /\ Selected(c, a) <=> Selected(c, b)
           /\ Agree(Drawn(c, a), Drawn(c, b))
<1>1. (Pending(a) <=> Pending(b)) /\ (InScope(c, a) <=> InScope(c, b)) /\ (Draws(a) <=> Draws(b))
  BY DEF Agree, Pending, InScope, Draws
<1>2. ShouldTrigger(a) <=> ShouldTrigger(b)
  BY <1>1 DEF Agree, ShouldTrigger
<1>3. Eligible(c, a) <=> Eligible(c, b)
  <2>1. Pending(a) => (StageEligible(a.index, c, a) <=> StageEligible(b.index, c, b))
    BY EligibleAgree DEF Pending, Agree
  <2> QED
    BY <1>1, <2>1 DEF Eligible
<1>4. Agree(Drawn(c, a), Drawn(c, b))
  BY <1>1 DEF Drawn, Agree, State
<1> QED
  BY <1>1, <1>2, <1>3, <1>4 DEF Selected

LEMMA AdvanceAgree ==
    ASSUME NEW a \in State, NEW b \in State, Agree(a, b), Pending(a)
    PROVE  Agree(AdvancePreview(a), AdvancePreview(b))
<1> DEFINE k == a.index
           n(st) == IF Counted(k) THEN st.fired[k] + 1 ELSE st.fired[k]
           i(st) == IF Cascade /\ StageOver(k, n(st)) THEN k + 1 ELSE k
<1>1. k \in DOMAIN stages /\ b.index = k
  BY DEF Pending, Agree
<1>2. /\ AdvancePreview(a) = [a EXCEPT !.fired[k] = n(a), !.index = i(a)]
      /\ AdvancePreview(b) = [b EXCEPT !.fired[k] = n(b), !.index = i(b)]
  BY <1>1 DEF AdvancePreview
<1>3. Counted(k) => n(a) = n(b)
  BY <1>1 DEF Agree
<1>4. i(a) = i(b)
  BY <1>3 DEF StageOver, Counted
<1> HIDE DEF n, i, k
<1> QED
  BY <1>1, <1>2, <1>3, <1>4 DEF Agree, State

LEMMA AgreeTransitive ==
    ASSUME NEW a, NEW b, NEW c, Agree(a, b), Agree(b, c)
    PROVE  Agree(a, c) /\ Agree(b, a)
  BY DEF Agree

\* The stage that fires brings the live state to where the preview already is.
LEMMA FiredAgrees ==
    ASSUME stages \in Campaigns, live \in State, NEW n \in Nat, Pending(live), UNCHANGED stages,
           live' = [live EXCEPT !.fired[live.index] = n],
           Counted(live.index) => n = live.fired[live.index] + 1
    PROVE  /\ live'.index = live.index
           /\ IF Cascade THEN Agree(Advanced(live.index)', AdvancePreview(live))
                         ELSE Agree(live', AdvancePreview(live))
<1> DEFINE k == live.index
           m == IF Counted(k) THEN live.fired[k] + 1 ELSE live.fired[k]
           i == IF Cascade /\ StageOver(k, m) THEN k + 1 ELSE k
<1>1. k \in DOMAIN stages /\ live.index = k
  BY DEF Pending
<1>2. AdvancePreview(live) = [live EXCEPT !.fired[k] = m, !.index = i]
  BY DEF AdvancePreview
<1>3. Counted(k) => m = n
  OBVIOUS
<1>4. StageOver(k, m) <=> StageOver(k, n)
  BY <1>3 DEF StageOver, Counted
<1>5. live' = [live EXCEPT !.fired[k] = n]
  OBVIOUS
<1> HIDE DEF k
<1>6. live'.fired[k] = n /\ live'.index = k /\ live' \in State
  BY <1>1, <1>5 DEF State
<1>7. \A j \in DOMAIN stages : Counted(j) => live'.fired[j] = AdvancePreview(live).fired[j]
  BY <1>1, <1>2, <1>3, <1>5 DEF State
<1>8. live'.drawn = AdvancePreview(live).drawn /\ AdvancePreview(live).index = i
  BY <1>2, <1>5 DEF State
<1>9. CASE Cascade
  <2>1. /\ StageOver(k, live'.fired[k]) => Agree([live' EXCEPT !.index = @ + 1], AdvancePreview(live))
        /\ ~StageOver(k, live'.fired[k]) => Agree(live', AdvancePreview(live))
    BY <1>4, <1>6, <1>7, <1>8, <1>9 DEF Agree, State
  <2>2. Agree(IF StageOver(k, live'.fired[k]) THEN [live' EXCEPT !.index = @ + 1] ELSE live',
              AdvancePreview(live))
    BY <2>1
  <2> QED
    BY <1>1, <1>6, <1>9, <2>2 DEF Advanced, StageOver
<1>10. CASE ~Cascade
  BY <1>1, <1>6, <1>7, <1>8, <1>10 DEF Agree
<1> QED
  BY <1>9, <1>10

\* The preview is where the live fault is or, between the plan of a call and the end of
\* its injection, where the live fault is about to be.
InStep(w) ==
    /\ plans = IF pc[w] \in {"staged", "counting"} THEN Append(Times, begun) ELSE Times
    /\ pc[w] = "idle" => Agree(live, Preview)
    /\ pc[w] = "copying" =>
           /\ current = NoCopy /\ Agree(live, Drawn(call[w], Fresh))
           /\ go[w].live <=> Selected(call[w], Fresh)
    /\ pc[w] = "selected" =>
           /\ Agree(live, Preview) /\ (go[w].live <=> go[w].preview)
           /\ go[w].live => Pending(live) /\ current = w /\ held[w] = w
    /\ pc[w] \in {"staged", "counting"} =>
           stage[w] = live.index /\ Pending(live) /\ Agree(AdvancePreview(live), Preview)
    /\ pc[w] = "advancing" => stage[w] = live.index /\ Agree(Advanced(stage[w]), Preview)

Lockstep == (Alone /\ ~diverged) => \A w \in crew : InStep(w)

LEMMA PreviewType ==
    ASSUME Typed
    PROVE  Preview \in State
  BY FreshType DEF Preview, Typed

LEMMA TimesType ==
    ASSUME Typed
    PROVE  Times \in Seq(Nat) /\ Len(Times) = Len(events)
<1>1. DOMAIN events = 1..Len(events) /\ Len(events) \in Nat /\ events \in Seq(Event)
  BY LenProperties DEF Typed
<1>2. \A i \in DOMAIN events : events[i].at \in Nat
  <2>1. \A i \in DOMAIN events : events[i] \in Event
    BY <1>1, ElementOfSeq
  <2> QED
    BY <2>1 DEF Event
<1>3. Times \in [1..Len(events) -> Nat]
  BY <1>1, <1>2 DEF Times
<1> QED
  BY <1>1, <1>3, IsASeq, LenProperties

\* An event adds the number of its call.
LEMMA TimesGrow ==
    ASSUME Typed, NEW r, r.at = begun, events' = Append(events, r)
    PROVE  Times' = Append(Times, begun)
<1>1. /\ DOMAIN events = 1..Len(events) /\ Len(events) \in Nat /\ events \in Seq(Event)
      /\ begun \in Nat
  BY LenProperties, Sizes DEF Typed
<1>2. /\ DOMAIN events' = 1..(Len(events) + 1) /\ events'[Len(events) + 1] = r
      /\ \A i \in 1..Len(events) : events'[i] = events[i]
  BY <1>1
<1>3. Times \in Seq(Nat) /\ Len(Times) = Len(events)
  BY TimesType
<1>4. /\ Append(Times, begun) \in Seq(Nat) /\ Len(Append(Times, begun)) = Len(events) + 1
      /\ \A i \in 1..Len(events) : Append(Times, begun)[i] = Times[i]
      /\ Append(Times, begun)[Len(events) + 1] = begun
  BY <1>1, <1>3, AppendProperties
<1>5. Times' = [i \in 1..(Len(events) + 1) |-> events'[i].at]
  BY <1>2 DEF Times
<1>6. Append(Times, begun) = [i \in 1..(Len(events) + 1) |-> Append(Times, begun)[i]]
  BY <1>4, LenProperties
<1>7. \A i \in 1..(Len(events) + 1) : events'[i].at = Append(Times, begun)[i]
  <2>1. ASSUME NEW i \in 1..Len(events)
        PROVE  events'[i].at = Append(Times, begun)[i]
    BY <1>1, <1>2, <1>4, <2>1 DEF Times
  <2>2. \A i \in 1..(Len(events) + 1) : i \in 1..Len(events) \/ i = Len(events) + 1
    BY <1>1
  <2> QED
    BY <1>2, <1>4, <2>1, <2>2
<1> QED
  BY <1>5, <1>6, <1>7

\* The stage at the index is done with the call of the only thread.
LEMMA FinishLockstep ==
    ASSUME Typed, Alone, ~diverged', NEW w \in crew, NEW k \in DOMAIN stages, NEW out,
           Finish(w, k, out), k = live.index, pc[w] # "idle",
           out \in [event : Kinds \union {"none"}, got : Received, fired : Nat],
           Counted(k) => out.fired = live.fired[k] + 1,
           Agree(AdvancePreview(live), Preview'), plans' = Append(Times, begun),
           UNCHANGED <<stages, crew>>
    PROVE  Lockstep'
<1>1. crew = {w} /\ w \in Workers
  BY OneThread DEF Typed
<1>2. out.event # "none" /\ events' = Append(events, Record(k, call[w], out))
      /\ live' = [live EXCEPT !.fired[k] = out.fired]
  BY DEF Finish
<1>3. Times' = Append(Times, begun)
  BY <1>2, TimesGrow DEF Record
<1>4. /\ live'.index = k
      /\ IF Cascade THEN Agree(Advanced(k)', AdvancePreview(live)) ELSE Agree(live', AdvancePreview(live))
  <2>1. stages \in Campaigns /\ live \in State /\ Pending(live) /\ out.fired \in Nat
    BY DEF Typed, Pending
  <2>2. /\ live'.index = live.index
        /\ IF Cascade THEN Agree(Advanced(live.index)', AdvancePreview(live))
                      ELSE Agree(live', AdvancePreview(live))
    BY <1>2, <2>1, FiredAgrees
  <2>3. Advanced(live.index)' = Advanced(k)'
    BY <2>2
  <2> QED
    BY <2>2, <2>3
<1>5. CASE Cascade
  <2>1. pc'[w] = "advancing" /\ stage'[w] = k
    BY <1>1, <1>2, <1>5 DEF Finish, Enter, Typed
  <2>2. Agree(Advanced(k)', Preview')
    BY <1>4, <1>5, AgreeTransitive
  <2>3. Agree(Advanced(stage[w]), Preview)'
    BY <2>1, <2>2 DEF Agree, Counted, Advanced, StageOver
  <2> QED
    BY <1>1, <1>3, <1>4, <2>1, <2>3 DEF Lockstep, InStep
<1>6. CASE ~Cascade
  <2>1. pc'[w] = "idle"
    BY <1>1, <1>6 DEF Finish, Return, Typed
  <2>2. Agree(live', Preview')
    BY <1>4, <1>6, AgreeTransitive
  <2>3. Agree(live, Preview)'
    BY <2>2 DEF Agree, Counted
  <2> QED
    BY <1>1, <1>3, <2>1, <2>3 DEF Lockstep, InStep
<1> QED
  BY <1>5, <1>6

\* A stage of the only thread's call triggers, after the call was planned.
LEMMA FireLockstep ==
    ASSUME Typed, Alone, ~diverged', NEW w \in crew, Fire(w, live.index), pc[w] # "idle",
           Pending(live), Agree(AdvancePreview(live), Preview'), plans' = Append(Times, begun),
           UNCHANGED <<stages, crew, begun>>
    PROVE  Lockstep'
<1> DEFINE k == live.index
           out == Trigger(stages[k], call[w], live.fired[k])
<1>1. crew = {w} /\ w \in Workers /\ k \in DOMAIN stages
  BY OneThread DEF Typed, Pending
<1>2. out \in [event : Kinds \union {"none"}, got : Received, fired : Nat]
  <2>1. live.fired[k] \in Nat
    BY <1>1, FireTyped
  <2>2. out \in [event : Kinds \union {"none"}, got : Received,
                fired : {live.fired[k], live.fired[k] + 1}]
    BY <1>1, <2>1, FireTyped
  <2> HIDE DEF out
  <2> QED
    BY <2>1, <2>2
<1>3. CASE Counted(k) /\ out.event # "none"
  <2>1. Enter(w, k, "counting") /\ UNCHANGED <<live, events, diverged>>
    BY <1>3 DEF Fire
  <2>2. pc'[w] = "counting" /\ stage'[w] = live'.index /\ Times' = Times
    BY <1>1, <2>1 DEF Enter, Typed, Times
  <2>3. (Pending(live) /\ Agree(AdvancePreview(live), Preview))'
    BY <2>1 DEF Pending, Agree, Counted, AdvancePreview, StageOver, Cascade
  <2> QED
    BY <1>1, <2>2, <2>3 DEF Lockstep, InStep
<1>4. CASE ~(Counted(k) /\ out.event # "none")
  <2>1. Finish(w, k, out)
    BY <1>4 DEF Fire
  <2>2. out.event # "none" /\ ~Counted(k)
    BY <1>4, <2>1 DEF Finish
  <2> HIDE DEF out, k
  <2> QED
    BY <1>1, <1>2, <2>1, <2>2, FinishLockstep DEF k
<1> QED
  BY <1>3, <1>4

\* The selection of a call, in both sessions.
LEMMA SelectLockstep ==
    ASSUME Typed, CopiesFresh, Alone, NEW w \in crew, InStep(w), NEW c \in CallSet, Select(w, c)
    PROVE  InStep(w)'
<1> DEFINE peeked == IF current = NoCopy THEN Fresh ELSE copies[current]
           copying == current = NoCopy /\ InScope(c, peeked)
<1>1. /\ pc[w] = "idle" /\ w \in Workers /\ peeked \in State /\ live \in State
      /\ current \in {w, NoCopy} /\ w # NoCopy
  BY OneThread, PreviewType, FaultsAssumption DEF Select, CopiesFresh, Typed, Preview
<1>2. /\ live' = Drawn(c, live) /\ call'[w] = c /\ held'[w] = current
      /\ go'[w] = [live |-> Selected(c, live), preview |-> ~copying /\ Selected(c, peeked)]
      /\ copies' = IF current = NoCopy THEN copies ELSE [copies EXCEPT ![current] = Drawn(c, peeked)]
      /\ pc'[w] = IF copying THEN "copying" ELSE "selected"
      /\ UNCHANGED <<stages, seed, crew, current, stage, events, plans, diverged>>
  BY <1>1 DEF Select, Typed
<1>3. Agree(live, peeked) /\ plans = Times
  BY <1>1 DEF InStep, Preview
<1>4. /\ InScope(c, live) <=> InScope(c, peeked)
      /\ Selected(c, live) <=> Selected(c, peeked)
      /\ Agree(Drawn(c, live), Drawn(c, peeked))
  BY <1>1, <1>3, SelectAgree
<1>5. plans' = Times' /\ \A a, b : Agree(a, b)' <=> Agree(a, b)
  BY <1>2, <1>3 DEF Times, Agree, Counted
<1>6. CASE copying
  <2>1. peeked = Fresh /\ current = NoCopy
    BY <1>6
  <2>2. Agree(live, Drawn(call[w], Fresh))'
    BY <1>2, <1>4, <2>1 DEF Agree, Counted, Drawn, InScope, Draws, Pending, Fresh
  <2>3. (go[w].live <=> Selected(call[w], Fresh))'
    <3>1. call'[w] = c /\ stages' = stages /\ seed' = seed /\ Fresh' = Fresh
      BY <1>2 DEF Fresh
    <3>2. Selected(call[w], Fresh)' <=> Selected(c, Fresh)
      BY <3>1, Zenon DEF Selected, InScope, ShouldTrigger, Draws, Pending, Eligible,
                         StageEligible, Counted
    <3>3. go'[w].live <=> Selected(c, live)
      BY <1>2
    <3> QED
      BY <1>4, <2>1, <3>2, <3>3
  <2> QED
    BY <1>2, <1>5, <1>6, <2>1, <2>2, <2>3 DEF InStep
<1>7. CASE ~copying
  <2>1. pc'[w] = "selected" /\ (go'[w].live <=> go'[w].preview)
    <3>1. go'[w].live = Selected(c, live) /\ go'[w].preview = (~copying /\ Selected(c, peeked))
      BY <1>2
    <3>2. pc'[w] = "selected"
      BY <1>2, <1>7
    <3> HIDE DEF copying, peeked
    <3> QED
      BY <1>4, <1>7, <3>1, <3>2, Zenon
  <2>2. Agree(live', Preview')
    <3>1. CASE current = NoCopy
      <4>1. ~InScope(c, live) /\ ~InScope(c, peeked)
        BY <1>4, <1>7, <3>1
      <4>2. live' = live /\ Preview' = peeked
        BY <1>2, <3>1, <4>1 DEF Drawn, Preview, Fresh
      <4> QED
        BY <1>3, <4>2
    <3>2. CASE current = w
      <4>1. Preview' = Drawn(c, peeked)
        BY <1>1, <1>2, <3>2 DEF Preview, Typed
      <4> QED
        BY <1>2, <1>4, <4>1
    <3> QED
      BY <1>1, <3>1, <3>2
  <2>3. Agree(live, Preview)'
    BY <1>2, <2>2 DEF Agree, Counted
  <2>4. ASSUME go'[w].live
        PROVE  Pending(live)' /\ current' = w /\ held'[w] = w
    <3>1. Selected(c, live)
      BY <1>2, <2>4
    <3>2. InScope(c, peeked) /\ Pending(live)
      BY <1>4, <3>1 DEF Selected, ShouldTrigger
    <3>3. current = w
      BY <1>1, <1>7, <3>2
    <3>4. live'.index = live.index
      BY <1>1, <1>2 DEF Drawn, State
    <3> QED
      BY <1>2, <3>2, <3>3, <3>4 DEF Pending
  <2> QED
    BY <1>5, <2>1, <2>3, <2>4 DEF InStep
<1> QED
  BY <1>6, <1>7

LEMMA LockstepStep ==
    ASSUME Typed, Counts, CopiesFresh, EventBudget, Lockstep, [Next]_vars
    PROVE  Lockstep'
<1> SUFFICES ASSUME Alone', ~diverged'
             PROVE  Lockstep'
  BY DEF Lockstep
<1>0. UNCHANGED <<stages, crew>> /\ (diverged => diverged')
  <2>1. ASSUME NEW w \in crew, NEW k, Fire(w, k)
        PROVE  diverged => diverged'
    BY <2>1 DEF Fire, Finish
  <2>2. ASSUME NEW w \in crew, Act(w) \/ FireStage(w)
        PROVE  UNCHANGED <<stages, crew>> /\ (diverged => diverged')
    BY <2>1, <2>2 DEF Act, FireStage
  <2>3. ASSUME NEW w \in crew, (\E c \in CallSet : Select(w, c)) \/ MakeCopy(w) \/ AdvanceStage(w)
        PROVE  UNCHANGED <<stages, crew>> /\ (diverged => diverged')
    BY <2>3 DEF Select, MakeCopy, AdvanceStage
  <2>4. ASSUME NEW w \in crew, PickStage(w) \/ Count(w)
        PROVE  UNCHANGED <<stages, crew>> /\ (diverged => diverged')
    BY <2>4 DEF PickStage, Count, Finish
  <2>5. CASE UNCHANGED vars
    BY <2>5 DEF vars
  <2> QED
    BY <2>2, <2>3, <2>4, <2>5 DEF Next, Done
<1>1. Alone /\ \A w \in crew : crew = {w} /\ w \in Workers /\ InStep(w)
  BY <1>0, OneThread DEF Alone, Lockstep, Typed
<1>2. ASSUME NEW w \in crew, InStep(w)'
      PROVE  Lockstep'
  BY <1>0, <1>1, <1>2 DEF Lockstep
<1>3. ASSUME NEW w \in crew, NEW c \in CallSet, Select(w, c)
      PROVE  Lockstep'
  BY <1>1, <1>2, <1>3, SelectLockstep
<1>4. ASSUME NEW w \in crew, MakeCopy(w)
      PROVE  Lockstep'
  <2>1. /\ pc[w] = "copying" /\ w \in Workers /\ w # NoCopy /\ call[w] \in CallSet
        /\ current' = w /\ copies' = [copies EXCEPT ![w] = Drawn(call[w], Fresh)]
        /\ held'[w] = w /\ pc'[w] = "selected"
        /\ go'[w] = [go[w] EXCEPT !.preview = Selected(call[w], Fresh)]
        /\ UNCHANGED <<stages, live, events, plans>>
    BY <1>1, <1>4, FaultsAssumption DEF MakeCopy, Typed
  <2>2. /\ plans = Times /\ Agree(live, Drawn(call[w], Fresh))
        /\ go[w].live <=> Selected(call[w], Fresh)
    BY <1>1, <2>1 DEF InStep
  <2>3. go'[w].live = go[w].live /\ go'[w].preview = Selected(call[w], Fresh)
    BY <2>1 DEF Typed
  <2>4. Agree(live, Preview)' /\ plans' = Times'
    BY <2>1, <2>2 DEF Preview, Agree, Counted, Times, Typed
  <2>5. go[w].live => Pending(live)'
    <3>1. Selected(call[w], Fresh) => Pending(Fresh)
      BY DEF Selected, ShouldTrigger
    <3>2. live.index = Fresh.index
      BY <2>2 DEF Agree, Drawn, Fresh
    <3> QED
      BY <2>1, <2>2, <3>1, <3>2 DEF Pending
  <2>6. go'[w].live <=> go'[w].preview
    BY <2>2, <2>3
  <2>7. InStep(w)'
    BY <2>1, <2>3, <2>4, <2>5, <2>6 DEF InStep
  <2> QED
    BY <1>2, <2>7
<1>5. ASSUME NEW w \in crew, pc[w] = "selected", Plan(w), ~go[w].live, Return(w),
             UNCHANGED <<stages, live, events, current>>
      PROVE  Lockstep'
  <2>1. Agree(live, Preview) /\ plans = Times /\ ~go[w].preview
    BY <1>1, <1>5 DEF InStep
  <2>2. UNCHANGED <<copies, plans>> /\ pc'[w] = "idle"
    BY <1>1, <1>5, <2>1 DEF Plan, Return, Typed
  <2>3. Agree(live, Preview)' /\ plans' = Times'
    BY <1>5, <2>1, <2>2 DEF Agree, Counted, Preview, Fresh, Times
  <2>4. InStep(w)'
    BY <2>2, <2>3 DEF InStep
  <2> QED
    BY <1>2, <2>4
<1>6. ASSUME NEW w \in crew, pc[w] = "selected", Plan(w), go[w].live, UNCHANGED <<stages, current>>
      PROVE  /\ Pending(live) /\ plans' = Append(Times, begun)
             /\ Agree(AdvancePreview(live), Preview')
  <2>1. /\ Agree(live, Preview) /\ plans = Times /\ go[w].preview /\ Pending(live)
        /\ current = w /\ held[w] = w /\ w \in Workers /\ w # NoCopy /\ copies[w] \in State
        /\ live \in State
    <3>1. w \in Workers /\ w # NoCopy /\ copies[w] \in State /\ live \in State
      BY <1>1, FaultsAssumption DEF Typed
    <3>2. /\ Agree(live, Preview) /\ plans = Times /\ (go[w].live <=> go[w].preview)
          /\ go[w].live => Pending(live) /\ current = w /\ held[w] = w
      BY <1>1, <1>6 DEF InStep
    <3> QED
      BY <1>6, <3>1, <3>2
  <2>2. Preview = copies[w] /\ Pending(copies[w])
    BY <2>1 DEF Preview, Agree, Pending
  <2>3. plans' = Append(plans, begun) /\ copies' = [copies EXCEPT ![w] = AdvancePreview(copies[w])]
    BY <1>6, <2>1, <2>2 DEF Plan
  <2>4. Preview' = AdvancePreview(copies[w])
    BY <1>6, <2>1, <2>3 DEF Preview, Typed
  <2> QED
    BY <2>1, <2>2, <2>3, <2>4, AdvanceAgree
<1>7. ASSUME NEW w \in crew, Act(w)
      PROVE  Lockstep'
  <2>1. pc[w] = "selected" /\ Plan(w) /\ (~Cascade \/ ~go[w].live) /\ UNCHANGED <<stages, current, begun>>
    BY <1>7 DEF Act, Spent
  <2>2. CASE ~go[w].live
    BY <1>5, <1>7, <2>1, <2>2 DEF Act
  <2>3. CASE go[w].live
    <3>1. Pending(live) /\ plans' = Append(Times, begun) /\ Agree(AdvancePreview(live), Preview')
      BY <1>6, <2>1, <2>3
    <3>2. live.index = 1
      BY <2>1, <2>3 DEF Counts
    <3>3. Fire(w, live.index)
      BY <1>7, <2>3, <3>2 DEF Act
    <3> QED
      BY <1>0, <1>1, <2>1, <3>1, <3>3, FireLockstep
  <2> QED
    BY <2>2, <2>3
<1>8. ASSUME NEW w \in crew, PickStage(w)
      PROVE  Lockstep'
  <2>1. /\ pc[w] = "selected" /\ Plan(w) /\ go[w].live /\ w \in Workers
        /\ UNCHANGED <<stages, current, begun, live, events>>
    BY <1>1, <1>8 DEF PickStage, Spent
  <2>2. Pending(live) /\ plans' = Append(Times, begun) /\ Agree(AdvancePreview(live), Preview')
    BY <1>6, <2>1
  <2>3. pc'[w] = "staged" /\ stage'[w] = live.index
    BY <1>8, <2>1, <2>2 DEF PickStage, Enter, Typed
  <2>4. (Pending(live) /\ Agree(AdvancePreview(live), Preview))' /\ Times' = Times
    BY <2>1, <2>2 DEF Pending, Agree, Counted, AdvancePreview, StageOver, Cascade, Times
  <2>5. InStep(w)'
    BY <2>1, <2>2, <2>3, <2>4 DEF InStep
  <2> QED
    BY <1>2, <2>5
<1>9. ASSUME NEW w \in crew, pc[w] \in {"staged", "counting"},
             UNCHANGED <<stages, copies, current, begun, plans>>
      PROVE  /\ stage[w] = live.index /\ Pending(live) /\ plans' = Append(Times, begun)
             /\ Agree(AdvancePreview(live), Preview')
  BY <1>1, <1>9 DEF InStep, Preview, Fresh
<1>10. ASSUME NEW w \in crew, FireStage(w)
       PROVE  Lockstep'
  <2>1. pc[w] = "staged" /\ Fire(w, stage[w]) /\ UNCHANGED <<stages, copies, current, begun, plans>>
    BY <1>10 DEF FireStage
  <2>2. /\ stage[w] = live.index /\ Pending(live) /\ plans' = Append(Times, begun)
        /\ Agree(AdvancePreview(live), Preview')
    BY <1>9, <2>1
  <2> QED
    BY <1>0, <1>1, <2>1, <2>2, FireLockstep
<1>11. ASSUME NEW w \in crew, Count(w)
       PROVE  Lockstep'
  <2> DEFINE k == stage[w]
             out == [Trigger(stages[k], call[w], 0) EXCEPT !.fired = live.fired[k] + 1]
  <2>1. /\ pc[w] = "counting" /\ Finish(w, k, out) /\ w \in Workers /\ k \in DOMAIN stages
        /\ UNCHANGED <<stages, copies, current, begun, plans>>
    BY <1>1, <1>11 DEF Count, Typed
  <2>2. /\ k = live.index /\ Pending(live) /\ plans' = Append(Times, begun)
        /\ Agree(AdvancePreview(live), Preview')
    BY <1>9, <2>1
  <2>3. live.fired[k] \in Nat /\ Trigger(stages[k], call[w], 0) \in
           [event : Kinds \union {"none"}, got : Received, fired : {0, 0 + 1}]
    BY <2>1, FireTyped
  <2>4. /\ out \in [event : Kinds \union {"none"}, got : Received, fired : Nat]
        /\ out.fired = live.fired[k] + 1
    BY <2>3
  <2> HIDE DEF k, out
  <2> QED
    BY <1>0, <1>1, <2>1, <2>2, <2>4, FinishLockstep
<1>12. ASSUME NEW w \in crew, AdvanceStage(w)
       PROVE  Lockstep'
  <2>1. /\ pc[w] = "advancing" /\ pc'[w] = "idle" /\ w \in Workers
        /\ live' = Advanced(stage[w])
        /\ UNCHANGED <<stages, copies, current, events, plans>>
    BY <1>1, <1>12 DEF AdvanceStage, Return, Typed, Advanced
  <2>2. plans = Times /\ Agree(Advanced(stage[w]), Preview)
    BY <1>1, <2>1 DEF InStep
  <2>3. Agree(live, Preview)' /\ plans' = Times'
    BY <2>1, <2>2 DEF Agree, Counted, Preview, Fresh, Times
  <2>4. InStep(w)'
    BY <2>1, <2>3 DEF InStep
  <2> QED
    BY <1>2, <2>4
<1>13. CASE UNCHANGED vars
  <2>1. \A w \in crew : InStep(w)' <=> InStep(w)
    BY <1>13 DEF vars, InStep, Times, Preview, Fresh, Agree, Counted, Pending, Drawn, InScope, Draws,
                 AdvancePreview, Advanced, StageOver, Cascade, Selected, ShouldTrigger, Eligible,
                 StageEligible
  <2> QED
    BY <1>1, <1>13, <2>1 DEF vars, Lockstep
<1> QED
  BY <1>3, <1>4, <1>7, <1>8, <1>10, <1>11, <1>12, <1>13 DEF Next, Done

\* A dry run of calls that do not overlap plans exactly the injections the live run makes,
\* call by call, as long as every selected live call ends with its event.
THEOREM PreviewPredictsAlways == Spec => []PreviewPredicts
<1> DEFINE Inv == Typed /\ Counts /\ CopiesFresh /\ EventBudget /\ Lockstep
<1>1. Init => Inv
  <2> SUFFICES ASSUME Init PROVE Inv
    OBVIOUS
  <2>1. Typed /\ Counts /\ CopiesFresh /\ EventBudget
    BY TypedInit, CountsInit, EventBudgetInit, PlansInit
  <2>2. events = <<>> /\ plans = <<>> /\ current = NoCopy /\ live = Fresh
        /\ \A w \in Workers : pc[w] = "idle"
    BY DEF Init
  <2>3. plans = Times /\ Agree(live, Preview)
    BY <2>2 DEF Times, Agree, Preview
  <2> QED
    BY <2>1, <2>2, <2>3 DEF Lockstep, InStep, Typed
<1>2. Inv /\ [Next]_vars => Inv'
  BY TypedStep, CountsStep, EventBudgetStep, CopiesFreshStep, LockstepStep
<1>3. Inv => PreviewPredicts
  <2> SUFFICES ASSUME Inv, Alone, Idle, ~diverged
               PROVE  plans = Times
    BY DEF PreviewPredicts, Times
  <2>1. PICK w : w \in crew /\ w \in Workers
    BY DEF Typed
  <2> QED
    BY <2>1 DEF Lockstep, InStep, Idle
<1> QED
  BY <1>1, <1>2, <1>3, PTL DEF Spec
=============================================================================
