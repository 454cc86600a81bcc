------------------------------ MODULE MCTools -------------------------------
(* Small uses of every tool.  The .cfg files choose between the documents    *)
(* and questions of the main run and those that show a disagreement.         *)
EXTENDS Tools, TLC
LOCAL INSTANCE SequencesExt

\* Runs: a run that is not given up on an unsteady system is the library's, a
\* baseline is the plugin's, and only the others judge by contracts and score.
Noerr == [kind |-> "no_unhandled_error"]
Traversal == [kind |-> "full_topology_traversal", step |-> {"planner", "writer"}]
Recovered(stepSuccess) == [kind |-> "recovered_after_failure", stepSuccess |-> stepSuccess]
MCRunJobs ==
    {j \in [tool : {"run"}, driver : Drivers, dry : BOOLEAN, requireSteady : BOOLEAN, baseline : BOOLEAN,
            minimum : {NoValue, 80}, contracts : {<<>>, <<Recovered(TRUE)>>, <<Noerr>>, <<Traversal>>}, history : BOOLEAN] :
        /\ j.contracts = <<Traversal>> <=> j.driver = "agent"
        /\ ~j.requireSteady => j.driver = "api"
        /\ j.baseline => j.driver = "plugin" /\ ~j.dry
        /\ j.driver = "api" => j.minimum = NoValue /\ j.contracts = <<>>
        /\ j.history => j.driver # "plugin"}

\* Patches: two clients that share a resource.
MCSurfaces == {<<1, 2>>, <<3, 2>>}

\* Topologies: two runs of each kind, and tests, plain and asynchronous.
MCTopologyJobs ==
    [tool : {"topology"}, tests : {"plain"}, drivers : {<<"step", "api">>, <<"agent", "agent">>, <<"fuzz", "trial">>}]
        \union [tool : {"topology"}, tests : {"plain", "bound", "copied"}, drivers : {<<"plugin">>}]
        \union [tool : {"topology"}, tests : {"bound"}, drivers : {<<"baseline", "plugin">>}]

\* Campaigns over a model and a tool; a fault is limited to nothing, to a step,
\* away from one, or to a provider.
Scp(steps, providers, notSteps) ==
    [steps |-> steps, providers |-> providers, notSteps |-> notSteps, notProviders |-> {}]
OwnScopes == {NoScope, Scp({"ask"}, Everywhere, {}), Scp(Everywhere, {"openai"}, {}), Scp(Everywhere, Everywhere, {"ask"})}
MCFuzzJobs ==
    [tool : {"fuzz"}, nodes : {{"ask", "look"}}, types : {[ask |-> "llm", look |-> "tool"]},
     called : {NoValue, {"ask"}, {"ask", "look"}},
     scope : {NoScope, Scp({"ask"}, Everywhere, {}), Scp(Everywhere, {"google"}, {}), Scp(Everywhere, Everywhere, {"ask"})},
     pool : {("llm" :> OwnScopes) @@ ("*" :> {NoScope}), "tool" :> OwnScopes, "other" :> OwnScopes},
     sites : SUBSET {<<"ask", "openai">>, <<"look", Anonymous>>}, n : {2}]

\* A year of nine days in three months, days of six minutes in three hours.
MCMonths == <<3, 2, 4>>
Item(kind, from, to, step) == [kind |-> kind, from |-> from, to |-> to, step |-> step]
Star == <<Item("*", 0, 0, NoValue)>>
MCExpressions ==
    [minutes : {Star, <<Item("value", 1, 1, NoValue)>>},
     hours : {Star, <<Item("range", 1, 2, NoValue)>>, <<Item("*", 0, 0, 2)>>},
     days : {Star, <<Item("value", 2, 2, NoValue), Item("value", 4, 4, NoValue)>>, <<Item("value", 1, 1, 2)>>,
             <<Item("*", 0, 0, 2)>>},
     months : {Star, <<Item("value", 2, 2, NoValue)>>, <<Item("range", 3, 1, NoValue)>>},
     weekdays : {Star, <<Item("value", 3, 3, NoValue)>>, <<Item("range", 1, 3, 2)>>}]

\* Logs of up to three calls of two steps, or without a name; a fault fails the
\* call that it hits.
LoggedCalls ==
    {c \in [name : {"a", "b", Unnamed}, kind : {"call"}, ok : BOOLEAN, hit : BOOLEAN] : c.hit => ~c.ok}
        \union {[name |-> "a", kind |-> "stream", ok |-> TRUE, hit |-> FALSE]}
MCLoggedRuns ==
    {[i \in DOMAIN s |-> [name |-> s[i].name, kind |-> s[i].kind, ok |-> s[i].ok,
                          event |-> IF s[i].hit THEN i ELSE 0]] : s \in BoundedSeq(LoggedCalls, 3)}
\* Two steps of up to two calls, each ending normally, with an error of its own
\* or with one that carries an injected event; the events of the second are 11, 12.
Shifted(log) == [i \in DOMAIN log |-> [log[i] EXCEPT !.event = IF @ = 0 THEN 0 ELSE @ + 10]]
Endings(log) ==
    {Whole(log, FALSE), Whole(log, TRUE)} \union
        {[Whole(log, TRUE) EXCEPT !.carries = log[i].event] : i \in {k \in DOMAIN log : log[k].event # 0}}
MCStageRuns ==
    LET small == {log \in MCLoggedRuns : Len(log) <= 2}
    IN  (UNION {Endings(log) : log \in small}) \X (UNION {Endings(Shifted(log)) : log \in small})
MCQuestions ==
    [kind : {"max_retries"}, n : {0, 1}, step : {NoValue, "a"}]
        \union {Recovered(b) : b \in BOOLEAN}
        \union {[kind |-> "no_retry_storm", n |-> 1, window |-> 1],
                [kind |-> "full_topology_traversal", step |-> {"a", "b"}],
                [kind |-> "max_cost_impact", step |-> 2, metric |-> "calls", n |-> 1]}
StrictQuestion == {Recovered(TRUE)}
MCScopes == {s \in [steps : {Everywhere, {"a"}, {"a", "b"}}, providers : {Everywhere, {"p"}},
                    notSteps : {{}, {"a"}}, notProviders : {{}, {"p"}}] : ScopeValid(s)}
MCScopePairs == MCScopes \X MCScopes
Observations ==
    [kind : {"dispatched", "completed", "denied"}, own : {TRUE}, call : {1, 2}]
        \union [kind : {"stop_acknowledged"}, own : BOOLEAN, call : {0}]
        \union {[kind |-> "dispatched", own |-> FALSE, call |-> 1]}
MCStops == UNION {[records : {r}, ack : 0..Len(r), attempted : {{1}}] : r \in BoundedSeq(Observations, 4)}

-----------------------------------------------------------------------------
\* Documents: each part alone, and pairs of nodes, with and without templates.
Steps(names) == Scp(names, Everywhere, {})
Fault(type, valid, scope) == [type |-> type, valid |-> valid, scope |-> scope]
Good == Fault("known", TRUE, NoValue)
Narrow == Fault("known", TRUE, Steps({"a"}))
Cascade(first, then) ==
    [type |-> "cascade", valid |-> TRUE, scope |-> NoValue, first |-> first, then |-> then]
FaultLists ==
    {<<Good>>, <<Narrow>>, <<Fault("known", FALSE, NoValue)>>, <<Fault("known", TRUE, Steps({}))>>,
     <<Fault("unknown", TRUE, NoValue), Good>>, <<Good, Cascade(Good, Narrow)>>,
     <<Cascade(Good, Fault("missing", TRUE, NoValue))>>}
StepNode(name, faults, assertions, target, scope) ==
    [kind |-> "step", name |-> name, faults |-> faults, assertions |-> assertions, target |-> target,
     scope |-> scope]
Plain == StepNode(<<"s">>, <<Good>>, <<>>, "absent", NoValue)
CheckNode(name, target, query, expects) ==
    [kind |-> "check", name |-> name, target |-> target, query |-> query, expects |-> expects]
GateNode == [kind |-> "suspend", name |-> <<"g">>]
Block(name, branches) == [kind |-> "parallel", name |-> name, branches |-> branches]
Use(template, name, given) == [kind |-> "use", template |-> template, name |-> name, given |-> given]
Ping == CheckNode(NoName, "function", FALSE, TRUE)
Wrong == [kind |-> "unknown"]
DocNodes ==
    {StepNode(<<"s">>, faults, <<>>, "absent", NoValue) : faults \in FaultLists}
    \union {StepNode(<<"s">>, <<Narrow>>, <<>>, "null", Steps({"b"}))}
    \union {StepNode(name, <<Good>>, list, "function", NoValue) :
              name \in {<<"t", "s">>, Padded, NoName}, list \in {<<>>, <<"unknown">>}}
    \union {CheckNode(name, target, TRUE, TRUE) : name \in {NoName, <<"c">>}, target \in {"absent", "null", "script"}}
    \union {CheckNode(<<"c">>, "function", FALSE, FALSE), GateNode, [kind |-> "suspend", name |-> NoName], Wrong}
    \union {Block(NoName, <<<<Plain>>, <<Ping>>>>), Block(<<"p">>, <<<<Plain>>>>),
            Block(<<"p">>, <<<<Use("t", NoName, {})>>, <<GateNode>>>>),
            Block(<<"p">>, <<<<Use("t", NoName, {"x"})>>, <<Plain>>>>),
            Block(<<"p">>, <<<<Wrong, Plain>>, <<Wrong>>>>)}
    \union {Use(template, name, given) : template \in {"t", "u"}, name \in {NoName, <<"v">>}, given \in {{}, {"x"}}}
Template(steps, params, refers) == [steps |-> steps, params |-> params, refers |-> refers]
DocTemplates ==
    {<<>>, "t" :> Template(<<Block(<<"p">>, <<<<Plain>>, <<Ping>>>>)>>, {}, {}),
     ("t" :> Template(<<Plain>>, {}, {"x"})) @@ ("u" :> Template(<<Use("t", NoName, {"x"}), Plain>>, {"x"}, {})),
     ("t" :> Template(<<Use("u", NoName, {})>>, {"x"}, {"x"})) @@ ("u" :> Template(<<Plain, Use("t", NoName, {})>>, {}, {})),
     ("t" :> Template(<<GateNode>>, {"x"}, {})) @@ ("u" :> Template(<<>>, {}, {}))}
Doc == [readable |-> TRUE, form |-> "workflow", name |-> <<"doc">>, target |-> "function", scope |-> NoValue,
        faults |-> <<>>, assertions |-> <<>>, nodes |-> <<Plain>>, probes |-> <<>>, templates |-> <<>>,
        badSections |-> {}, neverFires |-> FALSE]
Probe(type, name, target, query, valid) ==
    [type |-> type, name |-> name, target |-> target, query |-> query, valid |-> valid]
DocProbes ==
    {Probe("http", "h", "absent", FALSE, TRUE), Probe("function", "h", "null", FALSE, TRUE),
     Probe("function", "f", "absent", TRUE, TRUE), Probe("function", "f", "script", TRUE, TRUE),
     Probe("unknown", "f", "absent", TRUE, TRUE), Probe("function", "f", "function", TRUE, FALSE)}
SmallDocuments ==
    {[Doc EXCEPT !.nodes = <<node>>, !.templates = templates, !.target = target, !.scope = scope] :
        node \in DocNodes, templates \in DocTemplates, target \in {"absent", "null", "function"},
        scope \in {NoValue, Steps({}), Steps({"b"})}}
MCDocuments ==
    SmallDocuments
    \union {[Doc EXCEPT !.nodes = nodes, !.templates = templates] :
              nodes \in BoundedSeq(DocNodes, 2), templates \in DocTemplates}
    \union {[Doc EXCEPT !.form = "single", !.faults = faults, !.assertions = list, !.target = target, !.name = name] :
              faults \in FaultLists \union {<<>>}, list \in {<<>>, <<"known">>, <<"unknown">>},
              target \in {"absent", "null", "bad", "script", "function"}, name \in {<<"doc">>, NoName}}
    \union {[Doc EXCEPT !.probes = probes, !.target = target, !.badSections = bad, !.neverFires = never,
                        !.readable = readable] :
              probes \in BoundedSeq(DocProbes, 2), target \in {"null", "script", "function"},
              bad \in {{}, {"safety"}}, never \in BOOLEAN, readable \in BOOLEAN}
=============================================================================
