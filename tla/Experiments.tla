---------------------------- MODULE Experiments -----------------------------
(***************************************************************************)
(* Experiment files: the compiler that turns a document into a workflow    *)
(* and collects every issue (experiments/schema.py, loader.py), the        *)
(* expansion and naming of its nodes (workflows/nodes.py, engine.py) and   *)
(* the command that runs one (cli/main.py).  A compiled part is            *)
(* [out, issues]: a sequence of one element, or empty where the code has   *)
(* None, and the issues found on the way.  A name is the sequence of its   *)
(* parts between slashes; NoName is an absent or unusable one.            *)
(***************************************************************************)
EXTENDS ToolRun, Scopes
LOCAL INSTANCE SequencesExt

CONSTANTS
    Documents,      \* experiment files, parsed or unreadable
    Padded          \* a name with surrounding whitespace

NoName == <<>>

Problem(at, severity) == [at |-> at, severity |-> severity]
Nothing == [out |-> <<>>, issues |-> {}]
Compiled(x, issues) == [out |-> <<x>>, issues |-> issues]
Fails(at) == [out |-> <<>>, issues |-> {Problem(at, "error")}]
Unless(ok, at) == IF ok THEN {} ELSE {Problem(at, "error")}

\* A list: what its elements compile to, in order, and all their issues.
Gathered(parts) ==
    [out |-> FlattenSeq([i \in DOMAIN parts |-> parts[i].out]),
     issues |-> UNION {parts[i].issues : i \in DOMAIN parts}]
Each(list, Compile(_, _), at) == Gathered([i \in DOMAIN list |-> Compile(Append(at, i), list[i])])

-----------------------------------------------------------------------------
(* Targets, scopes, faults, assertions and probes.  A target is "absent",  *)
(* "null" (its key without a value), "bad", "script" or "function".        *)

CompileTarget(at, target) ==
    CASE target \in {"absent", "null"} -> Nothing
      [] target = "bad" -> Fails(at)
      [] target \in {"script", "function"} -> Compiled(target, {})

\* The error "has no target" looks at the key only.
Untargeted(target, default) ==
    CompileTarget(<<>>, target).out = <<>> /\ default = NoValue /\ target = "absent"

CompileScope(at, scope) ==
    IF scope = NoValue THEN Nothing
    ELSE IF ScopeValid(scope) THEN Compiled(scope, {}) ELSE Fails(at)

\* A fault of a known type with parameters in range; what runs is its scope.
RECURSIVE CompileFault(_, _)
CompileFault(at, fault) ==
    LET scope == CompileScope(Append(at, "scope"), fault.scope)
        own == IF scope.out = <<>> THEN NoScope ELSE scope.out[1]
        first == CompileFault(Append(at, "first"), fault.first)
        then == CompileFault(Append(at, "then"), fault.then)
    IN  CASE fault.type = "missing" -> Fails(Append(at, "type"))
          [] fault.type = "unknown" ->
                [out |-> <<>>, issues |-> scope.issues \union {Problem(Append(at, "type"), "error")}]
          [] fault.type = "known" ->
                [out |-> IF fault.valid THEN <<own>> ELSE <<>>,
                 issues |-> scope.issues \union Unless(fault.valid, at)]
          [] fault.type = "cascade" ->
                [out |-> IF fault.valid /\ first.out # <<>> /\ then.out # <<>> THEN <<own>> ELSE <<>>,
                 issues |-> scope.issues \union first.issues \union then.issues
                              \union Unless(fault.valid, Append(at, "delay_between"))]

CompileAssertion(at, assertion) == IF assertion = "known" THEN Compiled(assertion, {}) ELSE Fails(at)

\* A probe whose target is not there is left out; only an absent key is an error.
CompileProbe(at, probe, default) ==
    LET target == CompileTarget(Append(at, "target"), probe.target)
        fn == IF target.out # <<>> THEN target.out[1] ELSE default
        built == IF probe.valid THEN Compiled(probe.name, target.issues)
                 ELSE [out |-> <<>>, issues |-> target.issues \union {Problem(at, "error")}]
    IN  CASE probe.type = "unknown" -> Fails(Append(at, "type"))
          [] probe.type = "http" -> IF probe.valid THEN Compiled(probe.name, {}) ELSE Fails(at)
          [] probe.type = "function" ->
                IF fn = NoValue
                THEN [out |-> <<>>, issues |-> target.issues \union Unless(probe.target # "absent", at)]
                ELSE IF fn = "script" /\ probe.query THEN Fails(Append(at, "target"))
                ELSE built

CompileProbes(probes, default) ==
    LET parts == Each(probes, LAMBDA at, probe : CompileProbe(at, probe, default), <<"probes">>)
    IN  [parts EXCEPT !.issues = @ \union Unless(IsInjective(parts.out), <<"probes">>)]

-----------------------------------------------------------------------------
(* Workflow nodes.  A constructor that refuses raises ValueError, which    *)
(* node() turns into an error at the node.                                 *)

CompileStep(at, body, default) ==
    LET faults == Each(body.faults, CompileFault, Append(at, "faults"))
        contracts == Each(body.assertions, CompileAssertion, Append(at, "assertions"))
        target == CompileTarget(Append(at, "target"), body.target)
        scope == CompileScope(Append(at, "scope"), body.scope)
        issues == faults.issues \union contracts.issues \union target.issues \union scope.issues
                    \union Unless(body.name # NoName, Append(at, "name"))
                    \union Unless(~Untargeted(body.target, default), at)
    IN  [out |-> IF body.name \in {NoName, Padded} THEN <<>>
                 ELSE <<[kind |-> "step", name |-> body.name, faults |-> faults.out,
                         target |-> target.out, scope |-> scope.out, checks |-> Len(contracts.out)]>>,
         issues |-> issues \union Unless(body.name # Padded, at)]

\* expects: expect_success with no expectation of an output that contradicts it.
CompileCheck(at, body, default) ==
    LET target == CompileTarget(Append(at, "target"), body.target)
        fn == IF target.out # <<>> THEN target.out[1] ELSE default
        good == body.expects /\ body.name # Padded
    IN  [out |-> IF good THEN <<[kind |-> "check", name |-> body.name,
                                 target |-> IF fn = NoValue THEN <<>> ELSE <<fn>>]>> ELSE <<>>,
         issues |-> target.issues \union Unless(good, at)
                      \union Unless(~Untargeted(body.target, default), at)
                      \union Unless(body.query => fn # "script", Append(at, "query"))]

CompileSuspend(at, body) ==
    IF body.name = NoName THEN Fails(Append(at, "name"))
    ELSE IF body.name = Padded THEN Fails(at)
    ELSE Compiled([kind |-> "suspend", name |-> body.name], {})

RECURSIVE ContainsSuspend(_)
ContainsSuspend(node) ==
    CASE node.kind = "suspend" -> TRUE
      [] node.kind = "parallel" -> \E b \in DOMAIN node.branches : \E i \in DOMAIN node.branches[b] :
                                      ContainsSuspend(node.branches[b][i])
      [] node.kind = "use" -> \E i \in DOMAIN node.nodes : ContainsSuspend(node.nodes[i])
      [] OTHER -> FALSE

\* A template's definition: its steps, its declared parameters and those that
\* its steps refer to; one without steps is not registered.
TemplateValid(definition) == definition.steps # <<>>
Known(doc, template) == template \in DOMAIN doc.templates /\ TemplateValid(doc.templates[template])

\* _substitute: the references that neither a default nor a use gives a value.
Undefined(definition, given) == definition.refers \ (definition.params \union given)

\* nodes() and node() of _Compiler; doc gives the templates, stack the uses
\* that lead here.
RECURSIVE CompileNodes(_, _, _, _)
CompileParallel(at, body, doc, stack) ==
    LET branch(w, list) ==
            LET part == CompileNodes(w, list, doc, stack)
            IN  [part EXCEPT !.out = IF @ = <<>> THEN <<>> ELSE <<@>>]
        branches == Each(body.branches, branch, Append(at, "branches"))
        whole == Len(branches.out) = Len(body.branches)
        gated == \E b \in DOMAIN branches.out : \E i \in DOMAIN branches.out[b] :
                    ContainsSuspend(branches.out[b][i])
        good == whole /\ ~gated /\ body.name # Padded
    IN  IF Len(body.branches) < 2 THEN Fails(Append(at, "branches"))
        ELSE [out |-> IF good THEN <<[kind |-> "parallel", name |-> body.name, branches |-> branches.out]>>
                      ELSE <<>>,
              issues |-> branches.issues \union Unless(whole => good, at)]

CompileUse(at, body, doc, stack) ==
    LET cyclic == body.template \in ToSet(stack)
        definition == doc.templates[body.template]
        nodes == CompileNodes(Append(at, body.template), definition.steps, doc, Append(stack, body.template))
        name == IF body.name = NoName THEN <<body.template>> ELSE body.name
        extra == Unless(body.given \subseteq definition.params, Append(at, "with"))
    IN  IF ~Known(doc, body.template) \/ cyclic THEN Fails(Append(at, "template"))
        ELSE IF Undefined(definition, body.given) # {} THEN [out |-> <<>>, issues |-> extra \union {Problem(at, "error")}]
        ELSE [out |-> IF name = Padded THEN <<>> ELSE <<[kind |-> "use", name |-> name, nodes |-> nodes.out]>>,
              issues |-> extra \union nodes.issues \union Unless(name # Padded, at)]

CompileNodes(at, list, doc, stack) ==
    LET default == doc.default
        node(w, item) ==
            CASE item.kind = "step" -> CompileStep(w, item, default)
              [] item.kind = "check" -> CompileCheck(w, item, default)
              [] item.kind = "suspend" -> CompileSuspend(w, item)
              [] item.kind = "parallel" -> CompileParallel(w, item, doc, stack)
              [] item.kind = "use" -> CompileUse(w, item, doc, stack)
              [] item.kind = "unknown" -> Fails(w)
    IN  IF list = <<>> THEN Fails(at) ELSE Each(list, node, at)

\* The templates that some use of the compiled nodes reaches.
RECURSIVE UsedBy(_, _, _)
UsedBy(list, doc, stack) ==
    LET inside(use) ==
            IF Undefined(doc.templates[use.template], use.given) # {} THEN {}
            ELSE UsedBy(doc.templates[use.template].steps, doc, Append(stack, use.template))
        one(item) ==
            CASE item.kind = "parallel" ->
                    IF Len(item.branches) < 2 THEN {}
                    ELSE UNION {UsedBy(item.branches[b], doc, stack) : b \in DOMAIN item.branches}
              [] item.kind = "use" ->
                    IF ~Known(doc, item.template) \/ item.template \in ToSet(stack) THEN {}
                    ELSE {item.template} \union inside(item)
              [] OTHER -> {}
    IN  UNION {one(list[i]) : i \in DOMAIN list}

-----------------------------------------------------------------------------
(* expand_nodes, _prefixed and ChaosWorkflow._named.                       *)

\* Mutation of Prefixed: the steps of a block inside a template keep their names.
PrefixedOutermost(node, prefix) ==
    [node EXCEPT !.name = IF @ = NoName THEN @ ELSE prefix \o @]

RECURSIVE Prefixed(_, _)
Prefixed(node, prefix) ==
    LET renamed == [node EXCEPT !.name = IF @ = NoName THEN @ ELSE prefix \o @]
    IN  IF node.kind = "parallel"
        THEN [renamed EXCEPT !.branches = [b \in DOMAIN @ |->
                                             [i \in DOMAIN @[b] |-> Prefixed(@[b][i], prefix)]]]
        ELSE renamed

RECURSIVE Expand(_)
Expand(nodes) ==
    LET one(node) ==
            CASE node.kind = "use" ->
                    LET inner == Expand(node.nodes)
                    IN  [i \in DOMAIN inner |-> Prefixed(inner[i], node.name)]
              [] node.kind = "parallel" ->
                    <<[node EXCEPT !.branches = [b \in DOMAIN @ |-> Expand(@[b])]]>>
              [] OTHER -> <<node>>
    IN  FlattenSeq([i \in DOMAIN nodes |-> one(nodes[i])])

\* _walk: every node, depth first.
RECURSIVE Walk(_)
Walk(nodes) ==
    FlattenSeq([i \in DOMAIN nodes |->
        <<nodes[i]>> \o (IF nodes[i].kind = "parallel" THEN FlattenSeq([b \in DOMAIN nodes[i].branches |->
                                                               Walk(nodes[i].branches[b])]) ELSE <<>>)])

\* Unnamed checks and parallel blocks are numbered through the workflow,
\* whatever template they came from.
NodeNames(nodes) ==
    LET all == Walk(nodes)
        Unnamed1(i) == all[i].name = NoName
        number(i) == Cardinality({k \in 1..i : Unnamed1(k) /\ all[k].kind = all[i].kind})
    IN  [i \in DOMAIN all |-> IF Unnamed1(i) THEN <<all[i].kind, number(i)>> ELSE all[i].name]

-----------------------------------------------------------------------------
(* _Compiler.document.  badSections are the sections (safety, schedule,    *)
(* resilience, flags, unknown fields) with a value they do not accept.     *)

Default(doc) == LET t == CompileTarget(<<"target">>, doc.target) IN IF t.out = <<>> THEN NoValue ELSE t.out[1]

SingleStep(doc) ==
    LET faults == Each(doc.faults, CompileFault, <<"faults">>)
        contracts == Each(doc.assertions, CompileAssertion, <<"assertions">>)
    IN  [out |-> IF doc.name = NoName THEN <<>>
                 ELSE <<[kind |-> "step", name |-> doc.name, faults |-> faults.out, target |-> <<>>,
                         scope |-> <<>>, checks |-> Len(contracts.out)]>>,
         issues |-> faults.issues \union contracts.issues
                      \union Unless(doc.target # "absent", <<"target">>)
                      \union Unless(doc.faults # <<>>, <<"faults">>)]

Sections(doc) == UNION {Unless(FALSE, <<s>>) : s \in doc.badSections}

\* The issues, the nodes and the probes of a document before it is accepted.
Compile(doc) ==
    LET default == Default(doc)
        full == [default |-> default, templates |-> doc.templates]
        probes == CompileProbes(doc.probes, default)
        body == IF doc.form = "workflow" THEN CompileNodes(<<"workflow">>, doc.nodes, full, <<>>)
                ELSE SingleStep(doc)
        used == IF doc.form = "workflow" THEN UsedBy(doc.nodes, full, <<>>) ELSE {}
        templates == {t \in DOMAIN doc.templates : TemplateValid(doc.templates[t])}
        problems == CompileTarget(<<"target">>, doc.target).issues \union probes.issues
                      \union CompileScope(<<"scope">>, doc.scope).issues \union body.issues
                      \union Sections(doc) \union Unless(doc.name # NoName, <<"name">>)
                      \union UNION {Unless(t \in templates, <<"templates", t>>) : t \in DOMAIN doc.templates}
    IN  [nodes |-> body.out, probes |-> probes.out, default |-> default,
         issues |-> problems
                      \union (IF doc.neverFires THEN {Problem(<<"schedule">>, "warning")} ELSE {})
                      \union {Problem(<<"templates", t>>, "warning") : t \in templates \ used}]

Errors(issues) == {i \in issues : i.severity = "error"}

\* ChaosWorkflow's constructor takes at least one node, and no name twice.
Buildable(nodes) == nodes # <<>> /\ IsInjective(NodeNames(Expand(nodes)))

\* validate_experiment: an unreadable file, the compiler's issues, and the last
\* word of the workflow's own constructor.
Issues(doc, parts) ==
    IF ~doc.readable THEN {Problem(<<"file">>, "error")}
    ELSE IF Errors(parts.issues) # {} THEN parts.issues
    ELSE parts.issues \union Unless(Buildable(parts.nodes), <<"workflow">>)
Validated(parts, issues) ==
    [issues |-> issues, default |-> parts.default,
     nodes |-> IF Errors(issues) = {} THEN Expand(parts.nodes) ELSE <<>>,
     probes |-> IF Errors(issues) = {} THEN parts.probes ELSE <<>>]
Accepts(result, strict) == Errors(result.issues) = {} /\ (strict => result.issues = {})

-----------------------------------------------------------------------------
(* The commands "experiment validate" and "experiment run".                *)

ExperimentInit ==
    /\ job \in [tool : {"experiment"}, doc : Documents, command : {"run", "validate", "strict"}]
    /\ run = [pc |-> "read"]

Reading(pc) == job.tool = "experiment" /\ run.pc = pc

\* validate: exits 1 with an error, or with a warning when strict.
ValidateFile ==
    /\ Reading("read")
    /\ \E parts \in {Compile(job.doc)} : \E result \in {Validated(parts, Issues(job.doc, parts))} :
        run' = [pc |-> IF job.command = "run" /\ Accepts(result, FALSE) THEN "accepted" ELSE "exited",
                issues |-> result.issues, nodes |-> result.nodes, probes |-> result.probes,
                default |-> result.default, raised |-> FALSE, saved |-> FALSE,
                exit |-> IF Accepts(result, job.command = "strict") THEN 0 ELSE 1]
    /\ UNCHANGED job

\* run(): every step and check needs a target before anything runs.
HasTargets == \A i \in DOMAIN Walk(run.nodes) :
    LET node == Walk(run.nodes)[i]
    IN  node.kind \in {"step", "check"} => node.target # <<>> \/ run.default # NoValue

\* fresh_faults: a step narrows its faults by its scope and the workflow's; a
\* step without a fault in reach of both cannot be built.
StepRaises(node) ==
    node.kind = "step" /\ \E i \in DOMAIN node.faults :
        LET narrow(s, t) == IF t = NoValue THEN s ELSE Intersect(t, s)
            inner == IF node.scope = <<>> THEN node.faults[i] ELSE Intersect(node.scope[1], node.faults[i])
        IN  ~ScopeValid(inner) \/ ~ScopeValid(narrow(inner, job.doc.scope))

\* The workflow module tells how the nodes run and with which status; here a
\* step that cannot be built ends the run, unless the run ended before it.
\* "below" is a passed run whose score is less than the one asked for.
RunRaises ==
    /\ Reading("accepted")
    /\ ~HasTargets \/ \E i \in DOMAIN Walk(run.nodes) : StepRaises(Walk(run.nodes)[i])
    /\ run' = [run EXCEPT !.pc = "exited", !.raised = TRUE, !.exit = 1] /\ UNCHANGED job

RunEnds(status) ==
    /\ Reading("accepted") /\ HasTargets
    /\ status \in {"passed", "below"} => ~\E i \in DOMAIN Walk(run.nodes) : StepRaises(Walk(run.nodes)[i])
    /\ status = "suspended" => \E i \in DOMAIN run.nodes : run.nodes[i].kind = "suspend"
    /\ run' = [run EXCEPT !.pc = "exited", !.saved = TRUE,
                 !.exit = CASE status = "suspended" -> 3 [] status = "passed" -> 0 [] OTHER -> 1]
    /\ UNCHANGED job

ExperimentNext ==
    \/ ValidateFile \/ RunRaises
    \/ \E status \in {"passed", "below", "failed", "suspended"} : RunEnds(status)

-----------------------------------------------------------------------------
\* What a document says, read off the document alone: its nodes depth first,
\* templates in place and names under the names of their uses, each step with
\* the scopes of its faults.
Entry(kind, name, scopes) == [kind |-> kind, name |-> name, scopes |-> scopes]
RECURSIVE Said(_, _, _)
Said(list, doc, prefix) ==
    LET under(name) == IF name = NoName THEN name ELSE prefix \o name
        one(item) ==
            CASE item.kind = "parallel" ->
                    <<Entry("parallel", under(item.name), <<>>)>> \o
                    FlattenSeq([b \in DOMAIN item.branches |-> Said(item.branches[b], doc, prefix)])
              [] item.kind = "use" ->
                    Said(doc.templates[item.template].steps, doc,
                         prefix \o (IF item.name = NoName THEN <<item.template>> ELSE item.name))
              [] item.kind = "step" ->
                    <<Entry("step", under(item.name),
                            [f \in DOMAIN item.faults |-> IF item.faults[f].scope = NoValue THEN NoScope
                                                          ELSE item.faults[f].scope])>>
              [] OTHER -> <<Entry(item.kind, under(item.name), <<>>)>>
    IN  FlattenSeq([i \in DOMAIN list |-> one(list[i])])

SaidBy(doc) ==
    Said(IF doc.form = "workflow" THEN doc.nodes
         ELSE <<[kind |-> "step", name |-> doc.name, faults |-> doc.faults]>>, doc, <<>>)
Kept(nodes) ==
    [i \in DOMAIN Walk(nodes) |->
        LET node == Walk(nodes)[i]
        IN  Entry(node.kind, node.name, IF node.kind = "step" THEN node.faults ELSE <<>>)]

\* An accepted document becomes the workflow it describes: though the compiler
\* goes on after each problem with what is left, no node, fault or scope of it
\* is lost or changed, names are distinct, no gate is inside a block; and of
\* its probes only those are lost whose target is a key without a value.
DocumentKept ==
    (job.tool = "experiment" /\ run.pc # "read") =>
        (Errors(run.issues) = {} =>
            /\ Kept(run.nodes) = SaidBy(job.doc)
            /\ IsInjective(NodeNames(run.nodes))
            /\ \A node \in ToSet(Walk(run.nodes)) : node.kind = "parallel" =>
                  \A b \in DOMAIN node.branches : \A inner \in ToSet(Walk(node.branches[b])) :
                      inner.kind # "suspend"
            /\ run.probes = [i \in DOMAIN SelectSeq(job.doc.probes, LAMBDA p : p.target # "null" \/ run.default # NoValue)
                               |-> SelectSeq(job.doc.probes, LAMBDA p : p.target # "null" \/ run.default # NoValue)[i].name])

\* A document that validation accepts can be run: the run raises no error of
\* its own about the document.
AcceptedRuns ==
    job.tool = "experiment" => run.pc = "read" \/ ~run.raised
=============================================================================
