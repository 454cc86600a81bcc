------------------------------- MODULE Drift --------------------------------
(***************************************************************************)
(* Drift detection: the comparison of a snapshot with the baseline         *)
(* (drift/core.py), the fingerprint of its report (drift/models.py) and    *)
(* "drift compare", which saves a report unless the alert state, kept in a *)
(* file between the runs, suppresses it.  A text or a name is a number;    *)
(* NoValue is an absent one.  Distances are numbers of tenths.             *)
(***************************************************************************)
EXTENDS ToolRun
LOCAL INSTANCE FiniteSetsExt

CONSTANTS DriftRuns, Cooldown   \* bound on the compare commands; minutes

ASSUME DriftAssumption == DriftRuns \in Nat /\ Cooldown \in Nat /\ NoValue \notin Nat

OutputThreshold == 2
RetrievalThreshold == 4

Given(value) == value # NoValue

\* compute_text_distance: texts n and n + 10 share most of their words, n and
\* n + 20 nearly all of them, other texts none.
TextDistance(left, right) ==
    IF left = right THEN 0
    ELSE IF ~Given(left) \/ ~Given(right) THEN 10
    ELSE CASE left - right \in {-10, 10} -> 3
           [] left - right \in {-20, 20} -> 1
           [] OTHER -> 10

\* compute_list_distance: one less the overlap, of items without blanks.
ListDistance(left, right) ==
    IF left = right THEN 0
    ELSE 10 - (10 * Cardinality(left \intersect right)) \div Cardinality(left \union right)

Hashed(kind, old, new) == [kind |-> kind, changed |-> old # new, detail |-> <<old, new>>]

\* _score_bucket: halves of the threshold.
ScoreBucket(score, threshold) == (2 * score) \div threshold
Measured(kind, score, threshold) ==
    [kind |-> kind, changed |-> score >= threshold, detail |-> <<ScoreBucket(score, threshold), threshold>>]

\* compare_snapshots: the findings, as their fingerprint payloads (a message
\* or an exact score is not part of a fingerprint).
CompareSnapshots(old, new) ==
    LET Model(s) == <<s.model, s.embedding>>
    IN  (IF Given(old.prompt) \/ Given(new.prompt)
         THEN {Hashed("prompt", old.prompt, new.prompt)} ELSE {})
        \union (IF Given(old.model) \/ Given(new.model)
                THEN {Hashed("model", Model(old), Model(new))} ELSE {})
        \union (IF Given(old.output) \/ Given(new.output)
                THEN {Measured("output", TextDistance(old.output, new.output), OutputThreshold)} ELSE {})
        \union (IF old.items # {} \/ new.items # {}
                THEN {Measured("retrieval", ListDistance(old.items, new.items), RetrievalThreshold)} ELSE {})

HasDrift(findings) == \E f \in findings : f.changed

\* Mutation of ShouldEmit: within the cooldown a new fingerprint is not emitted.
ShouldEmitRarely(findings, alert, now, onlyOnChange) == alert.at = NoValue \/ now - alert.at >= Cooldown

\* should_emit_report.
ShouldEmit(findings, alert, now, onlyOnChange) ==
    \/ alert.print # findings
    \/ ~onlyOnChange /\ (alert.at = NoValue \/ now - alert.at >= Cooldown)

Fresh == [print |-> NoValue, at |-> NoValue]

Snapshot(model, embedding, output, items) ==
    [prompt |-> 1, model |-> model, embedding |-> embedding, output |-> output, items |-> items]
Baselines == {Snapshot(m, 1, 1, {1}) : m \in {1, NoValue}}
Snapshots == {Snapshot(m, e, 1, {1}) : m \in {1, NoValue}, e \in {1, 2}}
                 \union {Snapshot(1, 1, 11, {1}), Snapshot(1, 1, 21, {1}), Snapshot(2, 1, 1, {1, 2})}

\* A baseline compared again and again, from a scheduler: the alert state on
\* disk and the fingerprint in the report file, the snapshot and fingerprint
\* of the last command, and its exit status (-1 when it was killed).  "cut":
\* a command was killed between its two writes and none has written since.
DriftInit ==
    /\ job \in [tool : {"drift"}, onlyOnChange : BOOLEAN, base : Baselines]
    /\ run = [pc |-> "idle", now |-> 0, left |-> DriftRuns, alert |-> Fresh, saved |-> NoValue,
              seen |-> NoValue, current |-> job.base, exit |-> 0, cut |-> FALSE]

Waiting(pc) == job.tool = "drift" /\ run.pc = pc

Compare(current, ticks) ==
    LET findings == CompareSnapshots(job.base, current)
        now == run.now + ticks
    IN  /\ Waiting("idle") /\ run.left > 0
        /\ run' = [run EXCEPT !.now = now, !.left = @ - 1, !.seen = findings, !.current = current,
                     !.exit = IF HasDrift(findings) THEN 2 ELSE 0,
                     !.pc = IF ShouldEmit(findings, run.alert, now, job.onlyOnChange)
                            THEN "emitting" ELSE "idle"]
        /\ UNCHANGED job

SaveReport ==
    /\ Waiting("emitting")
    /\ run' = [run EXCEPT !.saved = run.seen, !.pc = "recording", !.cut = FALSE]
    /\ UNCHANGED job

SaveAlertState ==
    /\ Waiting("recording")
    /\ run' = [run EXCEPT !.alert = [print |-> run.seen, at |-> run.now], !.pc = "idle"]
    /\ UNCHANGED job

DriftKilled ==
    /\ Waiting("emitting") \/ Waiting("recording")
    /\ run' = [run EXCEPT !.pc = "idle", !.exit = -1, !.cut = run.pc = "recording" \/ @]
    /\ UNCHANGED job

DriftNext ==
    \/ \E ticks \in {0, Cooldown} : \E s \in Snapshots : Compare(s, ticks)
    \/ SaveReport
    \/ SaveAlertState
    \/ DriftKilled

\* A finished command leaves in the report file the fingerprint that it saw,
\* unless another one was killed between its two writes: what was cut off is
\* raised again, and what is suppressed is what the file already shows.  And a
\* changed model, embedding or text fails the command; an embedding alone
\* does so only when the snapshots name a model (core.py:40).  A text within
\* the threshold does not, though it may change the fingerprint.
DriftReported ==
    (job.tool = "drift" /\ run.pc = "idle" /\ run.exit # -1) =>
        /\ ~run.cut => run.seen \in {NoValue, run.saved}
        /\ run.exit = 2 <=> \/ run.current.model # job.base.model
                            \/ run.current.embedding # job.base.embedding /\ job.base.model # NoValue
                            \/ run.current.output \notin {job.base.output, job.base.output + 20}
                            \/ run.current.items # job.base.items
=============================================================================
