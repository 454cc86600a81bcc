------------------------------- MODULE Scopes -------------------------------
(***************************************************************************)
(* Where a fault may fire (chaos/scope.py): included and excluded steps    *)
(* and providers.  Everywhere stands for an omitted inclusion.  A scope    *)
(* that could match nothing cannot be built: the constructor raises.       *)
(***************************************************************************)
EXTENDS FiniteSets

CONSTANTS Everywhere, Anonymous  \* no inclusion list; a call without the label

\* Scope.__init__ accepts these.
ScopeValid(s) ==
    /\ s.steps # {} /\ s.providers # {}
    /\ s.steps # Everywhere => ~(s.steps \subseteq s.notSteps)
    /\ s.providers # Everywhere => ~(s.providers \subseteq s.notProviders)

Allows(s, step, provider) ==
    /\ step \notin s.notSteps /\ provider \notin s.notProviders
    /\ s.steps # Everywhere => step \in s.steps
    /\ s.providers # Everywhere => provider \in s.providers

NoScope == [steps |-> Everywhere, providers |-> Everywhere, notSteps |-> {}, notProviders |-> {}]
AtStep(step) == [NoScope EXCEPT !.steps = {step}]

\* _both: the shared inclusions; none at all is an error.
Both(left, right) ==
    IF left = Everywhere THEN right ELSE IF right = Everywhere THEN left ELSE left \intersect right

\* Mutation of Intersect: the exclusions of the second scope are lost.
IntersectInclusions(s, t) ==
    [s EXCEPT !.steps = Both(@, t.steps), !.providers = Both(@, t.providers)]

\* intersect: raises unless the result is a scope.
Intersect(s, t) ==
    [steps |-> Both(s.steps, t.steps), providers |-> Both(s.providers, t.providers),
     notSteps |-> s.notSteps \union t.notSteps, notProviders |-> s.notProviders \union t.notProviders]
=============================================================================
