------------------------------ MODULE MCFaults ------------------------------
(* One instance of Faults: every built-in fault alone, and cascades of each  *)
(* kind of stage, called from one thread or from two.                        *)
EXTENDS Faults, TLC

F(type, mode, budget, odds, scope, target) ==
    [type |-> type, mode |-> mode, budget |-> budget, odds |-> odds,
     scope |-> scope, target |-> target]

First == {CHOOSE l \in Labels : TRUE}
Storm(n, odds) == F("rate_limit_storm", "default", n, odds, Labels, Labels)
Loop(n) == F("infinite_loop", "default", n, "always", Labels, Labels)
Plain(type, mode) == F(type, mode, 0, "always", Labels, Labels)
Targeted(type, mode) == F(type, mode, 0, "always", Labels, First)

MCCampaigns ==
    {<<f>> : f \in {Storm(0, "always"), Storm(2, "sometimes"), Loop(1),
        F("silent_degradation", "default", 0, "sometimes", First, Labels),
        F("silent_degradation", "default", 0, "never", Labels, Labels),
        Plain("token_timeout", "raise"), Plain("token_timeout", "delay"),
        Targeted("tool_failure", "error"), Plain("tool_failure", "timeout"),
        Plain("tool_failure", "empty"), Plain("memory_corruption", "decay"),
        Plain("memory_corruption", "garble"), Plain("memory_corruption", "truncate"),
        Targeted("handoff_corruption", "corrupt"), Plain("handoff_corruption", "drop"),
        Plain("handoff_corruption", "delay"), Plain("poisoned_response", "default"),
        Plain("auth_error", "default"), Plain("context_length", "default")}}
    \union {<<Storm(2, "always"), Plain("token_timeout", "raise")>>,
            <<Storm(1, "sometimes"), Loop(2)>>,
            <<Loop(2), Storm(1, "always")>>,
            <<F("silent_degradation", "default", 0, "always", First, Labels),
              F("rate_limit_storm", "default", 1, "always", Labels \ First, Labels)>>,
            <<Targeted("tool_failure", "error"), Plain("poisoned_response", "default")>>}

FaultSymmetry == Permutations(Workers)
=============================================================================
