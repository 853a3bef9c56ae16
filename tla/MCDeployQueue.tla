--------------------------- MODULE MCDeployQueue ---------------------------
(* Instances of DeployQueue for TLC: how often each event happens.         *)
EXTENDS DeployQueue

Quiet == [k \in Kinds |-> IF k = "request" THEN MaxInst ELSE 0]

CrashBudget == [Quiet EXCEPT !["timeout"] = 2, !["crash"] = 2]
\* every instance is taken out of the queue at most once, and once more after a crash
LiveBudget == [Quiet EXCEPT !["request"] = 2, !["timeout"] = 3, !["crash"] = 1, !["teardown"] = 1]
BusyBudget == [Quiet EXCEPT !["request"] = 2, !["crash"] = 1, !["overlap"] = 1, !["cancel"] = 1,
                            !["timeout"] = 1]

Safety == {CrashBudget, BusyBudget}
Live == {LiveBudget}
All == Safety \union Live

Just(k) == [Quiet EXCEPT ![k] = 1]
Nothing == {Quiet}
OneOverlap == {Just("overlap")}
OneCancel == {Just("cancel")}
OneTeardown == {Just("teardown")}
OverlapAndCrash == {[Just("overlap") EXCEPT !["crash"] = 1]}

=============================================================================
