---------------------------- MODULE MCBlueGreen ----------------------------
(* Instances of BlueGreen for TLC: how often each adverse event happens.   *)
EXTENDS BlueGreen

Deployments(n) == [k \in Kinds |-> IF k = "deploy" THEN n ELSE 0]
NoTrouble == {Deployments(MaxAttempts)}

Crashes == [Deployments(3) EXCEPT !["fail"] = 2, !["crash"] = 1, !["restart"] = 1,
                                  !["loss"] = 1, !["timeout"] = 1, !["late"] = 1]
SlowDocker == [Deployments(3) EXCEPT !["fail"] = 1, !["crash"] = 1, !["loss"] = 1,
                                     !["early"] = 1, !["stuck"] = 1, !["killed"] = 1]
CoreBudget == {Crashes, SlowDocker}
LiveBudget == {[Deployments(3) EXCEPT !["fail"] = 1, !["crash"] = 1, !["loss"] = 1,
                                      !["killed"] = 1, !["early"] = 1],
               [Deployments(3) EXCEPT !["fail"] = 1, !["crash"] = 1, !["timeout"] = 1,
                                      !["stuck"] = 1]}

CancelBudget == [Deployments(2) EXCEPT !["inplace"] = 1, !["cancel"] = 1, !["timeout"] = 1,
                                       !["race"] = 1]
TeardownBudget == [Deployments(2) EXCEPT !["fail"] = 1, !["reassign"] = 1, !["teardown"] = 1,
                                         !["timeout"] = 1, !["stuck"] = 1]
MoveBudget == {CancelBudget, TeardownBudget}

\* one adverse event at a time, for the configurations that show what it breaks
Just(k) == {[Deployments(MaxAttempts) EXCEPT ![k] = 1]}
InPlace(budgets) == {[b EXCEPT !["inplace"] = MaxAttempts] : b \in budgets}
OneCancel == Just("cancel")
OneCrash == Just("crash")
OneCancelInPlace == InPlace(OneCancel)
OneLoss == Just("loss")
OneRace == Just("race")
OneReassign == Just("reassign")
OneTeardown == Just("teardown")
OneEarly == Just("early")
OneStuck == Just("stuck")
OneStuckTeardown == {[b EXCEPT !["teardown"] = 1] : b \in OneStuck}
NoTroubleInPlace == InPlace(NoTrouble)

\* the promise the detailed protocol keeps
Promise == INSTANCE TrafficCutover
             WITH active <- Served(desired), serving <- conf,
                  up <- {a \in Attempts : Running(a)}, hasty <- used["early"]
ImplementsCutover == Promise!Spec

=============================================================================
