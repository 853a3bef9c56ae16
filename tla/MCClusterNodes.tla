--------------------------- MODULE MCClusterNodes ---------------------------
(* Instances of ClusterNodes for TLC: what happens together.               *)
EXTENDS ClusterNodes

Budget(f) == [k \in Kinds |-> IF k \in DOMAIN f THEN f[k] ELSE 0]

Rollouts ==
    {Budget([wish |-> 1, slow |-> 1]),
     Budget([wish |-> 2, back |-> 1, late |-> 1]),
     Budget([wish |-> 1, crash |-> 1, failed |-> 1]),
     Budget([wish |-> 1, failedSelf |-> 1])}
Addresses ==
    {Budget([move |-> 2, late |-> 1, unwritten |-> 1]),
     Budget([move |-> 1, deregister |-> 1, late |-> 1, unloaded |-> 1])}
Configs ==
    {Budget([config |-> 2, stuck |-> 1]), Budget([config |-> 1, lostPing |-> 1]),
     Budget([config |-> 1, crash |-> 1])}
AllBudgets == Rollouts \union Addresses \union Configs

\* The administrators are told of a restart only when there was one
\* (watchFollowerRestart).
RestartsAreTold == TypeOK /\ ToldRestartedIsRestarted

LostPings == {Budget([config |-> 1, lostPing |-> 1])}
OneConfig == {Budget([config |-> 1])}
WishTakenBack == {Budget([wish |-> 3, back |-> 2])}
LeaderCrash == {Budget([wish |-> 1, crash |-> 1])}
SlowInstall == {Budget([wish |-> 1, slow |-> 1])}
ReloadFails == {Budget([unloaded |-> 1, move |-> 1])}
LateReport == {Budget([late |-> 1, deregister |-> 1, crash |-> 1])}

=============================================================================
