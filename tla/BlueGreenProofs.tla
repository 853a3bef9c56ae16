--------------------------- MODULE BlueGreenProofs ---------------------------
(***************************************************************************)
(* What the blue-green protocol promises, for every number of hosts and    *)
(* attempts and however often builds fail, daemons end, reports are lost   *)
(* or late and waiters time out:                                           *)
(*   - the generation numbers and the nginx confs kept side by side in the *)
(*     desired row belong together;                                        *)
(*   - traffic goes to announced generations only;                         *)
(*   - no containers are forgotten;                                        *)
(*   - what nginx points at is running;                                    *)
(*   - BlueGreen implements TrafficCutover.                                *)
(* Each of the last four holds until the events its property names, which  *)
(* defeat it (see BlueGreenBadStaleReady.cfg and the changes it lists).    *)
(***************************************************************************)
EXTENDS MCBlueGreen, TLAPS

-----------------------------------------------------------------------------
(* Types, and what the desired row holds.                                  *)

\* Every operation on the generation marker (reconcile/state.ts) yields a
\* well-formed marker, whether or not the file existed.
LEMMA MarkerOperations ==
    ASSUME NEW S \in SUBSET (Nat \ {0}), NEW f \in Marker(S) \cup {NoFile}, NEW g \in S
    PROVE  /\ readMarker(f) \in Marker(S)
           /\ setLocalGeneration(g) \in Marker(S)
           /\ markGenerationLive(f, g) \in Marker(S)
           /\ markGenerationReady(f, g) \in Marker(S)
           /\ removeLiveGeneration(f, g) \in Marker(S)
<1>1. readMarker(f) \in Marker(S)
  BY DEF readMarker, Marker, EmptyMarker, NoGen
<1>2. setLocalGeneration(g) \in Marker(S)
  BY DEF setLocalGeneration, Marker
<1>3. markGenerationLive(f, g) \in Marker(S)
  BY <1>1 DEF markGenerationLive, Marker
<1>4. markGenerationReady(f, g) \in Marker(S)
  BY <1>1 DEF markGenerationReady, Marker
<1>5. removeLiveGeneration(f, g) \in Marker(S)
  BY <1>1 DEF removeLiveGeneration, Marker
<1> QED
  BY <1>1, <1>2, <1>3, <1>4, <1>5


(* The strengthening: generations are bounded by the attempts made, and    *)
(* the attempt in the deploy slot has not been proposed yet, so that       *)
(* writing its generation cannot disturb a conf that is in use.            *)
GenerationsBounded ==
    /\ desired.gen <= attempts
    /\ slot # NoSlot => slot.log <= attempts
    /\ slot.pc = "plan" => desired.gen < slot.log
    /\ slot.pc = "write" => slot.proposal # NoDesired /\ slot.proposal.gen <= slot.log

OnlyProposedHaveGenerations ==
    /\ \A a \in Attempts : a > attempts => genOf[a] = NoGen
    /\ slot.pc \in {"plan", "write"} => genOf[slot.log] = NoGen

DesiredConsistent ==
    desired # NoDesired =>
        /\ genOf[desired.conf] = desired.gen
        /\ desired.act # NoGen => desired.actConf # NoAttempt /\ genOf[desired.actConf] = desired.act
        /\ desired.act <= desired.gen

ProposalConsistent ==
    slot.pc = "write" =>
        LET d == slot.proposal IN
        /\ d.conf = slot.log
        /\ d.act <= d.gen
        /\ d.act # NoGen => \/ d.act = d.gen /\ d.actConf = slot.log
                            \/ d.actConf # NoAttempt /\ genOf[d.actConf] = d.act

IInv == TypeOK /\ GenerationsBounded /\ OnlyProposedHaveGenerations
        /\ DesiredConsistent /\ ProposalConsistent

USE MaxAttemptsAssumption DEF Attempts, Gens, NoGen, NoAttempt

(* The operators the actions are built from, on typed arguments.           *)
LEMMA LoggedType ==
    ASSUME NEW r \in Row, NEW s \in States PROVE Logged(r, s) \in Row
  BY DEF Logged, Row, States

\* Counting an adverse event keeps the counts natural numbers.
LEMMA SpendType ==
    ASSUME used \in [Kinds -> Nat], NEW k \in Kinds, Spend(k)
    PROVE  used' \in [Kinds -> Nat]
  BY DEF Spend, Uses

\* Waking the waiter of a settled instance keeps the slot well formed.
LEMMA NotifiedType ==
    ASSUME slot \in Slot \cup {NoSlot}, NEW a \in Attempts, NEW s \in States
    PROVE  Notified(slot, row, a, s) \in Slot \cup {NoSlot}
<1>1. CASE slot = NoSlot
  BY <1>1 DEF Notified
<1>2. CASE slot \in Slot
  <2>1. [slot EXCEPT !.done = TRUE] \in Slot
    BY <1>2 DEF Slot
  <2> QED
    BY <1>2, <2>1 DEF Notified
<1> QED
  BY <1>1, <1>2

\* Storing a reported state keeps the rows and the slot well formed.
LEMMA ReportType ==
    ASSUME row \in [Attempts -> Row], slot \in Slot \cup {NoSlot}, used \in [Kinds -> Nat],
           NEW n, NEW a \in Attempts, NEW s \in States, ReportOrLose(n, a, s)
    PROVE  /\ row' \in [Attempts -> Row]
           /\ slot' \in Slot \cup {NoSlot}
           /\ used' \in [Kinds -> Nat]
<1>1. CASE Report(a, s) /\ UNCHANGED used
  BY <1>1, LoggedType, NotifiedType DEF Report
<1>2. CASE Spend("loss") /\ UNCHANGED <<row, slot>>
  BY <1>2, SpendType DEF Kinds
<1> QED
  BY <1>1, <1>2 DEF ReportOrLose

\* The end of a job schedules drains for generations the marker names and leaves the node well formed.
LEMMA FinishType ==
    ASSUME NEW n \in Nodes, NEW m \in Marker(Gens), Finish(n, m),
           job \in [Nodes -> Job \cup {NoJob}], timers \in [Nodes -> SUBSET Gens],
           cflag \in [Nodes -> BOOLEAN]
    PROVE  /\ job' \in [Nodes -> Job \cup {NoJob}]
           /\ timers' \in [Nodes -> SUBSET Gens]
           /\ cflag' \in [Nodes -> BOOLEAN]
<1>1. m.live \subseteq Gens
  BY DEF Marker
<1> QED
  BY <1>1 DEF Finish

\* The desired row a deployment proposes is a desired row.
LEMMA ProposalType ==
    ASSUME desired \in Desired \cup {NoDesired}, where \in [Attempts -> Nodes],
           NEW a \in Attempts, NEW zd \in BOOLEAN, desired.gen < MaxAttempts
    PROVE  Proposal(desired, a, zd) \in Desired
<1>1. CASE desired = NoDesired
  BY <1>1 DEF Proposal, NextGen, Active, NoDesired, Desired
<1>2. CASE desired # NoDesired
  BY <1>2 DEF Proposal, NextGen, Active, Desired
<1> QED
  BY <1>1, <1>2

\* The row a cancel falls back to is a desired row.
LEMMA RolledBackType ==
    ASSUME desired \in Desired \cup {NoDesired}, Pending(desired)
    PROVE  RolledBack(desired) \in Desired
  BY DEF Pending, RolledBack, Desired

\* What nginx serves after a row changed is a conf or nothing.
LEMMA ServedType ==
    ASSUME desired \in Desired \cup {NoDesired} PROVE Served(desired) \in Attempts \cup {NoAttempt}
  BY DEF Served, Desired

\* A write between the read and the write of a deployment is counted as a race.
LEMMA InterleavedType ==
    ASSUME used \in [Kinds -> Nat], Interleaved PROVE used' \in [Kinds -> Nat]
  BY SpendType DEF Interleaved, Kinds

\* A node without containers is a node.
LEMMA EmptyStacksType == EmptyStacks \in Stacks
  BY DEF EmptyStacks, Stacks

\* docker compose down leaves a node with fewer containers, and notes what is left.
LEMMA DownType ==
    ASSUME stacks \in [Nodes -> Stacks], left \subseteq Nodes \X Keys, used \in [Kinds -> Nat],
           NEW n \in Nodes, NEW keys \in SUBSET Keys, NEW kinds, Down(n, keys, kinds)
    PROVE  stacks' \in [Nodes -> Stacks] /\ left' \subseteq Nodes \X Keys /\ used' \in [Kinds -> Nat]
<1>1. PICK stuck \in SUBSET {k \in keys : stacks[n][k] # NoAttempt} :
        /\ stacks' = [stacks EXCEPT ![n] =
                        [k \in Keys |-> IF k \in keys \ stuck THEN NoAttempt ELSE stacks[n][k]]]
        /\ left' = (left \ ({n} \X keys)) \cup ({n} \X stuck)
        /\ Uses(kinds \cup (IF stuck = {} THEN {} ELSE {"stuck"}))
  BY DEF Down
<1>2. [k \in Keys |-> IF k \in keys \ stuck THEN NoAttempt ELSE stacks[n][k]] \in Stacks
  BY DEF Stacks
<1>3. stacks' \in [Nodes -> Stacks]
  BY <1>1, <1>2
<1>4. stuck \subseteq Keys
  OBVIOUS
<1>5. left' \subseteq Nodes \X Keys
  BY <1>1, <1>4
<1>6. used' \in [Kinds -> Nat]
  BY <1>1 DEF Uses
<1> QED
  BY <1>3, <1>5, <1>6

\* It touches the keys it is asked for, empties them or notes them, and counts its kinds.
LEMMA DownEffect ==
    ASSUME stacks \in [Nodes -> Stacks], NEW n \in Nodes, NEW keys \in SUBSET Keys, NEW kinds,
           Down(n, keys, kinds)
    PROVE  /\ \A m \in Nodes \ {n} : stacks'[m] = stacks[m]
           /\ \A k \in Keys \ keys : stacks'[n][k] = stacks[n][k]
           /\ \A k \in keys : stacks'[n][k] \in {NoAttempt, stacks[n][k]}
           /\ \A k \in keys : stacks'[n][k] # NoAttempt => <<n, k>> \in left'
           /\ \A m \in Nodes, k \in Keys :
                 <<m, k>> \in left /\ (m # n \/ k \notin keys) => <<m, k>> \in left'
           /\ \E all : kinds \subseteq all /\ all \subseteq kinds \cup {"stuck"} /\ Uses(all)
<1>1. PICK stuck \in SUBSET {k \in keys : stacks[n][k] # NoAttempt} :
        /\ stacks' = [stacks EXCEPT ![n] =
                        [k \in Keys |-> IF k \in keys \ stuck THEN NoAttempt ELSE stacks[n][k]]]
        /\ left' = (left \ ({n} \X keys)) \cup ({n} \X stuck)
        /\ Uses(kinds \cup (IF stuck = {} THEN {} ELSE {"stuck"}))
  BY DEF Down
<1>2. \A k \in Keys : stacks'[n][k] = IF k \in keys \ stuck THEN NoAttempt ELSE stacks[n][k]
  BY <1>1
<1>3. \A m \in Nodes \ {n} : stacks'[m] = stacks[m]
  BY <1>1
<1>4. \A k \in keys : stacks'[n][k] # NoAttempt => <<n, k>> \in left'
  BY <1>1, <1>2
<1>5. \A m \in Nodes, k \in Keys :
        <<m, k>> \in left /\ (m # n \/ k \notin keys) => <<m, k>> \in left'
  BY <1>1
<1>6. \E all : kinds \subseteq all /\ all \subseteq kinds \cup {"stuck"} /\ Uses(all)
  BY <1>1
<1> QED
  BY <1>2, <1>3, <1>4, <1>5, <1>6

\* The marker operations at the generations of this model.
LEMMA MarkerType ==
    ASSUME marker \in [Nodes -> Marker(Gens) \cup {NoFile}], NEW n \in Nodes, NEW g \in Gens
    PROVE  /\ readMarker(marker[n]) \in Marker(Gens)
           /\ setLocalGeneration(g) \in Marker(Gens)
           /\ markGenerationLive(marker[n], g) \in Marker(Gens)
           /\ markGenerationReady(marker[n], g) \in Marker(Gens)
           /\ removeLiveGeneration(marker[n], g) \in Marker(Gens)
<1>1. Gens \in SUBSET (Nat \ {0})
  OBVIOUS
<1> QED
  BY <1>1, MarkerOperations

\* A job that is under way works on a well-formed desired row.
LEMMA JobType ==
    ASSUME job \in [Nodes -> Job \cup {NoJob}], NEW n \in Nodes, job[n].pc # "idle"
    PROVE  /\ job[n] \in Job
           /\ Dep(n) \in Desired
           /\ Dep(n).gen \in Gens
           /\ Dep(n).log \in Attempts
           /\ Key(Dep(n)) \in Keys
<1>1. job[n] \in Job
  BY DEF NoJob
<1>2. Dep(n) \in Desired
  BY <1>1 DEF Job, Dep
<1> QED
  BY <1>1, <1>2 DEF Desired, Key, Keys

\* Every step keeps the types, given that generations are bounded.
LEMMA TypePreserved == TypeOK /\ GenerationsBounded /\ [Next]_vars => TypeOK'
<1> SUFFICES ASSUME TypeOK, GenerationsBounded, [Next]_vars PROVE TypeOK'
  OBVIOUS
<1>1. ASSUME NEW zd \in BOOLEAN, StartDeploy(zd) PROVE TypeOK'
  BY <1>1 DEF StartDeploy, Uses, Row, States, Slot, NoDesired, TypeOK, leaderVars,
     nodeVars
<1>2. ASSUME Plan PROVE TypeOK'
  <2>1. slot \in Slot /\ slot.pc = "plan"
    BY <1>2 DEF Plan, NoSlot, TypeOK
  <2>2. CASE slot.log \in flagged
    <3>1. flagged' = flagged \ {slot.log} /\ Release(slot.log, "CANCELLED")
      BY <1>2, <2>2 DEF Plan
    <3>2. slot.log \in Attempts
      BY <2>1 DEF Slot
    <3>3. Logged(row[slot.log], "CANCELLED") \in Row
      BY <3>2, LoggedType DEF States, TypeOK
    <3>4. row' \in [Attempts -> Row] /\ slot' = NoSlot
      BY <3>1, <3>2, <3>3 DEF Release, TypeOK
    <3>5. flagged' \subseteq Attempts
      BY <3>1 DEF TypeOK
    <3> QED
      BY <1>2, <3>4, <3>5 DEF Plan, TypeOK, nodeVars
  <2>3. CASE slot.log \notin flagged
    <3>1. slot.log \in Attempts /\ slot.zd \in BOOLEAN /\ slot.log <= attempts /\ desired.gen < slot.log
      BY <2>1 DEF GenerationsBounded, Slot, NoSlot
    <3>2. desired.gen \in Nat
      BY DEF TypeOK, Desired, NoDesired
    <3>3. Proposal(desired, slot.log, slot.zd) \in Desired
      BY <3>1, <3>2, ProposalType DEF TypeOK
    <3>4. slot' \in Slot
      BY <1>2, <2>1, <2>3, <3>3 DEF Plan, Slot
    <3> QED
      BY <1>2, <2>3, <3>4 DEF Plan, TypeOK, nodeVars
  <2> QED
    BY <2>2, <2>3
<1>3. ASSUME PlanFails PROVE TypeOK'
  BY <1>3, LoggedType, SpendType DEF PlanFails, Release, States, Kinds, Slot, NoSlot, TypeOK,
     leaderVars, nodeVars
<1>4. ASSUME Propose PROVE TypeOK'
  <2>1. slot \in Slot /\ slot.pc = "write"
    BY <1>4 DEF Propose, NoSlot, TypeOK
  <2>2. slot.proposal \in Desired /\ slot.log \in Attempts
    BY <2>1 DEF Slot, GenerationsBounded
  <2>3. slot.proposal.gen \in Gens
    BY <2>2 DEF Desired
  <2>4. slot' \in Slot \cup {NoSlot}
    BY <1>4, <2>1 DEF Propose, Slot
  <2> QED
    BY <1>4, <2>2, <2>3, <2>4 DEF Propose, TypeOK, nodeVars
<1>5. ASSUME QueueTimeout PROVE TypeOK'
  BY <1>5, SpendType DEF QueueTimeout, Kinds, Slot, NoSlot, TypeOK, leaderVars, nodeVars
<1>6. ASSUME Render PROVE TypeOK'
  BY <1>6, ServedType DEF Render, TypeOK, leaderVars, nodeVars
<1>7. ASSUME CancelRequest PROVE TypeOK'
  BY <1>7, SpendType, ZenonT(60) DEF CancelRequest, Kinds, Call, Slot, NoSlot, TypeOK,
     leaderVars, nodeVars
<1>8. ASSUME CancelDesired PROVE TypeOK'
  BY <1>8, InterleavedType, RolledBackType DEF CancelDesired, Call, NoCall, TypeOK,
     leaderVars, nodeVars
<1>9. ASSUME CancelNode PROVE TypeOK'
  <2>1. canceler \in Call
    BY <1>9 DEF CancelNode, NoCall, TypeOK
  <2>2. canceler' \in Call
    BY <1>9, <2>1 DEF CancelNode, Call
  <2>3. used' \in [Kinds -> Nat] /\ cflag' \in [Nodes -> BOOLEAN]
    BY <1>9, SpendType DEF CancelNode, Kinds, TypeOK
  <2> QED
    BY <1>9, <2>2, <2>3 DEF CancelNode, TypeOK
<1>10. ASSUME CancelRows PROVE TypeOK'
  BY <1>10, LoggedType, NotifiedType DEF CancelRows, Row, States, TypeOK, leaderVars, nodeVars
<1>11. ASSUME TeardownNode PROVE TypeOK'
  <2>1. /\ stacks' \in [Nodes -> Stacks] /\ left' \subseteq Nodes \X Keys
        /\ used' \in [Kinds -> Nat] /\ purges' \subseteq Nodes
    <3>1. CASE Down(assign, Keys, {"teardown"}) /\ UNCHANGED purges
      BY <3>1, DownType DEF TypeOK
    <3>2. CASE /\ Spend("teardown") /\ \E told \in SUBSET {assign} : purges' = purges \cup told
               /\ UNCHANGED <<stacks, left>>
      BY <3>2, SpendType DEF Kinds, TypeOK
    <3> QED
      BY <1>11, <3>1, <3>2 DEF TeardownNode
  <2> QED
    BY <1>11, <2>1 DEF TeardownNode, TypeOK
<1>12. ASSUME TeardownClear PROVE TypeOK'
  BY <1>12, InterleavedType DEF TeardownClear, Row, States, TypeOK, leaderVars, nodeVars
<1>13. ASSUME TeardownRender PROVE TypeOK'
  BY <1>13, ServedType DEF TeardownRender, TypeOK, leaderVars, nodeVars
<1>14. ASSUME LeaderRestart PROVE TypeOK'
  BY <1>14, SpendType DEF LeaderRestart, Forget, Kinds, TypeOK, leaderVars, nodeVars
<1>15. ASSUME NEW m \in readyMsgs, PromoteDeployment(m) PROVE TypeOK'
  <2>1. used' \in [Kinds -> Nat]
    BY <1>15, InterleavedType DEF PromoteDeployment, IsCurrent, TypeOK
  <2>2. CASE desired.gen = m.gen
    <3>1. m.gen \in Gens
      BY DEF TypeOK
    <3>2. desired \in Desired
      BY <2>2, <3>1 DEF TypeOK, NoDesired
    <3>3. desired' \in Desired
      BY <1>15, <2>2, <3>1, <3>2 DEF PromoteDeployment, IsCurrent, Desired
    <3>4. ASSUME NEW a \in Attempts PROVE [row[a] EXCEPT !.active = FALSE] \in Row
      <4>1. row[a] \in Row
        BY DEF TypeOK
      <4> QED
        BY <4>1 DEF Row
    <3>5. row' \in [Attempts -> Row]
      <4>1. row \in [Attempts -> Row]
        BY DEF TypeOK
      <4> QED
        BY <1>15, <2>2, <3>4, <4>1 DEF PromoteDeployment, IsCurrent
    <3> QED
      BY <1>15, <2>1, <3>3, <3>5 DEF PromoteDeployment, IsCurrent, TypeOK, nodeVars
  <2>3. CASE desired.gen # m.gen
    BY <1>15, <2>1, <2>3 DEF PromoteDeployment, IsCurrent, TypeOK, nodeVars
  <2> QED
    BY <2>2, <2>3
<1>16. ASSUME NEW m \in readyMsgs, LoseReady(m) PROVE TypeOK'
  BY <1>16, SpendType DEF LoseReady, Kinds, TypeOK, leaderVars, nodeVars
<1>17. ASSUME NEW n \in Nodes, StartApply(n) PROVE TypeOK'
  BY <1>17, ReportType DEF StartApply, Assigned, Job, NoJob, States, Desired, TypeOK,
     leaderVars, nodeVars
<1>18. ASSUME NEW n \in Nodes, Build(n) PROVE TypeOK'
  <2>1. job[n] \in Job /\ Dep(n).log \in Attempts /\ Key(Dep(n)) \in Keys
    BY <1>18, JobType DEF Build, At, TypeOK
  <2>2. job' \in [Nodes -> Job \cup {NoJob}]
    <3>1. [job[n] EXCEPT !.pc = "live"] \in Job
      BY <2>1 DEF Job
    <3> QED
      BY <1>18, <3>1 DEF Build, Goto, TypeOK
  <2>3. stacks' \in [Nodes -> Stacks]
    <3>1. PICK s \in Attempts \cup {NoAttempt, stacks[n][Key(Dep(n))]} :
             stacks' = [stacks EXCEPT ![n][Key(Dep(n))] = s]
      BY <1>18, <2>1 DEF Build
    <3>2. stacks[n] \in Stacks
      BY DEF TypeOK
    <3>3. s \in Attempts \cup {NoAttempt}
      BY <2>1, <3>2 DEF Stacks
    <3>4. [stacks[n] EXCEPT ![Key(Dep(n))] = s] \in Stacks
      BY <3>2, <3>3 DEF Stacks
    <3> QED
      BY <3>1, <3>4 DEF TypeOK
  <2>4. used' \in [Kinds -> Nat] /\ left' \subseteq Nodes \X Keys
    BY <1>18, SpendType DEF Build, Kinds, TypeOK
  <2> QED
    BY <1>18, <2>2, <2>3, <2>4 DEF Build, TypeOK, leaderVars
<1>19. ASSUME NEW n \in Nodes, BuildFails(n) PROVE TypeOK'
  <2>1. job[n] \in Job
    BY <1>19, JobType DEF BuildFails, At, TypeOK
  <2>2. [[job[n] EXCEPT !.pc = "undo"] EXCEPT !.canceled = cflag[n]] \in Job
    BY <2>1 DEF Job, TypeOK
  <2>3. job' \in [Nodes -> Job \cup {NoJob}]
    BY <1>19, <2>2 DEF BuildFails, Abandon, TypeOK
  <2>4. used' \in [Kinds -> Nat]
    BY <1>19, SpendType DEF BuildFails, Kinds, TypeOK
  <2> QED
    BY <1>19, <2>3, <2>4 DEF BuildFails, TypeOK, leaderVars
<1>20. ASSUME NEW n \in Nodes, MarkLive(n) PROVE TypeOK'
  BY <1>20, MarkerType, JobType, ZenonT(60) DEF MarkLive, Goto, At, Job, NoJob, TypeOK,
     leaderVars, nodeVars
<1>21. ASSUME NEW n \in Nodes, InPlaceDone(n) PROVE TypeOK'
  BY <1>21, MarkerType, JobType, ReportType, FinishType DEF InPlaceDone, At, States,
     readMarker, TypeOK, leaderVars, nodeVars
<1>22. ASSUME NEW n \in Nodes, GatePasses(n) PROVE TypeOK'
  BY <1>22, MarkerType, JobType, ZenonT(60) DEF GatePasses, Goto, At, Job, NoJob, TypeOK,
     leaderVars, nodeVars
<1>23. ASSUME NEW n \in Nodes, GateFails(n) PROVE TypeOK'
  <2>1. job[n] \in Job
    BY <1>23, JobType DEF GateFails, At, TypeOK
  <2>2. [[job[n] EXCEPT !.pc = "undo"] EXCEPT !.canceled = cflag[n]] \in Job
    BY <2>1 DEF Job, TypeOK
  <2>3. job' \in [Nodes -> Job \cup {NoJob}]
    BY <1>23, <2>2 DEF GateFails, Abandon, TypeOK
  <2>4. used' \in [Kinds -> Nat]
    BY <1>23, SpendType DEF GateFails, Kinds, TypeOK
  <2> QED
    BY <1>23, <2>3, <2>4 DEF GateFails, TypeOK, leaderVars
<1>24. ASSUME NEW n \in Nodes, ReportDeployed(n) PROVE TypeOK'
  BY <1>24, JobType, ReportType, ZenonT(60) DEF ReportDeployed, Goto, At, Job, NoJob, States,
     TypeOK, leaderVars, nodeVars
<1>25. ASSUME NEW n \in Nodes, Announce(n) PROVE TypeOK'
  <2>1. Dep(n).gen \in Gens /\ readMarker(marker[n]) \in Marker(Gens)
    BY <1>25, JobType, MarkerType DEF Announce, At, TypeOK
  <2>2. /\ job' \in [Nodes -> Job \cup {NoJob}]
        /\ timers' \in [Nodes -> SUBSET Gens]
        /\ cflag' \in [Nodes -> BOOLEAN]
    BY <1>25, <2>1, FinishType DEF Announce, TypeOK
  <2> QED
    BY <1>25, <2>1, <2>2 DEF Announce, TypeOK, leaderVars
<1>26. ASSUME NEW n \in Nodes, Undo(n) PROVE TypeOK'
  <2>1. job[n] \in Job /\ Dep(n).gen \in Gens /\ Key(Dep(n)) \in Keys
    BY <1>26, JobType DEF Undo, At, TypeOK
  <2>2. /\ stacks' \in [Nodes -> Stacks] /\ left' \subseteq Nodes \X Keys
        /\ used' \in [Kinds -> Nat]
    BY <1>26, <2>1, DownType DEF Undo, TypeOK
  <2>3. marker' \in [Nodes -> Marker(Gens) \cup {NoFile}]
    BY <1>26, <2>1, MarkerType DEF Undo, TypeOK
  <2>4. job' \in [Nodes -> Job \cup {NoJob}]
    <3>1. [job[n] EXCEPT !.pc = "report"] \in Job
      BY <2>1 DEF Job
    <3> QED
      BY <1>26, <3>1 DEF Undo, Goto, TypeOK
  <2> QED
    BY <1>26, <2>2, <2>3, <2>4 DEF Undo, TypeOK, leaderVars
<1>27. ASSUME NEW n \in Nodes, ReportFailure(n) PROVE TypeOK'
  BY <1>27, JobType, ReportType, FinishType, MarkerType DEF ReportFailure, At, States, TypeOK,
     leaderVars, nodeVars
<1>28. ASSUME NEW n \in Nodes, ScheduleDrain(n) PROVE TypeOK'
  BY <1>28, MarkerType, SMTT(30) DEF ScheduleDrain, Drains, Marker, TypeOK, leaderVars, nodeVars
<1>29. ASSUME NEW n \in Nodes, Sweep(n) PROVE TypeOK'
  BY <1>29, DownType DEF Sweep, SweptKeys, TypeOK, leaderVars
<1>30. ASSUME NEW n \in Nodes, Purge(n) PROVE TypeOK'
  BY <1>30, DownType DEF Purge, TypeOK, leaderVars
<1>31. ASSUME NEW n \in Nodes, NodeRestart(n) PROVE TypeOK'
  BY <1>31, SpendType DEF NodeRestart, Forget, Kinds, TypeOK, leaderVars, nodeVars
<1>32. ASSUME NEW n \in Nodes, setProjectAssignment(n) PROVE TypeOK'
  BY <1>32, SpendType DEF setProjectAssignment, Kinds, TypeOK, leaderVars, nodeVars
<1>33. ASSUME NEW n \in Nodes, NEW g \in timers[n], DrainFires(n, g) PROVE TypeOK'
  <2>1. g \in Gens /\ {g} \in SUBSET Keys
    BY DEF TypeOK, Keys
  <2>2. PICK kinds : Down(n, {g}, kinds)
    BY <1>33 DEF DrainFires
  <2>3. /\ stacks' \in [Nodes -> Stacks] /\ left' \subseteq Nodes \X Keys
        /\ used' \in [Kinds -> Nat]
    BY <2>1, <2>2, DownType DEF TypeOK
  <2>4. marker' \in [Nodes -> Marker(Gens) \cup {NoFile}]
    BY <1>33, <2>1, MarkerType DEF DrainFires, TypeOK
  <2> QED
    BY <1>33, <2>3, <2>4 DEF DrainFires, TypeOK, leaderVars
<1>34. ASSUME NEW n \in Nodes, Progress(n) PROVE TypeOK'
  <2>1. job[n] \in Job /\ job[n].dep.log \in Attempts
    BY <1>34 DEF Progress, Job, Desired, TypeOK
  <2>2. row' \in [Attempts -> Row] /\ slot' \in Slot \cup {NoSlot}
    BY <1>34, <2>1, LoggedType, NotifiedType DEF Progress, Report, States, TypeOK
  <2>3. used' \in [Kinds -> Nat]
    BY <1>34, SpendType DEF Progress, Kinds, TypeOK
  <2> QED
    BY <1>34, <2>1, <2>2, <2>3 DEF Progress, States, TypeOK, leaderVars, nodeVars
<1>35. CASE UNCHANGED vars
  BY <1>35 DEF vars, TypeOK, leaderVars, nodeVars
<1> QED
  BY <1>1, <1>2, <1>3, <1>4, <1>5, <1>6, <1>7, <1>8, <1>9, <1>10, <1>11, <1>12, <1>13, <1>14,
     <1>15, <1>16, <1>17, <1>18, <1>19, <1>20, <1>21, <1>22, <1>23, <1>24, <1>25, <1>26,
     <1>27, <1>28, <1>29, <1>30, <1>31, <1>32, <1>33, <1>34,
     <1>35 DEF Next, Deploys, Cutovers, Cancels, Teardowns, NodeStep, Drain

\* The initial state satisfies the inductive invariant.
LEMMA InitIInv == Init => IInv
<1> SUFFICES ASSUME Init PROVE IInv
  OBVIOUS
<1>1. TypeOK
  <2>1. stacks \in [Nodes -> Stacks] /\ marker \in [Nodes -> Marker(Gens) \cup {NoFile}]
    BY EmptyStacksType DEF Init
  <2>2. row \in [Attempts -> Row] /\ genOf \in [Attempts -> Gens \cup {NoGen}]
    BY DEF Init, Row, States
  <2>3. where \in [Attempts -> Nodes] /\ timers \in [Nodes -> SUBSET Gens]
        /\ cflag \in [Nodes -> BOOLEAN] /\ job \in [Nodes -> Job \cup {NoJob}]
    BY DEF Init
  <2>4. used \in [Kinds -> Nat]
    BY DEF Init
  <2>5. attempts \in 0..MaxAttempts /\ askedUpTo \in 0..MaxAttempts
    BY DEF Init
  <2> QED
    BY <2>1, <2>2, <2>3, <2>4, <2>5 DEF Init, TypeOK
<1>2. GenerationsBounded /\ OnlyProposedHaveGenerations /\ DesiredConsistent /\ ProposalConsistent
  BY DEF Init, GenerationsBounded, OnlyProposedHaveGenerations, DesiredConsistent,
         ProposalConsistent, NoDesired, NoSlot
<1> QED
  BY <1>1, <1>2 DEF IInv

(* The parts of IInv besides TypeOK.                                       *)
Strengthening == GenerationsBounded /\ OnlyProposedHaveGenerations
                 /\ DesiredConsistent /\ ProposalConsistent

\* the slot stays, is freed, or learns that its waiter is resolved
SlotSettles == slot' \in {slot, NoSlot, [slot EXCEPT !.done = TRUE]}

\* A step that only settles the slot keeps the bounds and the row consistent.
LEMMA SettlingKeeps ==
    ASSUME TypeOK, Strengthening, SlotSettles, UNCHANGED <<desired, attempts, genOf>>
    PROVE  Strengthening'
<1>1. CASE slot' = slot
  BY <1>1 DEF Strengthening, GenerationsBounded, OnlyProposedHaveGenerations,
              DesiredConsistent, ProposalConsistent
<1>2. CASE slot' = NoSlot
  BY <1>2 DEF Strengthening, GenerationsBounded, OnlyProposedHaveGenerations,
              DesiredConsistent, ProposalConsistent, NoSlot
<1>3. CASE slot' = [slot EXCEPT !.done = TRUE] /\ slot # NoSlot
  <2>1. slot \in Slot
    BY <1>3 DEF TypeOK
  <2>2. slot'.pc = slot.pc /\ slot'.log = slot.log /\ slot'.proposal = slot.proposal
    BY <1>3, <2>1 DEF Slot
  <2> QED
    BY <1>3, <2>2 DEF Strengthening, GenerationsBounded, OnlyProposedHaveGenerations,
                      DesiredConsistent, ProposalConsistent
<1>4. CASE slot' = [slot EXCEPT !.done = TRUE] /\ slot = NoSlot
  BY <1>4 DEF Strengthening, GenerationsBounded, OnlyProposedHaveGenerations,
              DesiredConsistent, ProposalConsistent, NoSlot
<1> QED
  BY <1>1, <1>2, <1>3, <1>4 DEF SlotSettles

\* Waking the waiter leaves the slot as it is or settles it.
LEMMA NotifiedSettles ==
    ASSUME NEW a, NEW s, slot' = Notified(slot, row, a, s) PROVE SlotSettles
  BY DEF Notified, SlotSettles

\* A report leaves the slot as it is or settles it.
LEMMA ReportSettles ==
    ASSUME NEW n, NEW a, NEW s, ReportOrLose(n, a, s) PROVE SlotSettles
<1>1. CASE Report(a, s)
  BY <1>1, NotifiedSettles DEF Report
<1>2. CASE UNCHANGED slot
  BY <1>2 DEF SlotSettles
<1> QED
  BY <1>1, <1>2 DEF ReportOrLose

\* A new attempt has no generation yet, so the row stays consistent.
LEMMA StartDeployKeeps ==
    ASSUME TypeOK, Strengthening, NEW zd \in BOOLEAN, StartDeploy(zd) PROVE Strengthening'
  BY DEF StartDeploy, TypeOK, Strengthening, GenerationsBounded, OnlyProposedHaveGenerations,
         DesiredConsistent, ProposalConsistent, Desired, NoDesired

\* The planned generation is one above the row and belongs to the attempt.
LEMMA PlanKeeps ==
    ASSUME TypeOK, Strengthening, Plan PROVE Strengthening'
<1>1. slot \in Slot /\ slot.pc = "plan"
  BY DEF Plan, NoSlot, TypeOK
<1>2. CASE slot.log \in flagged
  <2>1. SlotSettles
    BY <1>2 DEF Plan, Release, SlotSettles
  <2> QED
    BY <2>1, SettlingKeeps DEF Plan
<1>3. CASE slot.log \notin flagged
  <2> DEFINE new == Proposal(desired, slot.log, slot.zd)
  <2>1. slot.log \in Attempts /\ slot.zd \in BOOLEAN /\ desired.gen < slot.log /\ slot.log <= attempts
    BY <1>1 DEF Slot, NoSlot, Strengthening, GenerationsBounded
  <2>2. /\ slot'.pc = "write" /\ slot'.log = slot.log /\ slot'.proposal = new
        /\ UNCHANGED <<desired, attempts, genOf>>
    BY <1>1, <1>3 DEF Plan, Slot
  <2>3. /\ new.gen = desired.gen + 1 /\ new.conf = slot.log
        /\ new.act = IF slot.zd THEN (IF desired = NoDesired THEN NoGen ELSE desired.act) ELSE desired.gen + 1
        /\ new.actConf = IF slot.zd THEN (IF desired = NoDesired THEN NoAttempt ELSE desired.actConf) ELSE slot.log
    BY DEF Proposal, NextGen, Active
  <2>4. desired.gen \in Nat /\ (desired # NoDesired => desired.act \in Nat /\ desired.gen \in Nat \ {0})
    BY DEF TypeOK, Desired, NoDesired
  <2>5. new # NoDesired /\ new.gen <= slot.log
    BY <2>1, <2>3, <2>4 DEF NoDesired
  <2>6. /\ new.act <= new.gen
        /\ new.act # NoGen => \/ new.act = new.gen /\ new.actConf = slot.log
                              \/ new.actConf # NoAttempt /\ genOf[new.actConf] = new.act
    BY <2>3, <2>4 DEF Strengthening, DesiredConsistent
  <2> HIDE DEF new
  <2>7. GenerationsBounded'
    BY <2>1, <2>2, <2>5, <1>1 DEF Strengthening, GenerationsBounded, NoSlot
  <2>8. OnlyProposedHaveGenerations' /\ DesiredConsistent'
    BY <1>1, <2>2 DEF Strengthening, OnlyProposedHaveGenerations, DesiredConsistent
  <2>9. ProposalConsistent'
    BY <2>2, <2>3, <2>6 DEF ProposalConsistent
  <2> QED
    BY <2>7, <2>8, <2>9 DEF Strengthening
<1> QED
  BY <1>2, <1>3

\* Writing the proposal replaces both halves of the row together.
LEMMA ProposeKeeps ==
    ASSUME TypeOK, Strengthening, Propose PROVE Strengthening'
<1> DEFINE d == slot.proposal
<1>1. slot \in Slot /\ slot.pc = "write" /\ slot # NoSlot
  BY DEF Propose, NoSlot, TypeOK
<1>2. slot.log \in Attempts /\ d \in Desired /\ d.gen <= slot.log /\ slot.log <= attempts
  BY <1>1 DEF Slot, Strengthening, GenerationsBounded
<1>3. d.gen \in Gens /\ d.act \in Nat /\ d.actConf \in Attempts \cup {NoAttempt}
  BY <1>2 DEF Desired
<1>4. desired' = d /\ genOf' = [genOf EXCEPT ![slot.log] = d.gen] /\ attempts' = attempts
  BY DEF Propose
<1>5. slot'.pc \in {"free", "await"} /\ (slot' # NoSlot => slot'.log = slot.log)
  BY <1>1 DEF Propose, NoSlot, Slot
<1>6. genOf[slot.log] = NoGen /\ genOf \in [Attempts -> Gens \cup {NoGen}]
  BY <1>1 DEF Strengthening, OnlyProposedHaveGenerations, TypeOK
<1>7. /\ d.conf = slot.log /\ d.act <= d.gen
      /\ d.act # NoGen => \/ d.act = d.gen /\ d.actConf = slot.log
                          \/ d.actConf # NoAttempt /\ genOf[d.actConf] = d.act
  BY <1>1 DEF Strengthening, ProposalConsistent
<1> HIDE DEF d
<1>8. GenerationsBounded'
  BY <1>2, <1>3, <1>4, <1>5 DEF GenerationsBounded, TypeOK
<1>9. OnlyProposedHaveGenerations'
  BY <1>2, <1>3, <1>4, <1>5, <1>6 DEF Strengthening, OnlyProposedHaveGenerations, TypeOK
<1>10. DesiredConsistent'
  BY <1>2, <1>3, <1>4, <1>6, <1>7 DEF DesiredConsistent
<1>11. ProposalConsistent'
  BY <1>5 DEF ProposalConsistent
<1> QED
  BY <1>8, <1>9, <1>10, <1>11 DEF Strengthening

\* Promotion makes the pending half of the row the active one.
LEMMA PromotionKeeps ==
    ASSUME TypeOK, Strengthening, NEW m \in readyMsgs, PromoteDeployment(m) PROVE Strengthening'
<1>1. UNCHANGED <<slot, attempts, genOf>>
  BY DEF PromoteDeployment, IsCurrent
<1>2. CASE desired.gen # m.gen
  BY <1>1, <1>2, SettlingKeeps DEF PromoteDeployment, IsCurrent, SlotSettles
<1>3. CASE desired.gen = m.gen
  <2>1. desired \in Desired /\ m.gen \in Gens
    BY <1>3 DEF TypeOK, NoDesired
  <2>2. /\ desired'.gen = desired.gen /\ desired'.conf = desired.conf /\ desired'.act = desired.gen
        /\ desired'.actConf = IF desired.act = desired.gen THEN desired.actConf ELSE desired.conf
    BY <1>3, <2>1 DEF PromoteDeployment, IsCurrent, Desired
  <2>3. desired.conf \in Attempts /\ desired.gen \in Gens
    BY <2>1 DEF Desired
  <2>4. DesiredConsistent'
    BY <1>1, <2>1, <2>2, <2>3 DEF Strengthening, DesiredConsistent, NoDesired
  <2> QED
    BY <1>1, <2>2, <2>4 DEF Strengthening, GenerationsBounded, OnlyProposedHaveGenerations,
                            ProposalConsistent
<1> QED
  BY <1>2, <1>3

\* An empty row has nothing to disagree about.
LEMMA ClearingKeeps ==
    ASSUME TypeOK, Strengthening, desired' = NoDesired, UNCHANGED <<slot, attempts, genOf>>
    PROVE  Strengthening'
<1>1. desired.gen \in Nat
  BY DEF TypeOK, Desired, NoDesired
<1>2. slot # NoSlot => slot.log \in Nat /\ slot.log >= 1
  BY DEF TypeOK, Slot
<1>3. desired'.gen = 0 /\ attempts \in Nat
  BY DEF NoDesired, TypeOK
<1>4. GenerationsBounded'
  BY <1>1, <1>2, <1>3 DEF Strengthening, GenerationsBounded, NoSlot
<1> QED
  BY <1>4 DEF Strengthening, OnlyProposedHaveGenerations, DesiredConsistent, ProposalConsistent

\* A cancel puts back the pair that was active, or empties the row.
LEMMA CancelDesiredKeeps ==
    ASSUME TypeOK, Strengthening, CancelDesired PROVE Strengthening'
<1>1. UNCHANGED <<slot, attempts, genOf>>
  BY DEF CancelDesired
<1>2. CASE Pending(desired)
  <2>1. desired \in Desired /\ desired.act # NoGen /\ desired.act < desired.gen
    BY <1>2 DEF Pending, TypeOK, Desired
  <2>2. desired.actConf # NoAttempt /\ genOf[desired.actConf] = desired.act
    BY <2>1 DEF Strengthening, DesiredConsistent, Desired, NoDesired
  <2>3. /\ desired'.gen = desired.act /\ desired'.conf = desired.actConf
        /\ desired'.act = desired.act /\ desired'.actConf = desired.actConf
    BY <1>2, <2>1, <2>2 DEF CancelDesired, RolledBack, Desired
  <2>4. desired.gen \in Nat /\ desired.act \in Nat
    BY <2>1 DEF Desired
  <2>5. DesiredConsistent'
    BY <1>1, <2>2, <2>3, <2>4 DEF DesiredConsistent
  <2>6. GenerationsBounded'
    BY <1>1, <2>1, <2>3, <2>4 DEF Strengthening, GenerationsBounded, TypeOK, Slot, NoSlot
  <2> QED
    BY <1>1, <2>5, <2>6 DEF Strengthening, OnlyProposedHaveGenerations, ProposalConsistent
<1>3. CASE desired' = NoDesired
  BY <1>1, <1>3, ClearingKeeps
<1>4. CASE desired' = desired
  BY <1>1, <1>4, SettlingKeeps DEF SlotSettles
<1> QED
  BY <1>2, <1>3, <1>4 DEF CancelDesired

\* Every step keeps the inductive invariant.
LEMMA IInvPreserved == IInv /\ [Next]_vars => IInv'
<1> SUFFICES ASSUME TypeOK, Strengthening, [Next]_vars PROVE Strengthening'
  BY TypePreserved DEF IInv, Strengthening
<1>1. ASSUME NEW zd \in BOOLEAN, StartDeploy(zd) PROVE Strengthening'
  BY <1>1, StartDeployKeeps
<1>2. ASSUME Plan PROVE Strengthening'
  BY <1>2, PlanKeeps
<1>3. ASSUME PlanFails PROVE Strengthening'
  BY <1>3, SettlingKeeps DEF PlanFails, Release, SlotSettles
<1>4. ASSUME Propose PROVE Strengthening'
  BY <1>4, ProposeKeeps
<1>5. ASSUME QueueTimeout PROVE Strengthening'
  BY <1>5, SettlingKeeps DEF QueueTimeout, SlotSettles
<1>6. ASSUME NEW m \in readyMsgs, PromoteDeployment(m) PROVE Strengthening'
  BY <1>6, PromotionKeeps
<1>7. ASSUME NEW m \in readyMsgs, LoseReady(m) PROVE Strengthening'
  BY <1>7, SettlingKeeps DEF LoseReady, leaderVars, SlotSettles
<1>8. ASSUME Render PROVE Strengthening'
  BY <1>8, SettlingKeeps DEF Render, SlotSettles
<1>9. ASSUME CancelRequest PROVE Strengthening'
  BY <1>9, SettlingKeeps DEF CancelRequest, SlotSettles
<1>10. ASSUME CancelDesired PROVE Strengthening'
  BY <1>10, CancelDesiredKeeps
<1>11. ASSUME CancelNode PROVE Strengthening'
  BY <1>11, SettlingKeeps DEF CancelNode, SlotSettles
<1>12. ASSUME CancelRows PROVE Strengthening'
  BY <1>12, SettlingKeeps, NotifiedSettles DEF CancelRows, SlotSettles
<1>13. ASSUME TeardownNode PROVE Strengthening'
  BY <1>13, SettlingKeeps DEF TeardownNode, SlotSettles
<1>14. ASSUME TeardownClear PROVE Strengthening'
  BY <1>14, ClearingKeeps DEF TeardownClear
<1>15. ASSUME TeardownRender PROVE Strengthening'
  BY <1>15, SettlingKeeps DEF TeardownRender, SlotSettles
<1>16. ASSUME LeaderRestart PROVE Strengthening'
  BY <1>16, SettlingKeeps DEF LeaderRestart, SlotSettles
<1>17. ASSUME NEW n \in Nodes, StartApply(n) PROVE Strengthening'
  BY <1>17, SettlingKeeps, ReportSettles DEF StartApply
<1>18. ASSUME NEW n \in Nodes, InPlaceDone(n) PROVE Strengthening'
  BY <1>18, SettlingKeeps, ReportSettles DEF InPlaceDone
<1>19. ASSUME NEW n \in Nodes, ReportDeployed(n) PROVE Strengthening'
  BY <1>19, SettlingKeeps, ReportSettles DEF ReportDeployed
<1>20. ASSUME NEW n \in Nodes, ReportFailure(n) PROVE Strengthening'
  BY <1>20, SettlingKeeps, ReportSettles DEF ReportFailure
<1>21. ASSUME NEW n \in Nodes, Build(n) PROVE Strengthening'
  BY <1>21, SettlingKeeps DEF Build, leaderVars, SlotSettles
<1>22. ASSUME NEW n \in Nodes, BuildFails(n) PROVE Strengthening'
  BY <1>22, SettlingKeeps DEF BuildFails, leaderVars, SlotSettles
<1>23. ASSUME NEW n \in Nodes, MarkLive(n) PROVE Strengthening'
  BY <1>23, SettlingKeeps DEF MarkLive, leaderVars, SlotSettles
<1>24. ASSUME NEW n \in Nodes, GatePasses(n) PROVE Strengthening'
  BY <1>24, SettlingKeeps DEF GatePasses, leaderVars, SlotSettles
<1>25. ASSUME NEW n \in Nodes, GateFails(n) PROVE Strengthening'
  BY <1>25, SettlingKeeps DEF GateFails, leaderVars, SlotSettles
<1>26. ASSUME NEW n \in Nodes, Announce(n) PROVE Strengthening'
  BY <1>26, SettlingKeeps DEF Announce, leaderVars, SlotSettles
<1>27. ASSUME NEW n \in Nodes, Undo(n) PROVE Strengthening'
  BY <1>27, SettlingKeeps DEF Undo, leaderVars, SlotSettles
<1>28. ASSUME NEW n \in Nodes, ScheduleDrain(n) PROVE Strengthening'
  BY <1>28, SettlingKeeps DEF ScheduleDrain, leaderVars, SlotSettles
<1>29. ASSUME NEW n \in Nodes, Sweep(n) PROVE Strengthening'
  BY <1>29, SettlingKeeps DEF Sweep, leaderVars, SlotSettles
<1>30. ASSUME NEW n \in Nodes, Purge(n) PROVE Strengthening'
  BY <1>30, SettlingKeeps DEF Purge, leaderVars, SlotSettles
<1>31. ASSUME NEW n \in Nodes, NodeRestart(n) PROVE Strengthening'
  BY <1>31, SettlingKeeps DEF NodeRestart, leaderVars, SlotSettles
<1>32. ASSUME NEW n \in Nodes, setProjectAssignment(n) PROVE Strengthening'
  BY <1>32, SettlingKeeps DEF setProjectAssignment, SlotSettles
<1>33. ASSUME NEW n \in Nodes, NEW g \in timers[n], DrainFires(n, g) PROVE Strengthening'
  BY <1>33, SettlingKeeps DEF DrainFires, leaderVars, SlotSettles
<1>34. ASSUME NEW n \in Nodes, Progress(n) PROVE Strengthening'
  BY <1>34, SettlingKeeps, NotifiedSettles DEF Progress, Report
<1>35. CASE UNCHANGED vars
  BY <1>35, SettlingKeeps DEF vars, leaderVars, SlotSettles
<1> QED
  BY <1>1, <1>2, <1>3, <1>4, <1>5, <1>6, <1>7, <1>8, <1>9, <1>10, <1>11, <1>12, <1>13, <1>14,
     <1>15, <1>16, <1>17, <1>18, <1>19, <1>20, <1>21, <1>22, <1>23, <1>24, <1>25, <1>26,
     <1>27, <1>28, <1>29, <1>30, <1>31, <1>32, <1>33, <1>34,
     <1>35 DEF Next, Deploys, Cutovers, Cancels, Teardowns, NodeStep, Drain

\* The inductive invariant holds in every reachable state.
LEMMA Invariance == Spec => []IInv
<1> QED
  BY InitIInv, IInvPreserved, PTL DEF Spec

\* Every variable keeps its type in every behaviour; in particular a generation
\* number never exceeds the number of deployments ever started, however often a
\* cancel takes the number back.
THEOREM TypeCorrect == Spec => []TypeOK
<1>1. IInv => TypeOK
  BY DEF IInv
<1> QED
  BY <1>1, Invariance, PTL

\* In the desired row the pending conf belongs to the pending generation and the
\* active conf to the active one, through bumps, promotions, rollbacks, stale
\* reports and interleaved handlers (deployProject, promoteDeployment,
\* cancelDeploy): nginx is never given the ports of another generation.
THEOREM ConfsBelongToGenerations == Spec => []ConfMatchesGeneration
<1>1. IInv => ConfMatchesGeneration
  BY DEF IInv, DesiredConsistent, ConfMatchesGeneration
<1> QED
  BY <1>1, Invariance, PTL

-----------------------------------------------------------------------------
(* How often events have happened.                                         *)

\* Every event is counted, once, by the step in which it happens; a drain that comes
\* early is one.
LEMMA StepsCount ==
    ASSUME [Next]_vars
    PROVE  \/ UNCHANGED used
           \/ \E kinds : Uses(kinds) /\ "early" \notin kinds
           \/ (\E n \in Nodes : Drain(n)) /\ \E kinds : Uses(kinds)
<1> DEFINE Other == UNCHANGED used \/ \E kinds : Uses(kinds) /\ "early" \notin kinds
<1> USE DEF Spend
<1>1. CASE Deploys
  BY <1>1 DEF Deploys, StartDeploy, Plan, PlanFails, Propose, QueueTimeout
<1>2. CASE Cutovers
  BY <1>2 DEF Cutovers, PromoteDeployment, LoseReady, Render, Interleaved
<1>3. CASE Cancels
  BY <1>3 DEF Cancels, CancelRequest, CancelDesired, CancelNode, CancelRows, Interleaved
<1>4. CASE Teardowns \/ LeaderRestart
  <2>1. ASSUME TeardownNode, assign = Leader PROVE Other
    <3>1. Down(assign, Keys, {"teardown"})
      BY <2>1 DEF TeardownNode
    <3>2. PICK all : Uses({"teardown"} \cup all) /\ all \in {{}, {"stuck"}}
      BY <3>1 DEF Down
    <3> QED
      BY <3>2
  <2>2. ASSUME TeardownNode, assign # Leader PROVE Other
    BY <2>2 DEF TeardownNode
  <2>3. ASSUME TeardownClear \/ TeardownRender \/ LeaderRestart PROVE Other
    BY <2>3 DEF TeardownClear, TeardownRender, Interleaved, LeaderRestart
  <2> QED
    BY <1>4, <2>1, <2>2, <2>3 DEF Teardowns
<1>5. ASSUME NEW n \in Nodes, NodeStep(n) PROVE Other
  <2>1. CASE StartApply(n) \/ InPlaceDone(n) \/ ReportDeployed(n) \/ ReportFailure(n)
    BY <2>1 DEF StartApply, InPlaceDone, ReportDeployed, ReportFailure, ReportOrLose
  <2>2. CASE \/ Build(n) \/ MarkLive(n) \/ GatePasses(n) \/ Announce(n) \/ Undo(n)
             \/ ScheduleDrain(n) \/ Sweep(n)
    BY <2>2 DEF Build, MarkLive, GatePasses, Announce, Undo, ScheduleDrain, Sweep, Down
  <2>3. CASE BuildFails(n) \/ GateFails(n)
    BY <2>3 DEF BuildFails, GateFails
  <2> QED
    BY <1>5, <2>1, <2>2, <2>3 DEF NodeStep
<1>6. ASSUME NEW n \in Nodes, Progress(n) \/ Purge(n) \/ NodeRestart(n) \/ setProjectAssignment(n)
      PROVE  Other
  BY <1>6 DEF Progress, Purge, NodeRestart, setProjectAssignment, Down
<1>7. ASSUME NEW n \in Nodes, Drain(n) PROVE \E kinds : Uses(kinds)
  BY <1>7 DEF Drain, DrainFires, Down
<1>8. CASE UNCHANGED vars
  BY <1>8 DEF vars
<1> QED
  BY <1>1, <1>2, <1>3, <1>4, <1>5, <1>6, <1>7, <1>8 DEF Next

\* What has not happened after a step had not happened before it.
LEMMA NeverBefore ==
    ASSUME TypeOK, [Next]_vars, NEW K \in SUBSET Kinds, Never(K)' PROVE Never(K)
<1>1. ASSUME NEW kinds, Uses(kinds), NEW k \in K PROVE used[k] = 0
  <2>1. used[k] \in Nat /\ used'[k] = 0 /\ used'[k] = used[k] + (IF k \in kinds THEN 1 ELSE 0)
    BY <1>1 DEF TypeOK, Uses, Never
  <2> QED
    BY <2>1
<1>2. CASE UNCHANGED used
  BY <1>2 DEF Never
<1> QED
  BY <1>1, <1>2, StepsCount DEF Never

\* A step that counts an event is not one after which it has never happened.
LEMMA CountedOnce ==
    ASSUME TypeOK, NEW K \in SUBSET Kinds, Never(K)', NEW kinds, Uses(kinds)
    PROVE  kinds \cap K = {}
<1> SUFFICES ASSUME NEW k \in kinds \cap K PROVE FALSE
  OBVIOUS
<1>1. used[k] \in Nat /\ used'[k] = used[k] + 1 /\ used'[k] = 0
  BY DEF TypeOK, Uses, Never
<1> QED
  BY <1>1

\* Without a race, nothing is written to the desired row between deployProject's
\* read of it and its write.
LEMMA NotInterleaved ==
    ASSUME TypeOK, Never({"race"})', Interleaved PROVE Quiet
BY CountedOnce DEF Interleaved, Spend, Kinds

-----------------------------------------------------------------------------
(* What the steps do to the deploy slot, the desired row and the ticks.    *)

\* Apart from the handlers that begin, plan, propose, promote, roll back and clear,
\* a step leaves the desired row alone and at most settles the deploy slot.
LEMMA LeaderSteps ==
    ASSUME [Next]_vars
    PROVE  \/ \E zd \in BOOLEAN : StartDeploy(zd)
           \/ Plan \/ Propose \/ CancelDesired \/ TeardownClear
           \/ \E m \in readyMsgs : PromoteDeployment(m)
           \/ SlotSettles /\ UNCHANGED <<desired, genOf, attempts, where>>
<1> DEFINE Rest == SlotSettles /\ UNCHANGED <<desired, genOf, attempts, where>>
<1>1. CASE PlanFails \/ QueueTimeout \/ Render
  BY <1>1 DEF PlanFails, Release, QueueTimeout, Render, SlotSettles
<1>2. ASSUME NEW m \in readyMsgs, LoseReady(m) PROVE Rest
  BY <1>2 DEF LoseReady, leaderVars, SlotSettles
<1>3. CASE CancelRequest \/ CancelNode
  BY <1>3 DEF CancelRequest, CancelNode, SlotSettles
<1>4. CASE CancelRows
  BY <1>4, NotifiedSettles DEF CancelRows, SlotSettles
<1>5. CASE TeardownNode \/ TeardownRender \/ LeaderRestart
  BY <1>5 DEF TeardownNode, TeardownRender, LeaderRestart, SlotSettles
<1>6. ASSUME NEW n \in Nodes, NodeStep(n) PROVE Rest
  <2>1. CASE StartApply(n) \/ InPlaceDone(n) \/ ReportDeployed(n) \/ ReportFailure(n)
    BY <2>1, ReportSettles DEF StartApply, InPlaceDone, ReportDeployed, ReportFailure
  <2>2. CASE \/ Build(n) \/ BuildFails(n) \/ MarkLive(n) \/ GatePasses(n) \/ GateFails(n)
             \/ Announce(n) \/ Undo(n) \/ ScheduleDrain(n) \/ Sweep(n)
    BY <2>2 DEF Build, BuildFails, MarkLive, GatePasses, GateFails, Announce, Undo,
                ScheduleDrain, Sweep, SlotSettles, leaderVars
  <2> QED
    BY <1>6, <2>1, <2>2 DEF NodeStep
<1>7. ASSUME NEW n \in Nodes, Progress(n) PROVE Rest
  BY <1>7, NotifiedSettles DEF Progress, Report
<1>8. ASSUME NEW n \in Nodes, Drain(n) \/ Purge(n) \/ NodeRestart(n) \/ setProjectAssignment(n)
      PROVE  Rest
  BY <1>8 DEF Drain, DrainFires, Purge, NodeRestart, setProjectAssignment, SlotSettles, leaderVars
<1>9. CASE UNCHANGED vars
  BY <1>9 DEF vars, leaderVars, SlotSettles
<1> QED
  BY <1>1, <1>2, <1>3, <1>4, <1>5, <1>6, <1>7, <1>8, <1>9
     DEF Next, Deploys, Cutovers, Cancels, Teardowns

\* A tick's turn for the project either goes on with the deployment it started
\* with, or starts with the one that is desired.
LEMMA TurnsGoOn ==
    ASSUME TypeOK, [Next]_vars, NEW n \in Nodes, job'[n] # NoJob
    PROVE  \/ job[n] # NoJob /\ Dep(n)' = Dep(n)
           \/ StartApply(n) /\ Dep(n)' = desired
<1> DEFINE Same == job[n] # NoJob /\ Dep(n)' = Dep(n)
<1> USE DEF Dep
<1>1. CASE job' = job
  BY <1>1
<1>2. CASE Deploys
  BY <1>1, <1>2 DEF Deploys, StartDeploy, Plan, PlanFails, Propose, QueueTimeout, nodeVars
<1>3. CASE Cutovers
  BY <1>1, <1>3 DEF Cutovers, PromoteDeployment, IsCurrent, LoseReady, Render, nodeVars
<1>4. CASE Cancels
  BY <1>1, <1>4 DEF Cancels, CancelRequest, CancelDesired, CancelNode, CancelRows, nodeVars
<1>5. CASE Teardowns
  BY <1>1, <1>5 DEF Teardowns, TeardownNode, TeardownClear, TeardownRender, nodeVars
<1>6. CASE LeaderRestart
  BY <1>6 DEF LeaderRestart, Forget, TypeOK
<1>7. ASSUME NEW m \in Nodes, StartApply(m)
      PROVE  Same \/ (StartApply(n) /\ Dep(n)' = desired)
  <2>1. job' = [job EXCEPT ![m] = [pc |-> "build", dep |-> desired, canceled |-> FALSE]]
    BY <1>7 DEF StartApply
  <2>2. CASE n = m
    BY <1>7, <2>1, <2>2 DEF TypeOK
  <2>3. CASE n # m
    BY <1>1, <2>1, <2>3 DEF TypeOK
  <2> QED
    BY <2>2, <2>3
<1>8. ASSUME NEW m \in Nodes, At(m, "build") \/ At(m, "live") \/ At(m, "gate") \/ At(m, "ready")
                              \/ At(m, "undo"),
             NEW pc, Goto(m, pc) \/ Abandon(m)
      PROVE  Same
  <2>1. job[m] \in Job
    BY <1>8, JobType DEF At, TypeOK
  <2>2. job'[m].dep = job[m].dep /\ job[m] # NoJob
    BY <1>8, <2>1 DEF Goto, Abandon, Job, TypeOK, At, NoJob
  <2> QED
    BY <1>8, <2>2 DEF Goto, Abandon, TypeOK
<1>9. ASSUME NEW m \in Nodes, NEW f, Finish(m, f) PROVE Same
  BY <1>9 DEF Finish, TypeOK
<1>10. ASSUME NEW m \in Nodes, NodeStep(m) PROVE Same \/ (StartApply(n) /\ Dep(n)' = desired)
  <2>1. CASE StartApply(m)
    BY <1>7, <2>1
  <2>2. CASE Build(m)
    <3>1. At(m, "build") /\ Goto(m, "live")
      BY <2>2 DEF Build
    <3> QED
      BY <1>8, <3>1
  <2>3. CASE BuildFails(m)
    <3>1. At(m, "build") /\ Abandon(m)
      BY <2>3 DEF BuildFails
    <3> QED
      BY <1>8, <3>1
  <2>4. CASE MarkLive(m)
    <3>1. At(m, "live") /\ Goto(m, "gate")
      BY <2>4 DEF MarkLive
    <3> QED
      BY <1>8, <3>1
  <2>5. CASE GatePasses(m)
    <3>1. At(m, "gate") /\ Goto(m, "ready")
      BY <2>5 DEF GatePasses
    <3> QED
      BY <1>8, <3>1
  <2>6. CASE GateFails(m)
    <3>1. At(m, "gate") /\ Abandon(m)
      BY <2>6 DEF GateFails
    <3> QED
      BY <1>8, <3>1
  <2>7. CASE ReportDeployed(m)
    <3>1. At(m, "ready") /\ Goto(m, "announce")
      BY <2>7 DEF ReportDeployed
    <3> QED
      BY <1>8, <3>1
  <2>8. CASE Undo(m)
    <3>1. At(m, "undo") /\ Goto(m, "report")
      BY <2>8 DEF Undo
    <3> QED
      BY <1>8, <3>1
  <2>9. ASSUME NEW f, Finish(m, f) PROVE Same
    BY <1>9, <2>9
  <2>10. CASE InPlaceDone(m) \/ Announce(m) \/ ReportFailure(m)
    <3>1. \E f : Finish(m, f)
      BY <2>10 DEF InPlaceDone, Announce, ReportFailure
    <3> QED
      BY <2>9, <3>1
  <2>11. CASE ScheduleDrain(m) \/ Sweep(m)
    <3>1. job' = job
      BY <2>11 DEF ScheduleDrain, Sweep
    <3> QED
      BY <1>1, <3>1
  <2> QED
    BY <1>10, <2>1, <2>2, <2>3, <2>4, <2>5, <2>6, <2>7, <2>8, <2>10, <2>11 DEF NodeStep
<1>11. ASSUME NEW m \in Nodes, Progress(m) \/ Drain(m) \/ Purge(m) \/ setProjectAssignment(m)
       PROVE  Same
  BY <1>1, <1>11 DEF Progress, Drain, DrainFires, Purge, setProjectAssignment, nodeVars
<1>12. ASSUME NEW m \in Nodes, NodeRestart(m) PROVE Same
  BY <1>12 DEF NodeRestart, Forget, TypeOK
<1>13. CASE UNCHANGED vars
  BY <1>1, <1>13 DEF vars, nodeVars
<1> QED
  BY <1>2, <1>3, <1>4, <1>5, <1>6, <1>10, <1>11, <1>12, <1>13 DEF Next

-----------------------------------------------------------------------------
(* Traffic goes to announced generations only.                             *)

\* No attempt, desired deployment or tick is of the in-place kind.
AllRolling ==
    /\ slot # NoSlot => slot.zd
    /\ slot.pc = "write" => slot.proposal.zd
    /\ desired # NoDesired => desired.zd
    /\ \A n \in Nodes : job[n] # NoJob => Dep(n).zd

\* What deployProject is about to write was made from the row as it is.
ProposalIsFresh == slot.pc = "write" => slot.proposal = Proposal(desired, slot.log, slot.zd)

\* A slot that is settled keeps what it was planning.
LEMMA SettledSlot ==
    ASSUME TypeOK, SlotSettles
    PROVE  \/ slot' = NoSlot
           \/ /\ slot # NoSlot /\ slot' # NoSlot /\ slot'.pc = slot.pc /\ slot'.log = slot.log
              /\ slot'.zd = slot.zd /\ slot'.proposal = slot.proposal
<1>1. CASE slot = NoSlot
  BY <1>1 DEF SlotSettles, NoSlot
<1>2. CASE slot # NoSlot
  <2>1. slot \in Slot
    BY <1>2 DEF TypeOK
  <2>2. slot'.pc # "free" \/ slot' = NoSlot
    BY <1>2, <2>1 DEF SlotSettles, Slot
  <2> QED
    BY <1>2, <2>1, <2>2 DEF SlotSettles, Slot, NoSlot
<1> QED
  BY <1>1, <1>2

\* Deployments stay of the zero-downtime kind until one is started in place.
LEMMA AllRollingPreserved ==
    ASSUME TypeOK, AllRolling, Never({"inplace"})', [Next]_vars PROVE AllRolling'
<1> DEFINE SlotOK == /\ slot # NoSlot => slot.zd
                     /\ slot.pc = "write" => slot.proposal.zd
           RowOK == desired # NoDesired => desired.zd
<1>1. \A n \in Nodes : job'[n] # NoJob => Dep(n)'.zd
  BY TurnsGoOn DEF AllRolling, StartApply, Assigned
<1>2. ASSUME NEW zd \in BOOLEAN, StartDeploy(zd) PROVE SlotOK' /\ RowOK'
  <2>1. zd
    BY <1>2, CountedOnce DEF StartDeploy, Kinds
  <2> QED
    BY <1>2, <2>1 DEF StartDeploy, AllRolling
<1>3. ASSUME Plan PROVE SlotOK' /\ RowOK'
  <2>1. slot \in Slot /\ slot.zd
    BY <1>3 DEF Plan, AllRolling, TypeOK, NoSlot
  <2>2. CASE slot' = NoSlot
    <3>1. slot'.pc = "free" /\ desired' = desired
      BY <1>3, <2>2 DEF Plan, NoSlot
    <3> QED
      BY <2>2, <3>1 DEF AllRolling
  <2>3. CASE slot' # NoSlot
    <3>1. slot' = [slot EXCEPT !.pc = "write",
                               !.proposal = Proposal(desired, slot.log, slot.zd)]
      BY <1>3, <2>3 DEF Plan, Release
    <3>2. slot'.zd = slot.zd /\ slot'.proposal = Proposal(desired, slot.log, slot.zd)
      BY <2>1, <3>1 DEF Slot
    <3>3. slot'.proposal.zd
      BY <2>1, <3>2 DEF Proposal
    <3> QED
      BY <1>3, <2>1, <3>2, <3>3 DEF Plan, AllRolling
  <2> QED
    BY <2>2, <2>3
<1>4. ASSUME Propose PROVE SlotOK' /\ RowOK'
  <2>1. slot \in Slot /\ slot.zd
    BY <1>4 DEF Propose, AllRolling, TypeOK, NoSlot
  <2>2. slot'.pc # "write" /\ (slot' # NoSlot => slot'.zd)
    BY <1>4, <2>1 DEF Propose, NoSlot, Slot
  <2>3. RowOK'
    BY <1>4 DEF Propose, AllRolling
  <2> QED
    BY <2>2, <2>3
<1>5. ASSUME CancelDesired PROVE SlotOK' /\ RowOK'
  <2>1. RowOK'
    BY <1>5 DEF CancelDesired, RolledBack, Pending, AllRolling, TypeOK, Desired
  <2> QED
    BY <1>5, <2>1 DEF CancelDesired, AllRolling
<1>6. ASSUME TeardownClear PROVE SlotOK' /\ RowOK'
  BY <1>6 DEF TeardownClear, AllRolling
<1>7. ASSUME NEW m \in readyMsgs, PromoteDeployment(m) PROVE SlotOK' /\ RowOK'
  <2>1. CASE desired = NoDesired
    <3>1. m.gen \in Gens
      BY DEF TypeOK
    <3>2. desired' = desired
      BY <1>7, <2>1, <3>1 DEF PromoteDeployment, IsCurrent, NoDesired
    <3> QED
      BY <1>7, <3>2 DEF PromoteDeployment, AllRolling
  <2>2. CASE desired # NoDesired
    <3>1. desired'.zd = desired.zd
      BY <1>7, <2>2 DEF PromoteDeployment, TypeOK, Desired
    <3> QED
      BY <1>7, <2>2, <3>1 DEF PromoteDeployment, AllRolling
  <2> QED
    BY <2>1, <2>2
<1>8. ASSUME SlotSettles, UNCHANGED desired PROVE SlotOK' /\ RowOK'
  BY <1>8, SettledSlot DEF AllRolling, NoSlot
<1>9. SlotOK' /\ RowOK'
  BY <1>2, <1>3, <1>4, <1>5, <1>6, <1>7, <1>8, LeaderSteps
<1> QED
  BY <1>1, <1>9 DEF AllRolling

\* The row is not written between deployProject's read and its write, until another
\* handler gets in between.
LEMMA ProposalStaysFresh ==
    ASSUME TypeOK, ProposalIsFresh, Never({"race"})', [Next]_vars PROVE ProposalIsFresh'
<1>1. ASSUME NEW zd \in BOOLEAN, StartDeploy(zd) PROVE ProposalIsFresh'
  BY <1>1 DEF StartDeploy, ProposalIsFresh
<1>2. CASE Plan
  <2>1. slot \in Slot
    BY <1>2 DEF Plan, TypeOK, NoSlot
  <2>2. CASE slot' = NoSlot
    BY <2>2 DEF NoSlot, ProposalIsFresh
  <2>3. CASE slot' # NoSlot
    <3>1. slot' = [slot EXCEPT !.pc = "write",
                               !.proposal = Proposal(desired, slot.log, slot.zd)]
      BY <1>2, <2>3 DEF Plan, Release
    <3>2. /\ slot'.log = slot.log /\ slot'.zd = slot.zd
          /\ slot'.proposal = Proposal(desired, slot.log, slot.zd)
      BY <2>1, <3>1 DEF Slot
    <3> QED
      BY <1>2, <3>2 DEF Plan, ProposalIsFresh, Proposal
  <2> QED
    BY <2>2, <2>3
<1>3. CASE Propose
  BY <1>3 DEF Propose, ProposalIsFresh, NoSlot, TypeOK, Slot
<1>4. CASE CancelDesired
  BY <1>4, NotInterleaved DEF CancelDesired, Quiet, ProposalIsFresh
<1>5. CASE TeardownClear
  BY <1>5, NotInterleaved DEF TeardownClear, Quiet, ProposalIsFresh
<1>6. ASSUME NEW m \in readyMsgs, PromoteDeployment(m) PROVE ProposalIsFresh'
  BY <1>6, NotInterleaved DEF PromoteDeployment, Quiet, ProposalIsFresh
<1>7. CASE SlotSettles /\ UNCHANGED <<desired, genOf, attempts, where>>
  BY <1>7, SettledSlot DEF ProposalIsFresh, NoSlot, Proposal
<1> QED
  BY <1>1, <1>2, <1>3, <1>4, <1>5, <1>6, <1>7, LeaderSteps

\* What the invariants of this part say, each until what defeats it happens.
ServedInv == /\ Never({"inplace"}) => AllRolling
             /\ Never({"race"}) => ProposalIsFresh

\* They are inductive.
LEMMA ServedInvPreserved == TypeOK /\ ServedInv /\ [Next]_vars => ServedInv'
<1> SUFFICES ASSUME TypeOK, ServedInv, [Next]_vars PROVE ServedInv'
  OBVIOUS
<1>1. {"inplace"} \in SUBSET Kinds /\ {"race"} \in SUBSET Kinds
  BY DEF Kinds
<1>2. ASSUME Never({"inplace"})' PROVE AllRolling'
  BY <1>1, <1>2, NeverBefore, AllRollingPreserved DEF ServedInv
<1>3. ASSUME Never({"race"})' PROVE ProposalIsFresh'
  BY <1>1, <1>3, NeverBefore, ProposalStaysFresh DEF ServedInv
<1> QED
  BY <1>2, <1>3 DEF ServedInv

\* They hold before anything is deployed.
LEMMA ServedInvInitially == Init => ServedInv
BY DEF Init, ServedInv, AllRolling, ProposalIsFresh, NoSlot, NoDesired, NoJob

\* A promotion serves the attempt of the generation that was announced, and no other
\* handler serves anything new.
LEMMA OnlyPromotionsServe ==
    ASSUME IInv, AllRolling, AllRolling', ProposalIsFresh, [Next]_vars,
           Served(desired)' \notin {Served(desired), NoAttempt}
    PROVE  \E m \in readyMsgs : m.gen = genOf[Served(desired)']
<1> USE DEF IInv
<1>1. CASE desired' = desired
  BY <1>1 DEF Served
<1>2. CASE Propose
  <2>1. slot \in Slot /\ slot.zd /\ slot.proposal = Proposal(desired, slot.log, slot.zd)
    BY <1>2 DEF Propose, TypeOK, NoSlot, AllRolling, ProposalIsFresh
  <2>2. desired'.zd /\ desired' # NoDesired /\ desired'.actConf = Active(desired).actConf
    BY <1>2, <2>1 DEF Propose, Proposal, GenerationsBounded
  <2> QED
    BY <2>2 DEF Served, Active, AllRolling
<1>3. CASE CancelDesired
  <2>1. CASE Pending(desired)
    BY <1>3, <2>1 DEF CancelDesired, Pending, RolledBack, Served, AllRolling, TypeOK, Desired
  <2>2. CASE ~Pending(desired)
    BY <1>1, <1>3, <2>2 DEF CancelDesired, Served
  <2> QED
    BY <2>1, <2>2
<1>4. CASE TeardownClear
  BY <1>4 DEF TeardownClear, Served
<1>5. ASSUME NEW m \in readyMsgs, PromoteDeployment(m)
      PROVE  \E i \in readyMsgs : i.gen = genOf[Served(desired)']
  <2>1. m.gen \in Gens
    BY DEF TypeOK
  <2>2. CASE desired.gen = m.gen
    <3>1. desired \in Desired /\ desired # NoDesired
      BY <2>1, <2>2 DEF TypeOK, NoDesired
    <3>2. /\ desired'.zd = desired.zd
          /\ desired'.actConf = IF desired.act = m.gen THEN desired.actConf ELSE desired.conf
          /\ desired'.conf = desired.conf
      BY <1>5, <2>2, <3>1 DEF PromoteDeployment, IsCurrent, Desired
    <3>3. genOf[desired.conf] = m.gen
      BY <2>2, <3>1 DEF DesiredConsistent
    <3> QED
      BY <3>1, <3>2, <3>3 DEF Served, AllRolling
  <2>3. CASE desired.gen # m.gen
    BY <1>1, <1>5, <2>3 DEF PromoteDeployment, IsCurrent
  <2> QED
    BY <2>2, <2>3
<1>6. CASE (\E zd \in BOOLEAN : StartDeploy(zd)) \/ Plan
  BY <1>1, <1>6 DEF StartDeploy, Plan
<1> QED
  BY <1>1, <1>2, <1>3, <1>4, <1>5, <1>6, LeaderSteps

\* What nginx should serve changes to an attempt only when a node has announced that
\* attempt's generation ready (promoteDeployment), through bumps, rollbacks, lost and
\* stale announcements and restarts, as long as no attempt is deployed in place and
\* no handler gets in between deployProject's read of the row and its write.
THEOREM TrafficGoesToAnnounced == Spec => OnlyAnnouncedIsServed
<1> DEFINE Step == Never({"inplace", "race"})' /\ Served(desired)' \notin {Served(desired), NoAttempt} =>
                       \E m \in readyMsgs : m.gen = genOf[Served(desired)']
<1>1. IInv /\ ServedInv /\ ServedInv' /\ [Next]_vars => [Step]_vars
  <2> SUFFICES ASSUME IInv, ServedInv, ServedInv', [Next]_vars, Never({"inplace", "race"})',
                      Served(desired)' \notin {Served(desired), NoAttempt}
               PROVE  \E m \in readyMsgs : m.gen = genOf[Served(desired)']
    OBVIOUS
  <2>1. AllRolling' /\ Never({"inplace"})' /\ Never({"race"})'
    BY DEF ServedInv, Never
  <2>2. Never({"inplace"}) /\ Never({"race"})
    BY <2>1, NeverBefore DEF Kinds, IInv
  <2> QED
    BY <2>1, <2>2, OnlyPromotionsServe DEF ServedInv
<1>2. IInv => TypeOK
  BY DEF IInv
<1> QED
  BY <1>1, <1>2, InitIInv, IInvPreserved, ServedInvInitially, ServedInvPreserved, PTL
     DEF Spec, OnlyAnnouncedIsServed

-----------------------------------------------------------------------------
(* No containers are forgotten.                                            *)

\* What a host keeps, or the tick in progress there accounts for.
Tracked(n) ==
    \A k \in Keys : stacks[n][k] # NoAttempt =>
        \/ k \in readMarker(marker[n]).live
        \/ job[n].pc \in {"build", "live", "undo"} /\ Key(Dep(n)) = k
        \/ <<n, k>> \in left

\* What a docker compose down has left behind on a host is still noted after a step.
LeftStays(n) == \A k \in Keys : <<n, k>> \in left => <<n, k>> \in left'

\* What the marker lists as live after each operation on it.
LEMMA LiveAfter ==
    ASSUME NEW f \in Marker(Gens) \cup {NoFile}, NEW g \in Gens
    PROVE  /\ readMarker(markGenerationLive(f, g)).live = readMarker(f).live \cup {g}
           /\ readMarker(markGenerationReady(f, g)).live = readMarker(f).live
           /\ readMarker(removeLiveGeneration(f, g)).live = readMarker(f).live \ {g}
<1>1. readMarker(f) \in Marker(Gens)
  BY DEF readMarker, Marker, EmptyMarker
<1>2. /\ markGenerationLive(f, g).live = readMarker(f).live \cup {g}
      /\ markGenerationReady(f, g).live = readMarker(f).live
      /\ removeLiveGeneration(f, g).live = readMarker(f).live \ {g}
  BY <1>1 DEF markGenerationLive, markGenerationReady, removeLiveGeneration, Marker
<1>3. /\ markGenerationLive(f, g) \in Marker(Gens) /\ markGenerationReady(f, g) \in Marker(Gens)
      /\ removeLiveGeneration(f, g) \in Marker(Gens)
  <2>1. Gens \in SUBSET (Nat \ {0})
    OBVIOUS
  <2> QED
    BY <2>1, MarkerOperations
<1>4. \A h \in Marker(Gens) : readMarker(h) = h
  BY DEF readMarker, Marker, NoFile
<1> QED
  BY <1>2, <1>3, <1>4

\* Replacing what runs under one key of a host changes nothing else.
LEMMA StackWrite ==
    ASSUME TypeOK, NEW n \in Nodes, NEW k \in Keys, NEW s,
           stacks' = [stacks EXCEPT ![n][k] = s]
    PROVE  /\ stacks'[n][k] = s
           /\ \A j \in Keys \ {k} : stacks'[n][j] = stacks[n][j]
           /\ \A m \in Nodes \ {n} : stacks'[m] = stacks[m]
BY DEF TypeOK, Stacks

\* What a host has is still accounted for when neither its containers, nor its marker,
\* nor the stage of its tick has changed.
LEMMA UntouchedIsTracked ==
    ASSUME NEW n \in Nodes, Tracked(n), stacks'[n] = stacks[n], marker'[n] = marker[n], LeftStays(n),
           job'[n] = job[n]
    PROVE  Tracked(n)'
BY DEF Tracked, Dep, LeftStays

\* So is it when a tick begins, or ends having listed what it brought up.
LEMMA TurnIsTracked ==
    ASSUME TypeOK, NEW n \in Nodes, Tracked(n), stacks'[n] = stacks[n], marker'[n] = marker[n], LeftStays(n),
           job[n].pc \notin {"build", "live", "undo"}
    PROVE  Tracked(n)'
BY DEF Tracked, LeftStays

\* A step of the tick between two stages that account for the same key.
LEMMA StageIsTracked ==
    ASSUME TypeOK, NEW n \in Nodes, Tracked(n), stacks'[n] = stacks[n], marker'[n] = marker[n], LeftStays(n),
           job'[n].pc \in {"build", "live", "undo"}, Dep(n)' = Dep(n)
    PROVE  Tracked(n)'
BY DEF Tracked, Key, LeftStays

\* The stage a tick is in after a step of it.
LEMMA StageOf ==
    ASSUME TypeOK, NEW n \in Nodes, job[n].pc # "idle"
    PROVE  /\ \A pc : Goto(n, pc) => job'[n].pc = pc /\ Dep(n)' = Dep(n)
           /\ Abandon(n) => job'[n].pc = "undo" /\ Dep(n)' = Dep(n)
<1>1. job[n] \in Job
  BY JobType DEF TypeOK
<1> QED
  BY <1>1 DEF Goto, Abandon, Dep, Job, TypeOK

\* No step of a host's own tick leaves containers unaccounted for.
LEMMA TickTracks ==
    ASSUME TypeOK, AllRolling, NEW n \in Nodes, Tracked(n), NodeStep(n)
    PROVE  Tracked(n)'
<1>0. left' = left => LeftStays(n)
  BY DEF LeftStays
<1>1. CASE StartApply(n)
  BY <1>0, <1>1, TurnIsTracked DEF StartApply, NoJob
<1>2. CASE Build(n)
  <2> DEFINE k == Key(Dep(n))
  <2>1. job[n].pc = "build" /\ job'[n].pc = "live" /\ Dep(n)' = Dep(n) /\ marker' = marker
    BY <1>2, StageOf DEF Build, At
  <2>2. k \in Keys
    BY <2>1, JobType DEF TypeOK
  <2>3. PICK s : stacks' = [stacks EXCEPT ![n][k] = s]
    BY <1>2 DEF Build
  <2>4. \A j \in Keys \ {k} : stacks'[n][j] = stacks[n][j]
    BY <2>2, <2>3, StackWrite
  <2>5. left' = left \ {<<n, k>>}
    BY <1>2 DEF Build
  <2>6. Key(Dep(n))' = k
    BY <2>1 DEF Key
  <2> QED
    BY <2>1, <2>4, <2>5, <2>6 DEF Tracked
<1>3. CASE BuildFails(n)
  BY <1>0, <1>3, StageOf, StageIsTracked DEF BuildFails, At
<1>4. CASE MarkLive(n)
  <2>1. job[n].pc = "live" /\ Dep(n).gen \in Gens /\ Key(Dep(n)) = Dep(n).gen
    BY <1>4, JobType DEF MarkLive, At, TypeOK, Key
  <2>2. readMarker(marker'[n]).live = readMarker(marker[n]).live \cup {Dep(n).gen}
    <3>1. /\ marker[n] \in Marker(Gens) \cup {NoFile}
          /\ marker'[n] = markGenerationLive(marker[n], Dep(n).gen)
      BY <1>4 DEF MarkLive, TypeOK
    <3> QED
      BY <2>1, <3>1, LiveAfter
  <2> QED
    BY <1>4, <2>1, <2>2 DEF MarkLive, Tracked
<1>5. CASE InPlaceDone(n)
  BY <1>5 DEF InPlaceDone, At, AllRolling, NoJob
<1>6. CASE GatePasses(n)
  <2>1. job[n].pc = "gate" /\ Dep(n).gen \in Gens
    BY <1>6, JobType DEF GatePasses, At, TypeOK
  <2>2. readMarker(marker'[n]).live = readMarker(marker[n]).live
    BY <1>6, <2>1, LiveAfter DEF GatePasses, TypeOK
  <2> QED
    BY <1>6, <2>1, <2>2 DEF GatePasses, Tracked
<1>7. CASE GateFails(n)
  BY <1>0, <1>7, StageOf, StageIsTracked DEF GateFails, At
<1>8. CASE ReportDeployed(n) \/ Announce(n) \/ ReportFailure(n)
  BY <1>0, <1>8, TurnIsTracked DEF ReportDeployed, Announce, ReportFailure, At
<1>9. CASE Undo(n)
  <2> DEFINE g == Dep(n).gen
  <2>1. job[n].pc = "undo" /\ g \in Gens /\ Key(Dep(n)) = g /\ Dep(n).zd
    BY <1>9, JobType DEF Undo, At, TypeOK, Key, AllRolling, NoJob
  <2>2. readMarker(marker'[n]).live = readMarker(marker[n]).live \ {g}
    <3>1. /\ marker[n] \in Marker(Gens) \cup {NoFile}
          /\ marker'[n] = removeLiveGeneration(marker[n], g)
      BY <1>9, <2>1 DEF Undo, TypeOK
    <3> QED
      BY <2>1, <3>1, LiveAfter
  <2>3. {g} \in SUBSET Keys /\ Down(n, {g}, {})
    BY <1>9, <2>1 DEF Keys, Undo
  <2>4. /\ \A j \in Keys \ {g} : stacks'[n][j] = stacks[n][j] /\ (<<n, j>> \in left => <<n, j>> \in left')
        /\ stacks'[n][g] # NoAttempt => <<n, g>> \in left'
    BY <2>3, DownEffect DEF TypeOK
  <2> QED
    BY <2>1, <2>2, <2>4 DEF Tracked
<1>10. CASE ScheduleDrain(n)
  BY <1>0, <1>10, UntouchedIsTracked DEF ScheduleDrain
<1>11. CASE Sweep(n)
  <2>1. \A k \in Keys : stacks'[n][k] # NoAttempt => <<n, k>> \in left'
    BY <1>11, DownEffect DEF Sweep, SweptKeys, TypeOK
  <2> QED
    BY <2>1 DEF Tracked
<1> QED
  BY <1>1, <1>2, <1>3, <1>4, <1>5, <1>6, <1>7, <1>8, <1>9, <1>10, <1>11 DEF NodeStep

\* A docker compose down on a host touches nothing of another.
LEMMA DownIsLocal ==
    ASSUME TypeOK, NEW n \in Nodes, NEW keys \in SUBSET Keys, NEW kinds, Down(n, keys, kinds),
           NEW m \in Nodes, m # n
    PROVE  stacks'[m] = stacks[m] /\ LeftStays(m)
<1>1. stacks \in [Nodes -> Stacks]
  BY DEF TypeOK
<1>2. /\ \A l \in Nodes \ {n} : stacks'[l] = stacks[l]
      /\ \A l \in Nodes, k \in Keys :
            <<l, k>> \in left /\ (l # n \/ k \notin keys) => <<l, k>> \in left'
  BY <1>1, DownEffect
<1> QED
  BY <1>2 DEF LeftStays

\* A host's tick touches nothing of another host.
LEMMA TickIsLocal ==
    ASSUME TypeOK, NEW n \in Nodes, NodeStep(n), NEW m \in Nodes, m # n
    PROVE  stacks'[m] = stacks[m] /\ marker'[m] = marker[m] /\ job'[m] = job[m] /\ LeftStays(m)
<1> USE DEF TypeOK
<1>1. CASE StartApply(n) \/ BuildFails(n) \/ MarkLive(n)
  BY <1>1 DEF StartApply, BuildFails, MarkLive, Goto, Abandon, LeftStays
<1>2. CASE InPlaceDone(n) \/ Announce(n) \/ ReportFailure(n)
  BY <1>2 DEF InPlaceDone, Announce, ReportFailure, Finish, LeftStays
<1>3. CASE GatePasses(n) \/ GateFails(n) \/ ReportDeployed(n)
  BY <1>3 DEF GatePasses, GateFails, ReportDeployed, Goto, Abandon, LeftStays
<1>4. CASE ScheduleDrain(n)
  BY <1>4 DEF ScheduleDrain, LeftStays
<1>5. CASE Build(n)
  <2>1. \E k, s : stacks' = [stacks EXCEPT ![n][k] = s] /\ left' = left \ {<<n, k>>}
    BY <1>5 DEF Build
  <2>2. job'[m] = job[m] /\ marker'[m] = marker[m]
    BY <1>5 DEF Build, Goto
  <2> QED
    BY <2>1, <2>2 DEF LeftStays
<1>6. CASE Undo(n)
  <2>1. {Key(Dep(n))} \in SUBSET Keys /\ Down(n, {Key(Dep(n))}, {})
    BY <1>6, JobType DEF Undo, At
  <2>2. job'[m] = job[m] /\ marker'[m] = marker[m]
    BY <1>6 DEF Undo, Goto
  <2> QED
    BY <2>1, <2>2, DownIsLocal
<1>7. CASE Sweep(n)
  BY <1>7, DownIsLocal DEF Sweep, SweptKeys
<1> QED
  BY <1>1, <1>2, <1>3, <1>4, <1>5, <1>6, <1>7 DEF NodeStep

\* Only drains, a teardown of the project and a restart touch a host otherwise.
LEMMA HostSteps ==
    ASSUME TypeOK, [Next]_vars
    PROVE  \/ \E n \in Nodes : NodeStep(n) \/ Drain(n) \/ Purge(n) \/ NodeRestart(n)
           \/ TeardownNode \/ LeaderRestart
           \/ UNCHANGED <<stacks, left, marker, job>>
<1>1. CASE Deploys
  BY <1>1 DEF Deploys, StartDeploy, Plan, PlanFails, Propose, QueueTimeout, nodeVars
<1>2. CASE Cutovers
  BY <1>2 DEF Cutovers, PromoteDeployment, IsCurrent, LoseReady, Render, nodeVars
<1>3. CASE Cancels
  BY <1>3 DEF Cancels, CancelRequest, CancelDesired, CancelNode, CancelRows, nodeVars
<1>4. CASE TeardownClear \/ TeardownRender \/ UNCHANGED vars
  BY <1>4 DEF TeardownClear, TeardownRender, vars, nodeVars
<1>5. ASSUME NEW n \in Nodes, Progress(n) \/ setProjectAssignment(n)
      PROVE  UNCHANGED <<stacks, left, marker, job>>
  BY <1>5 DEF Progress, setProjectAssignment, nodeVars
<1> QED
  BY <1>1, <1>2, <1>3, <1>4, <1>5 DEF Next, Teardowns

\* The invariant: containers are accounted for while deployments are of the
\* zero-downtime kind and no daemon has ended.
AllTracked == Never({"inplace", "crash", "restart"}) => \A n \in Nodes : Tracked(n)

\* No step of any actor leaves containers unaccounted for.
LEMMA AllTrackedPreserved == TypeOK /\ ServedInv /\ AllTracked /\ [Next]_vars => AllTracked'
<1> SUFFICES ASSUME TypeOK, ServedInv, AllTracked, [Next]_vars,
                    Never({"inplace", "crash", "restart"})'
             PROVE  \A n \in Nodes : Tracked(n)'
  BY DEF AllTracked
<1>1. {"inplace", "crash", "restart"} \in SUBSET Kinds
  BY DEF Kinds
<1>2. Never({"inplace", "crash", "restart"})
  BY <1>1, NeverBefore
<1>3. (\A n \in Nodes : Tracked(n)) /\ AllRolling
  BY <1>2 DEF AllTracked, ServedInv, Never
<1>4. ASSUME NEW n \in Nodes, NodeStep(n), NEW m \in Nodes PROVE Tracked(m)'
  BY <1>3, <1>4, TickTracks, TickIsLocal, UntouchedIsTracked
<1>5. ASSUME NEW n \in Nodes, NEW g \in timers[n], DrainFires(n, g), NEW m \in Nodes
      PROVE  Tracked(m)'
  <2>1. g \in Gens /\ {g} \in SUBSET Keys
    BY DEF TypeOK, Keys
  <2>2. /\ \E kinds : Down(n, {g}, kinds)
        /\ marker' = [marker EXCEPT ![n] = removeLiveGeneration(@, g)] /\ job' = job
    BY <1>5 DEF DrainFires
  <2>3. CASE m = n
    <3>1. marker[n] \in Marker(Gens) \cup {NoFile} /\ marker'[n] = removeLiveGeneration(marker[n], g)
      BY <2>2 DEF TypeOK
    <3>2. readMarker(marker'[n]).live = readMarker(marker[n]).live \ {g}
      BY <2>1, <3>1, LiveAfter
    <3>3. /\ \A j \in Keys \ {g} :
                stacks'[n][j] = stacks[n][j] /\ (<<n, j>> \in left => <<n, j>> \in left')
          /\ stacks'[n][g] # NoAttempt => <<n, g>> \in left'
      BY <2>1, <2>2, DownEffect DEF TypeOK
    <3> QED
      BY <1>3, <2>2, <2>3, <3>2, <3>3 DEF Tracked, Dep
  <2>4. CASE m # n
    <3>1. marker'[m] = marker[m] /\ job'[m] = job[m]
      BY <2>2, <2>4 DEF TypeOK
    <3> QED
      BY <1>3, <2>1, <2>2, <2>4, <3>1, DownIsLocal, UntouchedIsTracked
  <2> QED
    BY <2>3, <2>4
<1>6. ASSUME NEW n \in Nodes, NEW kinds, Down(n, Keys, kinds), UNCHANGED <<marker, job>>,
             NEW m \in Nodes
      PROVE  Tracked(m)'
  <2>1. CASE m = n
    <3>1. \A k \in Keys : stacks'[n][k] # NoAttempt => <<n, k>> \in left'
      BY <1>6, DownEffect DEF TypeOK
    <3> QED
      BY <2>1, <3>1 DEF Tracked
  <2>2. CASE m # n
    BY <1>3, <1>6, <2>2, DownIsLocal, UntouchedIsTracked
  <2> QED
    BY <2>1, <2>2
<1>7. ASSUME NEW n \in Nodes, Purge(n), NEW m \in Nodes PROVE Tracked(m)'
  BY <1>6, <1>7 DEF Purge
<1>8. ASSUME NEW n \in Nodes, NodeRestart(n) PROVE FALSE
  BY <1>1, <1>8, CountedOnce DEF NodeRestart, Spend
<1>9. CASE LeaderRestart
  BY <1>1, <1>9, CountedOnce DEF LeaderRestart, Spend
<1>10. ASSUME UNCHANGED <<stacks, left, marker, job>>, NEW m \in Nodes PROVE Tracked(m)'
  BY <1>3, <1>10, UntouchedIsTracked DEF LeftStays
<1>11. ASSUME TeardownNode, NEW m \in Nodes PROVE Tracked(m)'
  <2>1. UNCHANGED <<marker, job>> /\ assign \in Nodes
    BY <1>11 DEF TeardownNode, TypeOK
  <2> QED
    BY <1>6, <1>10, <1>11, <2>1 DEF TeardownNode
<1> QED
  BY <1>4, <1>5, <1>7, <1>8, <1>9, <1>10, <1>11, HostSteps DEF Drain

\* Nothing runs on any host before the first deployment.
LEMMA AllTrackedInitially == Init => AllTracked
BY DEF Init, AllTracked, Tracked, EmptyStacks

\* Containers run only under generations that the host's marker lists as live, that the
\* tick in progress is about to list or to undo, or that a docker compose down has left
\* behind, whatever is cancelled, torn down, reassigned, fails, is killed or is lost,
\* until an attempt is deployed in place or a daemon ends (between docker compose up
\* and markGenerationLive).
THEOREM NothingLeaks == Spec => []RunningIsTracked
<1>1. AllTracked => RunningIsTracked
  BY DEF AllTracked, Tracked, RunningIsTracked
<1>2. IInv => TypeOK
  BY DEF IInv
<1> QED
  BY <1>1, <1>2, InitIInv, IInvPreserved, ServedInvInitially, ServedInvPreserved,
     AllTrackedInitially, AllTrackedPreserved, PTL DEF Spec

-----------------------------------------------------------------------------
(* The cutover: what nginx points at is up.                                *)

\* The generation a host has announced ready, or is about to.
Ready(n) == readMarker(marker[n]).ready

\* Nobody cancels, tears down or moves the project.
Alone ==
    /\ canceler = NoCall /\ tearer = "idle" /\ purges = {}
    /\ \A n \in Nodes : ~cflag[n]
    /\ \A a \in Attempts : where[a] = assign

\* The attempt in the deploy slot is the newest one.
SlotIsNewest == slot # NoSlot => slot.log = attempts

\* Later attempts are proposed as later generations, up to the desired one.
InOrder ==
    /\ \A a, b \in Attempts : a < b /\ genOf[b] # NoGen => genOf[a] < genOf[b]
    /\ \A a \in Attempts : genOf[a] <= desired.gen

\* The desired row is that of an attempt proposed for this host.
DesiredIsProposed ==
    desired # NoDesired =>
        /\ genOf[desired.log] = desired.gen
        /\ desired.node = assign
        /\ desired.act = NoGen => desired.actConf = NoAttempt

\* A tick works on a generation that is not ready yet, until it makes it ready.
JobIsProposed(n) ==
    job[n] # NoJob =>
        /\ n = assign /\ desired # NoDesired
        /\ genOf[Dep(n).log] = Dep(n).gen
        /\ Dep(n).act <= desired.act
        /\ IF job[n].pc \in {"ready", "announce"} THEN Ready(n) = Dep(n).gen
           ELSE Ready(n) < Dep(n).gen

\* The generation that is ready is up.
ReadyIsUp ==
    /\ Ready(assign) <= desired.gen
    /\ Ready(assign) # NoGen => stacks[assign][Ready(assign)] # NoAttempt

\* An attempt runs under the generation it was proposed as.
StacksAreProposed ==
    \A k \in Keys : stacks[assign][k] # NoAttempt => k # NoGen /\ genOf[stacks[assign][k]] = k

\* Nothing newer than what is ready has been announced.
MsgsAreReady == \A m \in readyMsgs : m.gen <= Ready(assign)

\* The active generation has been ready, and is up.
ActiveIsRunning ==
    desired # NoDesired /\ desired.act # NoGen =>
        desired.act <= Ready(assign) /\ stacks[assign][desired.act] = desired.actConf

\* No drain has fired before the nginx pass that should precede it.
Prompt == Never({"early"})

\* The conf in force is of an attempt that is or was active, and is up unless a drain
\* came early.
ConfIsRunning ==
    conf # NoAttempt =>
        /\ desired # NoDesired
        /\ genOf[conf] # NoGen /\ genOf[conf] <= desired.act
        /\ Prompt => stacks[assign][genOf[conf]] = conf

\* Only what is older than the active generation is to be drained.
TimersAreOld == \A g \in timers[assign] : desired # NoDesired /\ g < desired.act

\* The host has no marker before the first generation is desired.
NoMarker == desired = NoDesired => marker[assign] = NoFile

LeaderPart == Alone /\ SlotIsNewest /\ InOrder /\ DesiredIsProposed
HostPart == /\ ReadyIsUp /\ StacksAreProposed /\ MsgsAreReady /\ ActiveIsRunning
            /\ ConfIsRunning /\ TimersAreOld /\ NoMarker
JobPart == \A n \in Nodes : JobIsProposed(n)

\* What holds while nothing but zero-downtime deployments is asked for.
Cutover == LeaderPart /\ HostPart /\ JobPart /\ AllRolling /\ ProposalIsFresh

\* Which generation is ready after each operation on the marker.
LEMMA ReadyAfter ==
    ASSUME NEW f \in Marker(Gens) \cup {NoFile}, NEW g \in Gens
    PROVE  /\ readMarker(f).ready \in Gens \cup {NoGen}
           /\ readMarker(markGenerationLive(f, g)).ready = readMarker(f).ready
           /\ readMarker(markGenerationReady(f, g)).ready = g
           /\ readMarker(removeLiveGeneration(f, g)).ready = readMarker(f).ready
<1>1. readMarker(f) \in Marker(Gens)
  BY DEF readMarker, Marker, EmptyMarker
<1>2. /\ markGenerationLive(f, g).ready = readMarker(f).ready
      /\ markGenerationReady(f, g).ready = g
      /\ removeLiveGeneration(f, g).ready = readMarker(f).ready
  BY <1>1 DEF markGenerationLive, markGenerationReady, removeLiveGeneration, Marker
<1>3. /\ markGenerationLive(f, g) \in Marker(Gens) /\ markGenerationReady(f, g) \in Marker(Gens)
      /\ removeLiveGeneration(f, g) \in Marker(Gens)
  <2>1. Gens \in SUBSET (Nat \ {0})
    OBVIOUS
  <2> QED
    BY <2>1, MarkerOperations
<1>4. \A h \in Marker(Gens) : readMarker(h) = h
  BY DEF readMarker, Marker, NoFile
<1>5. readMarker(f).ready \in Gens \cup {NoGen}
  BY <1>1 DEF Marker
<1> QED
  BY <1>2, <1>3, <1>4, <1>5

\* The numbers the invariant compares are numbers.
LEMMA NumbersOf ==
    ASSUME TypeOK
    PROVE  /\ desired.gen \in Nat
           /\ desired # NoDesired =>
                 /\ desired \in Desired /\ desired.gen \in Gens /\ desired.log \in Attempts
                 /\ desired.conf \in Attempts /\ desired.act \in Gens \cup {NoGen}
                 /\ desired.actConf \in Attempts \cup {NoAttempt}
           /\ \A n \in Nodes : Ready(n) \in Gens \cup {NoGen}
           /\ \A a \in Attempts : genOf[a] \in Gens \cup {NoGen}
           /\ \A m \in readyMsgs : m.gen \in Gens
           /\ attempts \in Nat
           /\ \A n \in Nodes : timers[n] \subseteq Gens
           /\ \A n \in Nodes : \A k \in Keys : stacks[n][k] \in Attempts \cup {NoAttempt}
<1>1. \A n \in Nodes : Ready(n) \in Gens \cup {NoGen}
  <2> SUFFICES ASSUME NEW n \in Nodes PROVE Ready(n) \in Gens \cup {NoGen}
    OBVIOUS
  <2>1. marker[n] \in Marker(Gens) \cup {NoFile} /\ 1 \in Gens
    BY DEF TypeOK
  <2> QED
    BY <2>1, ReadyAfter DEF Ready
<1>2. desired.gen \in Nat
  BY DEF TypeOK, Desired, NoDesired
<1>3. desired # NoDesired =>
        /\ desired \in Desired /\ desired.gen \in Gens /\ desired.log \in Attempts
        /\ desired.conf \in Attempts /\ desired.act \in Gens \cup {NoGen}
        /\ desired.actConf \in Attempts \cup {NoAttempt}
  BY DEF TypeOK, Desired
<1>4. \A n \in Nodes : \A k \in Keys : stacks[n][k] \in Attempts \cup {NoAttempt}
  BY DEF TypeOK, Stacks
<1>5. /\ \A a \in Attempts : genOf[a] \in Gens \cup {NoGen}
      /\ \A m \in readyMsgs : m.gen \in Gens
      /\ attempts \in Nat
      /\ \A n \in Nodes : timers[n] \subseteq Gens
  BY DEF TypeOK
<1> QED
  BY <1>1, <1>2, <1>3, <1>4, <1>5

\* What is left of the steps while nothing but deployments is asked for.
LEMMA AloneSteps ==
    ASSUME TypeOK, Alone, Untroubled', [Next]_vars
    PROVE  \/ Deploys \/ Cutovers \/ LeaderRestart \/ UNCHANGED vars
           \/ \E n \in Nodes : NodeStep(n) \/ Progress(n) \/ Drain(n) \/ NodeRestart(n)
<1>1. {"inplace", "race", "cancel", "teardown", "reassign"} \in SUBSET Kinds
  BY DEF Kinds
<1>2. ~CancelRequest /\ ~TeardownNode
  <2>1. CancelRequest => \E kinds : Uses(kinds) /\ "cancel" \in kinds
    BY DEF CancelRequest, Spend
  <2>2. TeardownNode => \E kinds : Uses(kinds) /\ "teardown" \in kinds
    <3>1. ASSUME TeardownNode, assign = Leader PROVE \E kinds : Uses(kinds) /\ "teardown" \in kinds
      <4>1. Down(assign, Keys, {"teardown"})
        BY <3>1 DEF TeardownNode
      <4>2. PICK all : Uses({"teardown"} \cup all)
        BY <4>1 DEF Down
      <4> QED
        BY <4>2
    <3>2. ASSUME TeardownNode, assign # Leader PROVE \E kinds : Uses(kinds) /\ "teardown" \in kinds
      BY <3>2 DEF TeardownNode, Spend
    <3> QED
      BY <3>1, <3>2
  <2> QED
    BY <1>1, <2>1, <2>2, CountedOnce DEF Untroubled
<1>3. ~CancelDesired /\ ~CancelNode /\ ~CancelRows
  BY DEF CancelDesired, CancelNode, CancelRows, Alone, NoCall
<1>4. ~TeardownClear /\ ~TeardownRender
  BY DEF TeardownClear, TeardownRender, Alone
<1>5. ASSUME NEW n \in Nodes PROVE ~setProjectAssignment(n) /\ ~Purge(n)
  BY <1>1, CountedOnce DEF setProjectAssignment, Purge, Alone, Spend, Untroubled
<1> QED
  BY <1>2, <1>3, <1>4, <1>5 DEF Next, Cancels, Teardowns

\* And nothing else is asked for by those.
LEMMA AloneStays ==
    ASSUME TypeOK, Alone, Untroubled', [Next]_vars PROVE Alone' /\ assign' = assign
<1> DEFINE Asked == <<canceler, tearer, purges, cflag, where, assign>>
<1>1. CASE UNCHANGED Asked
  BY <1>1 DEF Alone
<1>2. CASE Deploys
  <2>1. ASSUME NEW zd \in BOOLEAN, StartDeploy(zd) PROVE UNCHANGED Asked
    <3>1. where' = where
      BY <2>1 DEF StartDeploy, Alone, TypeOK
    <3> QED
      BY <2>1, <3>1 DEF StartDeploy, nodeVars
  <2>2. CASE Plan \/ PlanFails \/ Propose \/ QueueTimeout
    BY <1>1, <2>2 DEF Plan, PlanFails, Propose, QueueTimeout, nodeVars
  <2> QED
    BY <1>1, <1>2, <2>1, <2>2 DEF Deploys
<1>3. CASE Cutovers
  BY <1>1, <1>3 DEF Cutovers, PromoteDeployment, IsCurrent, LoseReady, Render, nodeVars, leaderVars
<1>4. CASE LeaderRestart
  BY <1>4 DEF LeaderRestart, Forget, Alone, TypeOK
<1>5. ASSUME NEW n \in Nodes, NodeStep(n) PROVE Alone' /\ assign' = assign
  <2>1. CASE InPlaceDone(n) \/ Announce(n) \/ ReportFailure(n)
    BY <2>1 DEF InPlaceDone, Announce, ReportFailure, Finish, Alone, TypeOK, leaderVars
  <2>2. CASE StartApply(n) \/ ReportDeployed(n)
    BY <1>1, <2>2 DEF StartApply, ReportDeployed
  <2>3. CASE \/ Build(n) \/ BuildFails(n) \/ MarkLive(n) \/ GatePasses(n) \/ GateFails(n)
             \/ Undo(n) \/ ScheduleDrain(n) \/ Sweep(n)
    BY <1>1, <2>3 DEF Build, BuildFails, MarkLive, GatePasses, GateFails, Undo, ScheduleDrain,
                      Sweep, leaderVars
  <2> QED
    BY <1>5, <2>1, <2>2, <2>3 DEF NodeStep
<1>6. ASSUME NEW n \in Nodes, Progress(n) \/ Drain(n) PROVE UNCHANGED Asked
  BY <1>6 DEF Progress, Drain, DrainFires, nodeVars, leaderVars
<1>7. ASSUME NEW n \in Nodes, NodeRestart(n) PROVE Alone' /\ assign' = assign
  BY <1>7 DEF NodeRestart, Forget, Alone, TypeOK, leaderVars
<1>8. CASE UNCHANGED vars
  BY <1>1, <1>8 DEF vars, leaderVars, nodeVars
<1> QED
  BY <1>1, <1>2, <1>3, <1>4, <1>5, <1>6, <1>7, <1>8, AloneSteps

\* Proposing the attempt in the slot: the next generation, for this host, with the
\* active generation as it is.
LEMMA Proposing ==
    ASSUME IInv, Cutover, Propose
    PROVE  /\ slot.log \in Attempts /\ slot.log = attempts /\ genOf[slot.log] = NoGen
           /\ desired' # NoDesired /\ desired'.gen = desired.gen + 1 /\ desired'.log = slot.log
           /\ desired'.node = assign /\ desired'.zd
           /\ desired'.act = Active(desired).act /\ desired'.actConf = Active(desired).actConf
           /\ genOf' = [genOf EXCEPT ![slot.log] = desired.gen + 1]
<1>1. slot \in Slot /\ slot.pc = "write" /\ slot # NoSlot
  BY DEF Propose, IInv, TypeOK, NoSlot
<1>2. slot.log \in Attempts /\ slot.zd
  BY <1>1 DEF Slot, Cutover, AllRolling
<1>3. slot.log = attempts /\ genOf[slot.log] = NoGen
  BY <1>1 DEF Cutover, LeaderPart, SlotIsNewest, IInv, OnlyProposedHaveGenerations
<1>4. where[slot.log] = assign
  BY <1>2 DEF Cutover, LeaderPart, Alone
<1>5. slot.proposal = Proposal(desired, slot.log, slot.zd) /\ slot.proposal # NoDesired
  BY <1>1 DEF Cutover, ProposalIsFresh, IInv, GenerationsBounded
<1> QED
  BY <1>2, <1>3, <1>4, <1>5 DEF Propose, Proposal, NextGen

\* Promoting what was announced: the desired generation is the one that is ready.
LEMMA Promoting ==
    ASSUME IInv, Cutover, NEW m \in readyMsgs, PromoteDeployment(m), desired' # desired
    PROVE  /\ desired # NoDesired /\ desired' # NoDesired /\ desired.gen = Ready(assign)
           /\ desired'.gen = desired.gen /\ desired'.log = desired.log
           /\ desired'.node = desired.node /\ desired'.zd = desired.zd
           /\ desired'.act = desired.gen
           /\ desired'.actConf = IF desired.act = desired.gen THEN desired.actConf ELSE desired.conf
           /\ genOf[desired.conf] = desired.gen
<1>1. m.gen \in Gens /\ desired.gen = m.gen
  BY NumbersOf DEF PromoteDeployment, IsCurrent, IInv
<1>2. desired # NoDesired /\ desired \in Desired
  BY <1>1 DEF NoDesired, IInv, TypeOK
<1>3. desired' = [desired EXCEPT !.act = m.gen,
                    !.actConf = IF desired.act = m.gen THEN @ ELSE desired.conf]
  BY <1>1 DEF PromoteDeployment, IsCurrent
<1>4. assign \in Nodes /\ Ready(assign) \in Nat /\ m.gen <= Ready(assign) /\ Ready(assign) <= desired.gen
  BY NumbersOf DEF Cutover, HostPart, MsgsAreReady, ReadyIsUp, IInv, TypeOK
<1>5. desired.gen = Ready(assign)
  BY <1>1, <1>4
<1>6. /\ desired'.gen = desired.gen /\ desired'.log = desired.log
      /\ desired'.node = desired.node /\ desired'.zd = desired.zd
      /\ desired'.act = desired.gen
      /\ desired'.actConf = IF desired.act = desired.gen THEN desired.actConf ELSE desired.conf
  BY <1>1, <1>2, <1>3 DEF Desired
<1>7. desired' # NoDesired
  BY <1>2, <1>3 DEF Desired, NoDesired
<1>8. genOf[desired.conf] = desired.gen
  BY <1>2 DEF IInv, DesiredConsistent
<1> QED
  BY <1>2, <1>5, <1>6, <1>7, <1>8

\* Attempts go on being proposed in order, one at a time, for one host.
LEMMA LeaderPartPreserved ==
    ASSUME IInv, Cutover, Untroubled', [Next]_vars PROVE LeaderPart'
<1>0. Alone' /\ assign' = assign /\ TypeOK
  BY AloneStays DEF IInv, Cutover, LeaderPart
<1> DEFINE Rest == SlotIsNewest /\ InOrder /\ DesiredIsProposed
<1>1. ASSUME NEW zd \in BOOLEAN, StartDeploy(zd) PROVE Rest'
  BY <1>0, <1>1 DEF StartDeploy, Cutover, LeaderPart, SlotIsNewest, InOrder, DesiredIsProposed
<1>2. ASSUME Plan PROVE Rest'
  <2>1. slot \in Slot /\ slot # NoSlot
    BY <1>0, <1>2 DEF Plan, TypeOK, NoSlot
  <2>2. slot' = NoSlot \/ slot'.log = slot.log
    BY <1>2, <2>1 DEF Plan, Release, Slot
  <2> QED
    BY <1>0, <1>2, <2>1, <2>2
       DEF Plan, Cutover, LeaderPart, SlotIsNewest, InOrder, DesiredIsProposed
<1>3. ASSUME Propose PROVE Rest'
  <2>1. slot' # NoSlot => slot'.log = slot.log
    BY <1>0, <1>3 DEF Propose, TypeOK, NoSlot, Slot
  <2>2. SlotIsNewest'
    BY <1>3, <2>1, Proposing DEF Propose, SlotIsNewest
  <2>3. InOrder'
    <3>1. genOf'[slot.log] = desired.gen + 1 /\ \A a \in Attempts \ {slot.log} : genOf'[a] = genOf[a]
      BY <1>0, <1>3, Proposing DEF TypeOK
    <3>2. /\ \A a \in Attempts : genOf[a] <= desired.gen
          /\ \A a, b \in Attempts : a < b /\ genOf[b] # NoGen => genOf[a] < genOf[b]
          /\ \A a \in Attempts : a > slot.log => genOf[a] = NoGen
          /\ \A a \in Attempts : genOf[a] \in Nat
          /\ desired.gen \in Nat /\ desired'.gen = desired.gen + 1 /\ slot.log \in Attempts
      BY <1>0, <1>3, Proposing, NumbersOf
         DEF Cutover, LeaderPart, InOrder, IInv, OnlyProposedHaveGenerations
    <3>3. ASSUME NEW a \in Attempts, NEW b \in Attempts, a < b, genOf'[b] # NoGen
          PROVE  genOf'[a] < genOf'[b]
      <4>1. a # slot.log
        BY <3>1, <3>2, <3>3
      <4>2. genOf'[a] = genOf[a] /\ genOf[a] <= desired.gen /\ genOf[a] \in Nat
        BY <3>1, <3>2, <4>1
      <4>3. CASE b = slot.log
        BY <3>1, <3>2, <4>2, <4>3
      <4>4. CASE b # slot.log
        BY <3>1, <3>2, <3>3, <4>2, <4>4
      <4> QED
        BY <4>3, <4>4
    <3>4. ASSUME NEW a \in Attempts PROVE genOf'[a] <= desired'.gen
      BY <3>1, <3>2
    <3> QED
      BY <3>3, <3>4 DEF InOrder
  <2>4. DesiredIsProposed'
    <3>1. genOf'[slot.log] = desired.gen + 1
      BY <1>0, <1>3, Proposing DEF TypeOK
    <3>2. Active(desired).act = NoGen => Active(desired).actConf = NoAttempt
      BY DEF Active, Cutover, LeaderPart, DesiredIsProposed
    <3> QED
      BY <1>0, <1>3, <3>1, <3>2, Proposing DEF DesiredIsProposed
  <2> QED
    BY <2>2, <2>3, <2>4
<1>4. ~CancelDesired /\ ~TeardownClear
  BY DEF CancelDesired, TeardownClear, Cutover, LeaderPart, Alone, NoCall
<1>5. ASSUME NEW m \in readyMsgs, PromoteDeployment(m) PROVE Rest'
  <2>0. UNCHANGED <<slot, attempts, genOf>>
    BY <1>5 DEF PromoteDeployment, IsCurrent
  <2>1. CASE desired' = desired
    BY <1>0, <2>0, <2>1 DEF Cutover, LeaderPart, SlotIsNewest, InOrder, DesiredIsProposed
  <2>2. CASE desired' # desired
    <3>1. desired.gen \in Gens
      BY <1>0, <1>5, <2>2, Promoting, NumbersOf
    <3> QED
      BY <1>0, <1>5, <2>0, <2>2, <3>1, Promoting
         DEF Cutover, LeaderPart, SlotIsNewest, InOrder, DesiredIsProposed
  <2> QED
    BY <2>1, <2>2
<1>6. ASSUME SlotSettles, UNCHANGED <<desired, genOf, attempts, where>> PROVE Rest'
  BY <1>0, <1>6, SettledSlot DEF Cutover, LeaderPart, SlotIsNewest, InOrder, DesiredIsProposed
<1>7. Rest'
  BY <1>1, <1>2, <1>3, <1>4, <1>5, <1>6, LeaderSteps
<1> QED
  BY <1>0, <1>7 DEF LeaderPart

\* Steps after which the same containers run and the same generation is ready.
LEMMA HostKeeps ==
    ASSUME HostPart, Prompt' => Prompt, UNCHANGED <<desired, genOf, assign, conf>>,
           Ready(assign)' = Ready(assign), stacks'[assign] = stacks[assign],
           TimersAreOld', MsgsAreReady', NoMarker'
    PROVE  HostPart'
<1>1. ReadyIsUp' /\ StacksAreProposed' /\ ActiveIsRunning' /\ ConfIsRunning'
  BY DEF HostPart, ReadyIsUp, StacksAreProposed, ActiveIsRunning, ConfIsRunning
<1> QED
  BY <1>1 DEF HostPart

\* Steps that change what runs under a key that is neither ready, nor active, nor
\* (unless a drain comes early) the one nginx points at.
LEMMA OtherKeyKeeps ==
    ASSUME HostPart, Prompt' => Prompt, UNCHANGED <<desired, genOf, assign, conf>>,
           Ready(assign)' = Ready(assign), TimersAreOld', MsgsAreReady', NoMarker',
           NEW k \in Keys, \A j \in Keys \ {k} : stacks'[assign][j] = stacks[assign][j],
           stacks'[assign][k] # NoAttempt => k # NoGen /\ genOf[stacks'[assign][k]] = k,
           k # Ready(assign), desired # NoDesired => k # desired.act,
           Prompt' /\ conf # NoAttempt => k # genOf[conf],
           TypeOK
    PROVE  HostPart'
<1>1. Ready(assign) \in Keys
  BY NumbersOf DEF Keys, TypeOK
<1>2. desired # NoDesired => desired.act \in Keys
  BY NumbersOf DEF Keys
<1>3. conf # NoAttempt => genOf[conf] \in Keys
  BY NumbersOf DEF Keys, TypeOK
<1>4. ReadyIsUp'
  BY <1>1 DEF HostPart, ReadyIsUp
<1>5. StacksAreProposed'
  BY DEF HostPart, StacksAreProposed
<1>6. ActiveIsRunning'
  BY <1>2 DEF HostPart, ActiveIsRunning
<1>7. ConfIsRunning'
  BY <1>3 DEF HostPart, ConfIsRunning
<1> QED
  BY <1>4, <1>5, <1>6, <1>7 DEF HostPart

\* Steps that leave the ticks as they are, or end some of them.
LEMMA JobKeeps ==
    ASSUME TypeOK, JobPart, assign' = assign,
           desired # NoDesired => desired' # NoDesired,
           desired # NoDesired => desired'.act \in Nat /\ desired.act <= desired'.act,
           \A n \in Nodes : Ready(n)' = Ready(n),
           \A a \in Attempts : genOf[a] # NoGen => genOf'[a] = genOf[a],
           \A n \in Nodes : job'[n] \in {job[n], NoJob}
    PROVE  JobPart'
<1> SUFFICES ASSUME NEW n \in Nodes, job'[n] # NoJob PROVE JobIsProposed(n)'
  BY DEF JobPart, JobIsProposed
<1>1. job'[n] = job[n] /\ job[n] # NoJob /\ JobIsProposed(n)
  BY DEF JobPart
<1>2. Dep(n)' = Dep(n)
  BY <1>1 DEF Dep
<1>3. Dep(n).log \in Attempts /\ Dep(n).gen \in Gens /\ Dep(n).act \in Nat
  <2>1. job[n] \in Job
    BY <1>1 DEF TypeOK
  <2> QED
    BY <2>1 DEF Job, Desired, Dep
<1>4. desired.act \in Nat
  BY <1>1, NumbersOf DEF JobIsProposed
<1>5. genOf'[Dep(n).log] = genOf[Dep(n).log]
  BY <1>1, <1>3 DEF JobIsProposed
<1> QED
  BY <1>1, <1>2, <1>3, <1>4, <1>5 DEF JobIsProposed

\* What a tick at work on a deployment knows.
LEMMA JobHere ==
    ASSUME IInv, Cutover, NEW n \in Nodes, job[n].pc # "idle"
    PROVE  /\ n = assign /\ desired # NoDesired /\ ~cflag[n]
           /\ Dep(n).gen \in Gens /\ Dep(n).gen \in Keys /\ Key(Dep(n)) = Dep(n).gen
           /\ Dep(n).zd /\ Dep(n).log \in Attempts /\ genOf[Dep(n).log] = Dep(n).gen
           /\ Dep(n).act \in Nat /\ Dep(n).act <= desired.act /\ desired.act \in Nat
           /\ job[n].pc \in {"ready", "announce"} => Ready(n) = Dep(n).gen
           /\ job[n].pc \notin {"ready", "announce"} => Ready(n) < Dep(n).gen
<1>1. job[n] # NoJob
  BY DEF NoJob
<1>2. Dep(n) \in Desired
  BY JobType DEF IInv, TypeOK
<1>3. Dep(n).gen \in Gens /\ Dep(n).log \in Attempts /\ Dep(n).act \in Nat
  BY <1>2 DEF Desired
<1>4. Dep(n).zd
  BY <1>1 DEF Cutover, AllRolling
<1>5. Key(Dep(n)) = Dep(n).gen /\ Dep(n).gen \in Keys
  BY <1>3, <1>4 DEF Key, Keys
<1>6. desired # NoDesired /\ JobIsProposed(n)
  BY <1>1 DEF Cutover, JobPart, JobIsProposed
<1>7. desired.act \in Nat
  BY <1>6, NumbersOf DEF IInv
<1> QED
  BY <1>1, <1>3, <1>4, <1>5, <1>6, <1>7 DEF JobIsProposed, Cutover, LeaderPart, Alone

\* A tick reads the desired row and the conf, and writes neither.
LEMMA TickReadsRow ==
    ASSUME NEW n \in Nodes, NodeStep(n) PROVE UNCHANGED <<desired, genOf, conf, assign>>
BY DEF NodeStep, StartApply, Build, BuildFails, MarkLive, InPlaceDone, GatePasses, GateFails,
       ReportDeployed, Announce, Undo, ReportFailure, ScheduleDrain, Sweep, leaderVars

\* The key a tick builds or takes down is that of a generation newer than what is
\* ready, active or served.
LEMMA KeyIsNewer ==
    ASSUME IInv, Cutover, NEW n \in Nodes, job[n].pc \notin {"idle", "ready", "announce"}
    PROVE  /\ Dep(n).gen # Ready(assign)
           /\ desired # NoDesired => Dep(n).gen # desired.act
           /\ conf # NoAttempt => Dep(n).gen # genOf[conf]
<1>1. n = assign /\ Ready(assign) < Dep(n).gen /\ Dep(n).gen \in Nat /\ Ready(assign) \in Nat
      /\ desired # NoDesired /\ desired.act \in Nat
  BY JobHere, NumbersOf DEF IInv
<1>2. desired.act <= Ready(assign)
  BY <1>1 DEF Cutover, HostPart, ActiveIsRunning
<1>3. conf # NoAttempt => genOf[conf] \in Nat /\ genOf[conf] <= desired.act
  BY NumbersOf DEF Cutover, HostPart, ConfIsRunning, IInv, TypeOK
<1> QED
  BY <1>1, <1>2, <1>3

\* A tick does not disturb what nginx points at.
LEMMA TickKeepsHost ==
    ASSUME IInv, Cutover, Prompt' => Prompt, NEW n \in Nodes, NodeStep(n) PROVE HostPart'
<1>0. UNCHANGED <<desired, genOf, conf, assign>> /\ TypeOK /\ HostPart
  BY TickReadsRow DEF IInv, Cutover
<1> DEFINE Others == /\ UNCHANGED readyMsgs
                     /\ UNCHANGED timers
                     /\ \A m \in Nodes : Ready(m)' = Ready(m)
<1>1. ASSUME Others PROVE TimersAreOld' /\ MsgsAreReady' /\ Ready(assign)' = Ready(assign)
  BY <1>0, <1>1 DEF HostPart, TimersAreOld, MsgsAreReady, TypeOK
<1>2. ASSUME UNCHANGED marker PROVE NoMarker' /\ \A m \in Nodes : Ready(m)' = Ready(m)
  BY <1>0, <1>2 DEF HostPart, NoMarker, Ready
<1>3. CASE StartApply(n) \/ BuildFails(n) \/ GateFails(n) \/ ReportDeployed(n)
  <2>1. UNCHANGED <<stacks, marker, timers, readyMsgs>>
    BY <1>3 DEF StartApply, BuildFails, GateFails, ReportDeployed
  <2> QED
    BY <1>0, <1>1, <1>2, <2>1, HostKeeps
<1>4. CASE Build(n)
  <2>1. /\ n = assign /\ Key(Dep(n)) = Dep(n).gen /\ Dep(n).gen \in Keys
        /\ Dep(n).gen \in Gens /\ genOf[Dep(n).log] = Dep(n).gen
        /\ job[n].pc = "build"
    BY <1>4, JobHere DEF Build, At
  <2>2. PICK s \in {Dep(n).log, stacks[n][Dep(n).gen], NoAttempt} :
           stacks' = [stacks EXCEPT ![n][Dep(n).gen] = s]
    BY <1>4, <2>1 DEF Build
  <2>3. /\ stacks'[assign][Dep(n).gen] = s
        /\ \A j \in Keys \ {Dep(n).gen} : stacks'[assign][j] = stacks[assign][j]
    <3>1. /\ stacks'[n][Dep(n).gen] = s
          /\ \A j \in Keys \ {Dep(n).gen} : stacks'[n][j] = stacks[n][j]
      <4>1. PICK k \in Keys : k = Dep(n).gen
        BY <2>1
      <4>2. stacks' = [stacks EXCEPT ![n][k] = s]
        BY <2>2, <4>1
      <4>3. stacks'[n][k] = s /\ \A j \in Keys \ {k} : stacks'[n][j] = stacks[n][j]
        <5>1. stacks \in [Nodes -> Stacks]
          BY <1>0 DEF TypeOK
        <5>2. n \in DOMAIN stacks /\ k \in DOMAIN stacks[n]
          BY <5>1 DEF Stacks
        <5> QED
          BY <4>2, <5>2
      <4> QED
        BY <4>1, <4>3
    <3> QED
      BY <2>1, <3>1
  <2>4. s # NoAttempt => Dep(n).gen # NoGen /\ genOf[s] = Dep(n).gen
    BY <1>0, <2>1, <2>2 DEF HostPart, StacksAreProposed
  <2>5. UNCHANGED <<marker, timers, readyMsgs>>
    BY <1>4 DEF Build
  <2> QED
    BY <1>0, <1>1, <1>2, <2>1, <2>3, <2>4, <2>5, KeyIsNewer, OtherKeyKeeps
<1>5. CASE MarkLive(n)
  <2>1. n = assign /\ Dep(n).gen \in Gens /\ desired # NoDesired
    BY <1>5, JobHere DEF MarkLive, At
  <2>2. marker' = [marker EXCEPT ![n] = markGenerationLive(@, Dep(n).gen)]
        /\ marker[n] \in Marker(Gens) \cup {NoFile}
    BY <1>0, <1>5 DEF MarkLive, TypeOK
  <2>3. \A m \in Nodes : Ready(m)' = Ready(m)
    BY <1>0, <2>1, <2>2, ReadyAfter DEF Ready, TypeOK
  <2>4. UNCHANGED <<stacks, timers, readyMsgs>> /\ NoMarker'
    BY <1>0, <1>5, <2>1 DEF MarkLive, NoMarker
  <2> QED
    BY <1>0, <1>1, <2>3, <2>4, HostKeeps
<1>6. CASE InPlaceDone(n)
  BY <1>6, JobHere DEF InPlaceDone, At
<1>7. CASE GatePasses(n)
  <2> DEFINE g == Dep(n).gen
  <2>1. /\ n = assign /\ g \in Gens /\ g \in Keys /\ desired # NoDesired /\ Ready(n) < g
        /\ genOf[Dep(n).log] = g /\ Dep(n).log \in Attempts
    BY <1>7, JobHere DEF GatePasses, At
  <2>2. marker' = [marker EXCEPT ![n] = markGenerationReady(@, g)]
        /\ marker[n] \in Marker(Gens) \cup {NoFile}
        /\ stacks[n][g] = Dep(n).log
    BY <1>0, <1>7 DEF GatePasses, TypeOK, Answers
  <2>3. Ready(assign)' = g
    BY <1>0, <2>1, <2>2, ReadyAfter DEF Ready, TypeOK
  <2>4. UNCHANGED <<stacks, timers, readyMsgs>>
    BY <1>7 DEF GatePasses
  <2>5. g <= desired.gen
    BY <2>1 DEF Cutover, LeaderPart, InOrder
  <2>6. Ready(n) \in Nat /\ g \in Nat /\ desired.act \in Nat /\ \A m \in readyMsgs : m.gen \in Nat
    BY <1>0, <2>1, NumbersOf
  <2> HIDE DEF g
  <2>7. ReadyIsUp' /\ StacksAreProposed'
    BY <1>0, <2>1, <2>2, <2>3, <2>4, <2>5 DEF HostPart, ReadyIsUp, StacksAreProposed
  <2>8. MsgsAreReady' /\ ActiveIsRunning'
    BY <1>0, <2>1, <2>3, <2>4, <2>6 DEF HostPart, MsgsAreReady, ActiveIsRunning
  <2>9. ConfIsRunning' /\ TimersAreOld' /\ NoMarker'
    BY <1>0, <2>1, <2>4 DEF HostPart, ConfIsRunning, TimersAreOld, NoMarker
  <2> QED
    BY <2>7, <2>8, <2>9 DEF HostPart
<1>8. CASE Announce(n) \/ ReportFailure(n)
  <2>1. /\ job[n].pc \in {"announce", "report"}
        /\ UNCHANGED <<stacks, marker>> /\ Finish(n, readMarker(marker[n]))
        /\ \/ UNCHANGED readyMsgs
           \/ /\ job[n].pc = "announce"
              /\ readyMsgs' = readyMsgs \cup {[gen |-> Dep(n).gen, node |-> n]}
    BY <1>8 DEF Announce, ReportFailure, At
  <2>2. /\ n = assign /\ desired # NoDesired /\ Dep(n).act <= desired.act
        /\ Dep(n).act \in Nat /\ desired.act \in Nat /\ Dep(n).gen \in Nat
        /\ job[n].pc = "announce" => Ready(n) = Dep(n).gen
    BY <2>1, JobHere
  <2>3. /\ timers'[assign] = timers[assign] \cup {g \in readMarker(marker[n]).live :
                                                     Dep(n).zd /\ g < Dep(n).act}
        /\ readMarker(marker[n]).live \subseteq Gens
    <3>1. timers' = [timers EXCEPT ![n] = @ \cup {g \in readMarker(marker[n]).live :
                                                     Dep(n).zd /\ g < Dep(n).act}]
      BY <2>1 DEF Finish
    <3>2. timers'[n] = timers[n] \cup {g \in readMarker(marker[n]).live :
                                           Dep(n).zd /\ g < Dep(n).act}
      BY <1>0, <3>1 DEF TypeOK
    <3>3. readMarker(marker[n]) \in Marker(Gens)
      <4>1. marker[n] \in Marker(Gens) \cup {NoFile}
        BY <1>0 DEF TypeOK
      <4> QED
        BY <4>1 DEF readMarker, Marker, EmptyMarker
    <3>4. readMarker(marker[n]).live \subseteq Gens
      BY <3>3 DEF Marker
    <3> QED
      BY <2>2, <3>2, <3>4
  <2>4. \A g \in timers'[assign] : g \in timers[assign] \/ (g \in Nat /\ g < Dep(n).act)
    BY <2>3
  <2>5. TimersAreOld'
    BY <1>0, <2>2, <2>4 DEF HostPart, TimersAreOld
  <2>6. \A m \in Nodes : Ready(m)' = Ready(m)
    BY <1>2, <2>1
  <2>7. MsgsAreReady'
    BY <1>0, <2>1, <2>2, <2>6 DEF HostPart, MsgsAreReady
  <2> QED
    BY <1>0, <1>2, <2>1, <2>2, <2>5, <2>6, <2>7, HostKeeps
<1>9. CASE Undo(n)
  <2>1. /\ n = assign /\ Key(Dep(n)) = Dep(n).gen /\ {Dep(n).gen} \in SUBSET Keys /\ Dep(n).zd
        /\ Dep(n).gen \in Gens /\ Dep(n).gen \in Keys /\ desired # NoDesired /\ job[n].pc = "undo"
    BY <1>9, JobHere DEF Undo, At
  <2>2. /\ Down(n, {Dep(n).gen}, {})
        /\ marker' = [marker EXCEPT ![n] = removeLiveGeneration(@, Dep(n).gen)]
        /\ marker[n] \in Marker(Gens) \cup {NoFile}
    BY <1>0, <1>9, <2>1 DEF Undo, TypeOK
  <2>3. /\ stacks'[assign][Dep(n).gen] \in {NoAttempt, stacks[assign][Dep(n).gen]}
        /\ \A j \in Keys \ {Dep(n).gen} : stacks'[assign][j] = stacks[assign][j]
    BY <1>0, <2>1, <2>2, DownEffect DEF TypeOK
  <2>4. stacks'[assign][Dep(n).gen] # NoAttempt =>
           Dep(n).gen # NoGen /\ genOf[stacks'[assign][Dep(n).gen]] = Dep(n).gen
    BY <1>0, <2>1, <2>3 DEF HostPart, StacksAreProposed
  <2>5. \A m \in Nodes : Ready(m)' = Ready(m)
    BY <1>0, <2>1, <2>2, ReadyAfter DEF Ready, TypeOK
  <2>6. UNCHANGED <<timers, readyMsgs>> /\ NoMarker'
    BY <1>0, <1>9, <2>1 DEF Undo, NoMarker
  <2> QED
    BY <1>0, <1>1, <2>1, <2>3, <2>4, <2>5, <2>6, KeyIsNewer, OtherKeyKeeps
<1>10. CASE ScheduleDrain(n)
  <2>1. UNCHANGED <<stacks, marker, readyMsgs>>
    BY <1>10 DEF ScheduleDrain
  <2>2. desired # NoDesired /\ \A g \in timers'[assign] : g \in timers[assign] \/ g < desired.act
    BY <1>0, <1>10 DEF ScheduleDrain, Assigned, Drains, TypeOK
  <2>3. TimersAreOld'
    BY <1>0, <2>2 DEF HostPart, TimersAreOld
  <2>4. MsgsAreReady'
    BY <1>0, <1>2, <2>1 DEF HostPart, MsgsAreReady, TypeOK
  <2> QED
    BY <1>0, <1>2, <2>1, <2>3, <2>4, HostKeeps DEF TypeOK
<1>11. CASE Sweep(n)
  <2>1. n # assign
    BY <1>11 DEF Sweep, Assigned, Cutover, LeaderPart, DesiredIsProposed, HostPart, NoMarker
  <2>2. stacks'[assign] = stacks[assign]
    BY <1>0, <1>11, <2>1, DownIsLocal DEF Sweep, SweptKeys, TypeOK
  <2>3. UNCHANGED <<timers, readyMsgs>> /\ marker'[assign] = marker[assign]
    BY <1>0, <1>11, <2>1 DEF Sweep, TypeOK
  <2>4. TimersAreOld' /\ MsgsAreReady' /\ NoMarker' /\ Ready(assign)' = Ready(assign)
    BY <1>0, <2>3 DEF HostPart, TimersAreOld, MsgsAreReady, NoMarker, Ready
  <2> QED
    BY <1>0, <2>2, <2>4, HostKeeps
<1> QED
  BY <1>3, <1>4, <1>5, <1>6, <1>7, <1>8, <1>9, <1>10, <1>11 DEF NodeStep

\* A tick goes on with the generation it started, until that is ready.
LEMMA TickKeepsJobs ==
    ASSUME IInv, Cutover, NEW n \in Nodes, NodeStep(n) PROVE JobPart'
<1>0. UNCHANGED <<desired, genOf, conf, assign>> /\ TypeOK /\ JobPart
  BY TickReadsRow DEF IInv, Cutover
<1>1. ASSUME NEW m \in Nodes, m # n PROVE JobIsProposed(m)'
  BY <1>0, <1>1, TickIsLocal DEF JobPart, JobIsProposed, Dep, Ready
<1> SUFFICES JobIsProposed(n)'
  BY <1>1 DEF JobPart
<1>2. ASSUME job[n].pc \notin {"idle", "ready", "announce"}, Ready(n)' = Ready(n),
             job'[n].pc \notin {"ready", "announce"}, Dep(n)' = Dep(n)
      PROVE  JobIsProposed(n)'
  BY <1>0, <1>2, JobHere DEF JobIsProposed
<1>3. ASSUME UNCHANGED marker PROVE Ready(n)' = Ready(n)
  BY <1>3 DEF Ready
<1>4. CASE job'[n] = NoJob
  BY <1>4 DEF JobIsProposed
<1>5. CASE job'[n] = job[n] /\ marker'[n] = marker[n]
  BY <1>0, <1>5 DEF JobPart, JobIsProposed, Dep, Ready
<1>6. CASE StartApply(n)
  <2>1. job' = [job EXCEPT ![n] = [pc |-> "build", dep |-> desired, canceled |-> FALSE]]
        /\ UNCHANGED marker /\ Assigned(n) /\ Drift(n)
    BY <1>6 DEF StartApply
  <2>2. job'[n].pc = "build" /\ Dep(n)' = desired
    BY <1>0, <2>1 DEF TypeOK, Dep
  <2>3. desired # NoDesired /\ n = assign /\ genOf[desired.log] = desired.gen /\ desired.zd
    BY <2>1 DEF Assigned, Cutover, LeaderPart, DesiredIsProposed, AllRolling
  <2>4. Ready(n) < desired.gen
    <3>1. Ready(n) # desired.gen
      BY <2>1, <2>3 DEF Drift, Ready
    <3>2. Ready(n) <= desired.gen /\ Ready(n) \in Nat /\ desired.gen \in Nat
      BY <1>0, <2>3, NumbersOf DEF Cutover, HostPart, ReadyIsUp
    <3> QED
      BY <3>1, <3>2
  <2>5. desired.act \in Nat
    BY <1>0, <2>3, NumbersOf
  <2> QED
    BY <1>0, <1>3, <2>1, <2>2, <2>3, <2>4, <2>5 DEF JobIsProposed
<1>7. CASE Build(n)
  <2>1. job[n].pc = "build" /\ job'[n].pc = "live" /\ Dep(n)' = Dep(n) /\ UNCHANGED marker
    BY <1>0, <1>7, StageOf DEF Build, At
  <2> QED
    BY <1>2, <1>3, <2>1
<1>8. CASE BuildFails(n) \/ GateFails(n)
  <2>1. job[n].pc \in {"build", "gate"} /\ UNCHANGED marker /\ Abandon(n)
    BY <1>8 DEF BuildFails, GateFails, At
  <2>2. job'[n].pc = "undo" /\ Dep(n)' = Dep(n)
    BY <1>0, <2>1, StageOf
  <2> QED
    BY <1>2, <1>3, <2>1, <2>2
<1>9. CASE MarkLive(n)
  <2>1. job[n].pc = "live" /\ job'[n].pc = "gate" /\ Dep(n)' = Dep(n) /\ Dep(n).gen \in Gens
    BY <1>0, <1>9, StageOf, JobHere DEF MarkLive, At
  <2>2. marker'[n] = markGenerationLive(marker[n], Dep(n).gen)
        /\ marker[n] \in Marker(Gens) \cup {NoFile}
    BY <1>0, <1>9 DEF MarkLive, TypeOK
  <2>3. Ready(n)' = Ready(n)
    <3>1. readMarker(markGenerationLive(marker[n], Dep(n).gen)).ready = readMarker(marker[n]).ready
      BY <2>1, <2>2, ReadyAfter
    <3> QED
      BY <2>2, <3>1 DEF Ready
  <2> QED
    BY <1>2, <2>1, <2>3
<1>10. CASE InPlaceDone(n)
  BY <1>10, JobHere DEF InPlaceDone, At
<1>11. CASE GatePasses(n)
  <2>1. job[n].pc = "gate" /\ job'[n].pc = "ready" /\ Dep(n)' = Dep(n) /\ Dep(n).gen \in Gens
    BY <1>0, <1>11, StageOf, JobHere DEF GatePasses, At
  <2>2. marker'[n] = markGenerationReady(marker[n], Dep(n).gen)
        /\ marker[n] \in Marker(Gens) \cup {NoFile}
    BY <1>0, <1>11 DEF GatePasses, TypeOK
  <2>3. Ready(n)' = Dep(n).gen
    <3>1. readMarker(markGenerationReady(marker[n], Dep(n).gen)).ready = Dep(n).gen
      BY <2>1, <2>2, ReadyAfter
    <3> QED
      BY <2>2, <3>1 DEF Ready
  <2> QED
    BY <1>0, <2>1, <2>3, JobHere DEF JobIsProposed
<1>12. CASE ReportDeployed(n)
  <2>1. job[n].pc = "ready" /\ job'[n].pc = "announce" /\ Dep(n)' = Dep(n) /\ UNCHANGED marker
    BY <1>0, <1>12, StageOf DEF ReportDeployed, At
  <2> QED
    BY <1>0, <1>3, <2>1, JobHere DEF JobIsProposed
<1>13. CASE Announce(n) \/ ReportFailure(n)
  <2>1. \E f : Finish(n, f)
    BY <1>13 DEF Announce, ReportFailure
  <2>2. job'[n] = NoJob
    BY <1>0, <2>1 DEF Finish, TypeOK
  <2> QED
    BY <1>4, <2>2
<1>14. CASE Undo(n)
  <2>1. job[n].pc = "undo" /\ job'[n].pc = "report" /\ Dep(n)' = Dep(n) /\ Dep(n).gen \in Gens
        /\ Dep(n).zd
    BY <1>0, <1>14, StageOf, JobHere DEF Undo, At
  <2>2. marker'[n] = removeLiveGeneration(marker[n], Dep(n).gen)
        /\ marker[n] \in Marker(Gens) \cup {NoFile}
    BY <1>0, <1>14, <2>1 DEF Undo, TypeOK
  <2>3. Ready(n)' = Ready(n)
    <3>1. readMarker(removeLiveGeneration(marker[n], Dep(n).gen)).ready = readMarker(marker[n]).ready
      BY <2>1, <2>2, ReadyAfter
    <3> QED
      BY <2>2, <3>1 DEF Ready
  <2> QED
    BY <1>2, <2>1, <2>3
<1>15. CASE ScheduleDrain(n)
  BY <1>5, <1>15 DEF ScheduleDrain
<1>16. CASE Sweep(n)
  BY <1>4, <1>16 DEF Sweep
<1> QED
  BY <1>6, <1>7, <1>8, <1>9, <1>10, <1>11, <1>12, <1>13, <1>14, <1>15, <1>16 DEF NodeStep

\* Proposing a generation changes neither what is served nor what runs.
LEMMA ProposeKeepsHost ==
    ASSUME IInv, Cutover, Prompt' => Prompt, Propose, assign' = assign PROVE HostPart' /\ JobPart'
<1>1. UNCHANGED <<conf, nodeVars, readyMsgs>> /\ TypeOK /\ HostPart /\ JobPart
  BY DEF Propose, IInv, Cutover
<1>2. UNCHANGED <<marker, stacks, job, timers>> /\ \A n \in Nodes : Ready(n)' = Ready(n)
  BY <1>1 DEF nodeVars, Ready
<1>3. /\ slot.log \in Attempts /\ genOf[slot.log] = NoGen
      /\ genOf' = [genOf EXCEPT ![slot.log] = desired.gen + 1]
      /\ desired' # NoDesired /\ desired'.gen = desired.gen + 1
      /\ desired'.act = Active(desired).act /\ desired'.actConf = Active(desired).actConf
  BY Proposing
<1>4. \A a \in Attempts : genOf[a] # NoGen => genOf'[a] = genOf[a]
  BY <1>1, <1>3 DEF TypeOK
<1>5. desired # NoDesired => desired'.act = desired.act /\ desired'.actConf = desired.actConf
                             /\ desired.act \in Nat
  BY <1>1, <1>3, NumbersOf DEF Active
<1>6. desired = NoDesired => desired'.act = NoGen
  BY <1>3 DEF Active
<1>7. ReadyIsUp' /\ StacksAreProposed'
  <2>1. desired.gen \in Nat /\ Ready(assign) \in Nat
    BY <1>1, NumbersOf DEF TypeOK
  <2>2. ReadyIsUp'
    BY <1>1, <1>2, <1>3, <2>1 DEF HostPart, ReadyIsUp, TypeOK
  <2>3. \A k \in Keys : stacks[assign][k] \in Attempts \cup {NoAttempt}
    BY <1>1 DEF TypeOK, Stacks
  <2> QED
    BY <1>1, <1>2, <1>4, <2>2, <2>3 DEF HostPart, StacksAreProposed
<1>8. MsgsAreReady' /\ ActiveIsRunning'
  BY <1>1, <1>2, <1>3, <1>5, <1>6 DEF HostPart, MsgsAreReady, ActiveIsRunning, TypeOK
<1>9. ConfIsRunning' /\ TimersAreOld' /\ NoMarker'
  BY <1>1, <1>2, <1>3, <1>4, <1>5 DEF HostPart, ConfIsRunning, TimersAreOld, NoMarker, TypeOK
<1>10. HostPart'
  BY <1>7, <1>8, <1>9 DEF HostPart
<1>11. JobPart'
  BY <1>1, <1>2, <1>3, <1>4, <1>5, JobKeeps
<1> QED
  BY <1>10, <1>11

\* Promoting the generation that is ready makes it the active one; what nginx points
\* at is older and still up.
LEMMA PromotionKeepsHost ==
    ASSUME IInv, Cutover, Prompt' => Prompt, NEW m \in readyMsgs, PromoteDeployment(m),
           assign' = assign
    PROVE  HostPart' /\ JobPart'
<1>1. /\ UNCHANGED <<conf, nodeVars, genOf>> /\ TypeOK /\ HostPart /\ JobPart
      /\ readyMsgs' \subseteq readyMsgs
  BY DEF PromoteDeployment, IsCurrent, IInv, Cutover
<1>2. UNCHANGED <<marker, stacks, job, timers>> /\ \A n \in Nodes : Ready(n)' = Ready(n)
  BY <1>1 DEF nodeVars, Ready
<1>3. MsgsAreReady' /\ Ready(assign)' = Ready(assign)
  BY <1>1, <1>2 DEF HostPart, MsgsAreReady, TypeOK
<1>4. CASE desired' = desired
  <2>1. TimersAreOld' /\ NoMarker'
    BY <1>1, <1>2, <1>4 DEF HostPart, TimersAreOld, NoMarker
  <2>2. HostPart'
    BY <1>1, <1>2, <1>3, <1>4, <2>1, HostKeeps
  <2>3. desired # NoDesired => desired.act \in Nat
    BY <1>1, NumbersOf
  <2> QED
    BY <1>1, <1>2, <1>4, <2>2, <2>3, JobKeeps
<1>5. CASE desired' # desired
  <2>1. /\ desired # NoDesired /\ desired' # NoDesired /\ desired.gen = Ready(assign)
        /\ desired'.gen = desired.gen /\ desired'.act = desired.gen
        /\ desired'.actConf = IF desired.act = desired.gen THEN desired.actConf ELSE desired.conf
        /\ genOf[desired.conf] = desired.gen
    BY <1>5, Promoting
  <2>2. /\ desired.gen \in Gens /\ desired.act \in Nat /\ desired.gen \in Keys
        /\ desired.conf \in Attempts /\ desired.act <= desired.gen
    BY <1>1, <2>1, NumbersOf DEF Keys, IInv, DesiredConsistent
  <2>3. stacks[assign][desired.gen] # NoAttempt /\ stacks[assign][desired.gen] \in Attempts
        /\ genOf[stacks[assign][desired.gen]] = desired.gen
    <3>1. stacks[assign][desired.gen] # NoAttempt
      BY <1>1, <2>1, <2>2 DEF HostPart, ReadyIsUp
    <3>2. stacks[assign][desired.gen] \in Attempts \cup {NoAttempt}
      BY <1>1, <2>2, NumbersOf DEF TypeOK
    <3> QED
      BY <1>1, <2>2, <3>1, <3>2 DEF HostPart, StacksAreProposed
  <2>4. stacks[assign][desired.gen] = desired.conf
    <3>1. \A a, b \in Attempts : a < b /\ genOf[b] # NoGen => genOf[a] < genOf[b]
      BY DEF Cutover, LeaderPart, InOrder
    <3>2. PICK a \in Attempts : a = stacks[assign][desired.gen]
      BY <2>3
    <3>3. PICK b \in Attempts : b = desired.conf
      BY <2>2
    <3>4. genOf[a] = desired.gen /\ genOf[b] = desired.gen /\ desired.gen # NoGen
      BY <2>1, <2>2, <2>3, <3>2, <3>3
    <3>5. ~(a < b) /\ ~(b < a)
      BY <2>2, <3>1, <3>4
    <3> QED
      BY <3>2, <3>3, <3>5
  <2>5. ReadyIsUp' /\ StacksAreProposed'
    BY <1>1, <1>2, <2>1 DEF HostPart, ReadyIsUp, StacksAreProposed, TypeOK
  <2>6. ActiveIsRunning'
    <3>1. desired'.actConf = stacks[assign][desired.gen]
      BY <1>1, <2>1, <2>2, <2>4 DEF HostPart, ActiveIsRunning
    <3>2. Ready(assign) \in Nat
      BY <2>1, <2>2
    <3> QED
      BY <1>2, <1>3, <2>1, <3>1, <3>2 DEF ActiveIsRunning
  <2>7. ConfIsRunning'
    <3>1. conf # NoAttempt => genOf[conf] \in Nat
      BY <1>1 DEF TypeOK
    <3> QED
      BY <1>1, <1>2, <2>1, <2>2, <3>1 DEF HostPart, ConfIsRunning
  <2>8. TimersAreOld' /\ NoMarker'
    <3>1. \A g \in timers[assign] : g \in Nat
      BY <1>1, NumbersOf DEF TypeOK
    <3> QED
      BY <1>1, <1>2, <2>1, <2>2, <3>1 DEF HostPart, TimersAreOld, NoMarker
  <2>9. HostPart'
    BY <1>3, <2>5, <2>6, <2>7, <2>8 DEF HostPart
  <2>10. JobPart'
    BY <1>1, <1>2, <2>1, <2>2, JobKeeps
  <2> QED
    BY <2>9, <2>10
<1> QED
  BY <1>4, <1>5

\* What the next nginx pass points at is the active attempt, which is up.
LEMMA ServedIs ==
    ASSUME IInv, Cutover
    PROVE  /\ desired # NoDesired => Served(desired) = desired.actConf
           /\ Served(desired) # NoAttempt =>
                 /\ desired # NoDesired /\ desired.act \in Gens /\ desired.act \in Keys
                 /\ Served(desired) \in Attempts /\ genOf[Served(desired)] = desired.act
                 /\ stacks[assign][desired.act] = Served(desired)
<1>1. desired # NoDesired => Served(desired) = desired.actConf
  BY DEF Served, Cutover, AllRolling
<1>2. ASSUME Served(desired) # NoAttempt
      PROVE  /\ desired # NoDesired /\ desired.act \in Gens /\ desired.act \in Keys
             /\ Served(desired) \in Attempts /\ genOf[Served(desired)] = desired.act
             /\ stacks[assign][desired.act] = Served(desired)
  <2>1. desired # NoDesired
    BY <1>2 DEF Served
  <2>2. desired.act # NoGen
    BY <1>1, <1>2, <2>1 DEF Cutover, LeaderPart, DesiredIsProposed
  <2>3. /\ desired.act \in Gens /\ desired.actConf \in Attempts
        /\ genOf[desired.actConf] = desired.act
        /\ stacks[assign][desired.act] = desired.actConf
    BY <2>1, <2>2, NumbersOf DEF IInv, DesiredConsistent, Cutover, HostPart, ActiveIsRunning
  <2> QED
    BY <1>1, <2>1, <2>3 DEF Keys
<1> QED
  BY <1>1, <1>2

\* So it is after a step.
LEMMA ServedIsAfter ==
    IInv' /\ Cutover' => (Served(desired) # NoAttempt =>
                             /\ stacks[assign][desired.act] = Served(desired)
                             /\ desired.act \in Keys)'
<1>1. IInv /\ Cutover => (Served(desired) # NoAttempt =>
                             /\ stacks[assign][desired.act] = Served(desired)
                             /\ desired.act \in Keys)
  BY ServedIs
<1> QED
  BY <1>1, PTL

\* A drain takes down what is older than the active generation; that is not what nginx
\* points at unless the drain came early.
LEMMA DrainKeepsHost ==
    ASSUME IInv, Cutover, Prompt' => Prompt, NEW n \in Nodes, NEW g \in timers[n],
           DrainFires(n, g)
    PROVE  HostPart' /\ JobPart' /\ (n = assign => g \in Keys /\ desired # NoDesired /\ g < desired.act)
<1>1. /\ UNCHANGED <<desired, genOf, conf, assign, job, readyMsgs>> /\ TypeOK
      /\ HostPart /\ JobPart
      /\ marker' = [marker EXCEPT ![n] = removeLiveGeneration(@, g)]
      /\ timers' = [timers EXCEPT ![n] = @ \ {g}]
      /\ Down(n, {g}, IF conf = Served(desired) THEN {} ELSE {"early"})
  BY DEF DrainFires, leaderVars, IInv, Cutover
<1>2. g \in Gens /\ g \in Keys
  BY <1>1, NumbersOf DEF Keys
<1>3. \A m \in Nodes : Ready(m)' = Ready(m)
  <2>1. marker[n] \in Marker(Gens) \cup {NoFile}
    BY <1>1 DEF TypeOK
  <2> QED
    BY <1>1, <1>2, <2>1, ReadyAfter DEF Ready, TypeOK
<1>4. MsgsAreReady' /\ TimersAreOld'
  BY <1>1, <1>3 DEF HostPart, MsgsAreReady, TimersAreOld, TypeOK
<1>5. JobPart'
  <2>1. desired # NoDesired => desired.act \in Nat
    BY <1>1, NumbersOf
  <2> QED
    BY <1>1, <1>3, <2>1, JobKeeps
<1>6. CASE n # assign
  <2>1. stacks'[assign] = stacks[assign]
    BY <1>1, <1>2, <1>6, DownIsLocal DEF TypeOK
  <2>2. marker'[assign] = marker[assign] /\ Ready(assign)' = Ready(assign)
    BY <1>1, <1>3, <1>6 DEF TypeOK
  <2>3. NoMarker'
    BY <1>1, <2>2 DEF HostPart, NoMarker
  <2> QED
    BY <1>1, <1>4, <1>5, <1>6, <2>1, <2>2, <2>3, HostKeeps
<1>7. CASE n = assign
  <2>1. desired # NoDesired /\ g < desired.act /\ desired.act \in Nat /\ desired.act # NoGen
    BY <1>1, <1>2, <1>7, NumbersOf DEF HostPart, TimersAreOld
  <2>2. /\ desired.act <= Ready(assign) /\ Ready(assign) \in Nat
    BY <1>1, <1>7, <2>1, NumbersOf DEF HostPart, ActiveIsRunning
  <2>3. /\ \A k \in {g} : stacks'[assign][k] \in {NoAttempt, stacks[assign][k]}
        /\ \A j \in Keys \ {g} : stacks'[assign][j] = stacks[assign][j]
    <3>1. stacks \in [Nodes -> Stacks]
      BY <1>1 DEF TypeOK
    <3>2. /\ \A k \in {g} : stacks'[n][k] \in {NoAttempt, stacks[n][k]}
          /\ \A j \in Keys \ {g} : stacks'[n][j] = stacks[n][j]
      BY <1>1, <1>2, <3>1, DownEffect
    <3> QED
      BY <1>7, <3>2
  <2>4. stacks'[assign][g] # NoAttempt => g # NoGen /\ genOf[stacks'[assign][g]] = g
    BY <1>1, <1>2, <2>3 DEF HostPart, StacksAreProposed
  <2>5. NoMarker'
    BY <1>1, <2>1 DEF NoMarker
  <2>6. Ready(assign)' = Ready(assign)
    BY <1>1, <1>3, <1>7
  <2>7. ASSUME Prompt', conf # NoAttempt PROVE g # genOf[conf]
    <3>1. conf = Served(desired)
      <4>1. CASE conf # Served(desired)
        <5>1. \E all : {"early"} \subseteq all /\ Uses(all)
          <6>1. Down(n, {g}, {"early"}) /\ stacks \in [Nodes -> Stacks]
            BY <1>1, <4>1 DEF TypeOK
          <6>2. {g} \in SUBSET Keys
            BY <1>2
          <6> QED
            BY <6>1, <6>2, DownEffect
        <5> QED
          BY <1>1, <2>7, <5>1, CountedOnce DEF Prompt, Kinds
      <4> QED
        BY <4>1
    <3> QED
      BY <1>2, <2>1, <2>7, <3>1, ServedIs
  <2>8. g # Ready(assign) /\ g # desired.act
    BY <1>2, <2>1, <2>2
  <2>9. HostPart'
    BY <1>1, <1>2, <1>4, <2>3, <2>4, <2>5, <2>6, <2>7, <2>8, OtherKeyKeeps
  <2> QED
    BY <1>2, <1>5, <2>1, <2>9
<1> QED
  BY <1>6, <1>7

\* What the nginx pass points at is the active generation, which is up.
LEMMA RenderKeepsHost ==
    ASSUME IInv, Cutover, Prompt' => Prompt, Render, assign' = assign
    PROVE  /\ HostPart' /\ JobPart'
           /\ conf' \in Attempts /\ conf < conf'
           /\ genOf[conf'] \in Keys /\ stacks[assign][genOf[conf']] = conf'
<1>1. /\ UNCHANGED <<desired, genOf, nodeVars, readyMsgs>> /\ TypeOK /\ HostPart /\ JobPart
      /\ conf' = Served(desired) /\ conf # conf'
  BY DEF Render, IInv, Cutover
<1>2. UNCHANGED <<marker, stacks, job, timers>> /\ \A n \in Nodes : Ready(n)' = Ready(n)
  BY <1>1 DEF nodeVars, Ready
<1>3. desired # NoDesired => conf' = desired.actConf
  BY <1>1 DEF Served, Cutover, AllRolling
<1>4. desired # NoDesired /\ desired.act # NoGen
  <2>1. CASE conf # NoAttempt
    <3>1. desired # NoDesired /\ genOf[conf] # NoGen /\ genOf[conf] <= desired.act
          /\ genOf[conf] \in Nat
      BY <1>1, <2>1, NumbersOf DEF HostPart, ConfIsRunning, TypeOK
    <3> QED
      BY <1>1, <3>1, NumbersOf
  <2>2. CASE conf = NoAttempt
    <3>1. conf' # NoAttempt
      BY <1>1, <2>2
    <3>2. desired # NoDesired
      BY <1>1, <3>1 DEF Served
    <3> QED
      BY <1>3, <3>1, <3>2 DEF Cutover, LeaderPart, DesiredIsProposed
  <2> QED
    BY <2>1, <2>2
<1>5. /\ desired.act \in Gens /\ desired.actConf \in Attempts
      /\ genOf[desired.actConf] = desired.act
      /\ stacks[assign][desired.act] = desired.actConf
  BY <1>1, <1>4, NumbersOf DEF IInv, DesiredConsistent, HostPart, ActiveIsRunning
<1>6. conf' \in Attempts /\ genOf[conf'] = desired.act /\ stacks[assign][genOf[conf']] = conf'
  BY <1>3, <1>4, <1>5
<1>7. conf < conf'
  <2>1. CASE conf = NoAttempt
    BY <1>6, <2>1
  <2>2. CASE conf # NoAttempt
    <3>1. conf \in Attempts /\ genOf[conf] <= desired.act /\ genOf[conf] \in Nat
      BY <1>1, <2>2 DEF TypeOK, HostPart, ConfIsRunning
    <3>2. ~(conf' < conf)
      <4>1. genOf[conf] # NoGen /\ \A a, b \in Attempts : a < b /\ genOf[b] # NoGen => genOf[a] < genOf[b]
        BY <1>1, <2>2 DEF HostPart, ConfIsRunning, Cutover, LeaderPart, InOrder
      <4>2. PICK c \in Attempts : c = conf'
        BY <1>6
      <4>3. genOf[c] = desired.act /\ desired.act \in Nat
        BY <1>5, <1>6, <4>2
      <4>4. ~(c < conf)
        BY <3>1, <4>1, <4>3
      <4> QED
        BY <4>2, <4>4
    <3> QED
      BY <1>1, <1>6, <3>1, <3>2
  <2> QED
    BY <2>1, <2>2
<1>8. JobPart'
  BY <1>1, <1>2, <1>4, <1>5, JobKeeps
<1>9. HostPart'
  <2>1. ReadyIsUp' /\ StacksAreProposed' /\ MsgsAreReady'
    BY <1>1, <1>2 DEF HostPart, ReadyIsUp, StacksAreProposed, MsgsAreReady, TypeOK
  <2>2. ActiveIsRunning' /\ TimersAreOld' /\ NoMarker'
    BY <1>1, <1>2 DEF HostPart, ActiveIsRunning, TimersAreOld, NoMarker, TypeOK
  <2>3. ConfIsRunning'
    BY <1>1, <1>2, <1>4, <1>5, <1>6 DEF ConfIsRunning
  <2> QED
    BY <2>1, <2>2, <2>3 DEF HostPart
<1>10. genOf[conf'] \in Keys
  BY <1>5, <1>6 DEF Keys
<1> QED
  BY <1>6, <1>7, <1>8, <1>9, <1>10

\* Restarts end ticks and forget drains and announcements, nothing else.
LEMMA RestartKeepsHost ==
    ASSUME IInv, Cutover, Prompt' => Prompt, assign' = assign,
           LeaderRestart \/ \E n \in Nodes : NodeRestart(n)
    PROVE  HostPart' /\ JobPart' /\ UNCHANGED <<conf, stacks>>
<1>1. /\ UNCHANGED <<desired, genOf, conf, marker, stacks>> /\ TypeOK /\ HostPart /\ JobPart
      /\ readyMsgs' \subseteq readyMsgs
  BY DEF LeaderRestart, NodeRestart, leaderVars, IInv, Cutover
<1>2. \A n \in Nodes : job'[n] \in {job[n], NoJob} /\ timers'[n] \subseteq timers[n]
  BY <1>1 DEF LeaderRestart, NodeRestart, Forget, TypeOK
<1>3. \A n \in Nodes : Ready(n)' = Ready(n)
  BY <1>1 DEF Ready
<1>4. TimersAreOld' /\ NoMarker' /\ MsgsAreReady' /\ Ready(assign)' = Ready(assign)
  BY <1>1, <1>2, <1>3 DEF HostPart, TimersAreOld, NoMarker, MsgsAreReady, TypeOK
<1>5. HostPart'
  BY <1>1, <1>4, HostKeeps
<1>6. desired # NoDesired => desired.act \in Nat
  BY <1>1, NumbersOf
<1> QED
  BY <1>1, <1>2, <1>3, <1>5, <1>6, JobKeeps

\* The other handlers of the leader, and late reports, touch neither.
LEMMA QuietKeepsHost ==
    ASSUME IInv, Cutover, Prompt' => Prompt, assign' = assign,
           UNCHANGED <<desired, genOf, conf, marker, stacks, job, timers>>,
           readyMsgs' \subseteq readyMsgs
    PROVE  HostPart' /\ JobPart'
<1>1. TypeOK /\ HostPart /\ JobPart
  BY DEF IInv, Cutover
<1>2. \A n \in Nodes : Ready(n)' = Ready(n)
  BY DEF Ready
<1>3. TimersAreOld' /\ NoMarker' /\ MsgsAreReady' /\ Ready(assign)' = Ready(assign)
  BY <1>1, <1>2 DEF HostPart, TimersAreOld, NoMarker, MsgsAreReady, TypeOK
<1>4. HostPart'
  BY <1>1, <1>3, HostKeeps
<1>5. desired # NoDesired => desired.act \in Nat
  BY <1>1, NumbersOf
<1> QED
  BY <1>1, <1>2, <1>4, <1>5, JobKeeps

\* The steps that count, while nothing but deployments is asked for.
LEMMA CutoverSteps ==
    ASSUME IInv, Cutover, Untroubled', [Next]_vars
    PROVE  \/ Propose \/ Render \/ LeaderRestart \/ \E n \in Nodes : NodeRestart(n)
           \/ \E m \in readyMsgs : PromoteDeployment(m)
           \/ \E n \in Nodes : NodeStep(n)
           \/ \E n \in Nodes : \E g \in timers[n] : DrainFires(n, g)
           \/ /\ UNCHANGED <<desired, genOf, conf, marker, stacks, job, timers>>
              /\ readyMsgs' \subseteq readyMsgs
<1>1. TypeOK /\ Alone
  BY DEF IInv, Cutover, LeaderPart
<1>2. ASSUME NEW zd \in BOOLEAN, StartDeploy(zd)
      PROVE  UNCHANGED <<desired, genOf, conf, nodeVars, readyMsgs>>
  BY <1>2 DEF StartDeploy
<1>3. CASE Plan \/ PlanFails \/ QueueTimeout \/ UNCHANGED vars
  BY <1>3 DEF Plan, PlanFails, QueueTimeout, vars, leaderVars, nodeVars
<1>4. ASSUME NEW m \in readyMsgs, LoseReady(m)
      PROVE  UNCHANGED <<desired, genOf, conf, nodeVars>> /\ readyMsgs' \subseteq readyMsgs
  BY <1>4 DEF LoseReady, leaderVars
<1>5. ASSUME NEW n \in Nodes, Progress(n)
      PROVE  UNCHANGED <<desired, genOf, conf, nodeVars, readyMsgs>>
  BY <1>5 DEF Progress
<1> QED
  BY <1>1, <1>2, <1>3, <1>4, <1>5, AloneSteps DEF Deploys, Cutovers, Drain, nodeVars

\* The invariant is kept while nothing but zero-downtime deployments is asked for.
LEMMA CutoverPreserved ==
    ASSUME IInv, Cutover, Untroubled', [Next]_vars PROVE Cutover'
<1>1. TypeOK /\ Alone
  BY DEF IInv, Cutover, LeaderPart
<1>2. assign' = assign /\ LeaderPart'
  BY <1>1, AloneStays, LeaderPartPreserved
<1>3. AllRolling' /\ ProposalIsFresh'
  <2>1. Never({"inplace"})' /\ Never({"race"})'
    BY DEF Untroubled, Never
  <2> QED
    BY <1>1, <2>1, AllRollingPreserved, ProposalStaysFresh DEF Cutover
<1>4. Prompt' => Prompt
  BY <1>1, NeverBefore DEF Prompt, Kinds
<1>5. HostPart' /\ JobPart'
  BY <1>2, <1>4, CutoverSteps, ProposeKeepsHost, RenderKeepsHost, RestartKeepsHost, PromotionKeepsHost,
     TickKeepsHost, TickKeepsJobs, DrainKeepsHost, QuietKeepsHost
<1> QED
  BY <1>2, <1>3, <1>5 DEF Cutover

\* It holds before anything is deployed.
LEMMA CutoverInitially == Init => Cutover
<1> SUFFICES ASSUME Init PROVE Cutover
  OBVIOUS
<1>1. /\ \A n \in Nodes : marker[n] = NoFile /\ job[n] = NoJob /\ timers[n] = {} /\ ~cflag[n]
      /\ \A n \in Nodes : \A k \in Keys : stacks[n][k] = NoAttempt
      /\ \A a \in Attempts : where[a] = assign /\ genOf[a] = NoGen
      /\ assign \in Nodes
  BY DEF Init, EmptyStacks
<1>2. \A n \in Nodes : Ready(n) = NoGen
  BY <1>1 DEF Ready, readMarker, EmptyMarker
<1>3. LeaderPart
  BY <1>1 DEF Init, LeaderPart, Alone, SlotIsNewest, InOrder, DesiredIsProposed, NoDesired
<1>4. HostPart
  BY <1>1, <1>2 DEF Init, HostPart, ReadyIsUp, StacksAreProposed, MsgsAreReady, ActiveIsRunning,
                    ConfIsRunning, TimersAreOld, NoMarker, NoDesired
<1>5. JobPart /\ AllRolling /\ ProposalIsFresh
  BY <1>1 DEF Init, JobPart, JobIsProposed, AllRolling, ProposalIsFresh, NoSlot, NoDesired
<1> QED
  BY <1>3, <1>4, <1>5 DEF Cutover

\* It is an invariant until something else is asked for.
LEMMA CutoverInvariance == Spec => [](Untroubled => Cutover)
<1>1. Init => (Untroubled => Cutover)
  BY CutoverInitially
<1>2. IInv /\ (Untroubled => Cutover) /\ [Next]_vars => (Untroubled => Cutover)'
  <2> SUFFICES ASSUME IInv, Untroubled => Cutover, [Next]_vars, Untroubled' PROVE Cutover'
    OBVIOUS
  <2>1. {"inplace", "race", "cancel", "teardown", "reassign"} \in SUBSET Kinds
    BY DEF Kinds
  <2>2. Untroubled
    BY <2>1, NeverBefore DEF Untroubled, IInv
  <2> QED
    BY <2>2, CutoverPreserved
<1> QED
  BY <1>1, <1>2, InitIInv, IInvPreserved, PTL DEF Spec

\* The active attempt runs, and so does what the conf in force points at, unless a
\* drain came early.
LEMMA CutoverServes ==
    IInv /\ Cutover => ActiveIsUp /\ (Prompt /\ conf # NoAttempt => Running(conf))
<1> SUFFICES ASSUME IInv, Cutover
             PROVE  ActiveIsUp /\ (Prompt /\ conf # NoAttempt => Running(conf))
  OBVIOUS
<1>1. \A a \in Attempts : where[a] = assign
  BY DEF Cutover, LeaderPart, Alone
<1>2. ActiveIsUp
  BY <1>1, ServedIs DEF ActiveIsUp, Running
<1>3. ASSUME Prompt, conf # NoAttempt PROVE Running(conf)
  <2>1. conf \in Attempts /\ genOf[conf] \in Gens /\ stacks[assign][genOf[conf]] = conf
    BY <1>3 DEF IInv, TypeOK, Cutover, HostPart, ConfIsRunning
  <2> QED
    BY <1>1, <2>1 DEF Running, Keys
<1> QED
  BY <1>2, <1>3

\* The zero-downtime promise: the active attempt always runs, and the conf in force
\* points at running containers until a drain fires before the nginx pass, through
\* failing and killed builds, failing teardowns, timeouts, restarts of the leader and of
\* the hosts, lost announcements and late or lost reports, for any number of hosts and
\* attempts, until somebody cancels, tears down, moves or deploys in place, or a handler
\* gets in between deployProject's read of the row and its write.
THEOREM ZeroDowntime == Spec => []ServedIsUp
<1>1. IInv /\ (Untroubled => Cutover) => ServedIsUp
  BY CutoverServes DEF ServedIsUp, Prompt
<1> QED
  BY <1>1, CutoverInvariance, Invariance, PTL

-----------------------------------------------------------------------------
(* The detailed protocol keeps the promise of TrafficCutover.              *)

\* Nothing but zero-downtime deployments may happen, as often as the budgets allow.
OnlyDeployments ==
    \A b \in Budgets : \A k \in {"inplace", "race", "cancel", "teardown", "reassign"} : b[k] = 0

\* The attempts that are up, as the promise sees them.
Up == {a \in Attempts : Running(a)}

\* Under such budgets nothing else ever happens.
LEMMA UntroubledAlways ==
    ASSUME OnlyDeployments PROVE Spec => []Untroubled
<1>1. Init => Untroubled
  BY DEF Init, Untroubled, Never, Kinds
<1>2. Untroubled /\ [Next]_vars => Untroubled'
  <2> SUFFICES ASSUME Untroubled, [Next]_vars PROVE Untroubled'
    OBVIOUS
  <2>1. CASE UNCHANGED used
    BY <2>1 DEF Untroubled, Never
  <2>2. ASSUME NEW kinds, Uses(kinds) PROVE Untroubled'
    <3> SUFFICES ASSUME NEW k \in {"inplace", "race", "cancel", "teardown", "reassign"}
                 PROVE  used'[k] = 0
      BY DEF Untroubled, Never
    <3>1. used[k] = 0 /\ k \in Kinds
      BY DEF Untroubled, Never, Kinds
    <3>2. PICK b \in Budgets : used'[k] <= b[k]
      BY <2>2, <3>1 DEF Uses
    <3>3. b[k] = 0
      BY DEF OnlyDeployments
    <3>4. used'[k] = IF k \in kinds THEN 1 ELSE 0
      BY <2>2, <3>1 DEF Uses
    <3> QED
      BY <3>2, <3>3, <3>4
  <2> QED
    BY <2>1, <2>2, StepsCount
<1> QED
  BY <1>1, <1>2, PTL DEF Spec

\* While the project stays on its host, an attempt is up when that host runs it.
LEMMA UpHere ==
    ASSUME Alone PROVE Up = {a \in Attempts : \E k \in Keys : stacks[assign][k] = a}
BY DEF Up, Running, Alone

\* No two attempts were proposed as one generation.
LEMMA OneAttemptEach ==
    ASSUME IInv, Cutover, NEW a \in Attempts, NEW b \in Attempts, genOf[a] = genOf[b],
           genOf[b] # NoGen
    PROVE  a = b
<1>1. ~(a < b) /\ ~(b < a)
  BY DEF Cutover, LeaderPart, InOrder, IInv, TypeOK
<1> QED
  BY <1>1

\* What comes up under a key is the attempt that has been up there, or a new one.
LEMMA BuildBringsUp ==
    ASSUME IInv, Cutover, Alone', assign' = assign, NEW k \in Keys, NEW a \in Attempts,
           genOf[a] = k, k # NoGen, stacks'[assign][k] = a,
           \A j \in Keys \ {k} : stacks'[assign][j] = stacks[assign][j]
    PROVE  Up' = Up \cup {a}
<1>1. Alone /\ \A j \in Keys : stacks[assign][j] \in Attempts \cup {NoAttempt}
  BY NumbersOf DEF Cutover, LeaderPart, IInv, TypeOK
<1>2. stacks[assign][k] = a \/ stacks[assign][k] = NoAttempt
  <2>1. ASSUME stacks[assign][k] # NoAttempt PROVE stacks[assign][k] = a
    BY <1>1, <2>1, OneAttemptEach DEF Cutover, HostPart, StacksAreProposed
  <2> QED
    BY <2>1
<1>3. Up' = {b \in Attempts : \E j \in Keys : stacks'[assign][j] = b}
  BY DEF Up, Running, Alone
<1>4. Up = {b \in Attempts : \E j \in Keys : stacks[assign][j] = b}
  BY <1>1, UpHere
<1>5. ASSUME NEW b \in Attempts
      PROVE  (\E j \in Keys : stacks'[assign][j] = b)
               <=> (\E j \in Keys : stacks[assign][j] = b) \/ b = a
  BY <1>2
<1> QED
  BY <1>3, <1>4, <1>5

\* The promise's view of a step that leaves the host's containers alone.
LEMMA SameUp ==
    ASSUME Alone, Alone', assign' = assign,
           \A k \in Keys : stacks'[assign][k] = stacks[assign][k]
    PROVE  Up' = Up
<1>1. Up' = {b \in Attempts : \E j \in Keys : stacks'[assign][j] = b}
  BY DEF Up, Running, Alone
<1> QED
  BY <1>1, UpHere

\* Taking down a key takes down the attempt under it, if that, and no other.
LEMMA EmptyingTakesDown ==
    ASSUME IInv, Cutover, Alone', assign' = assign, NEW k \in Keys,
           stacks'[assign][k] \in {NoAttempt, stacks[assign][k]},
           \A j \in Keys \ {k} : stacks'[assign][j] = stacks[assign][j]
    PROVE  \/ Up' = Up
           \/ \E a \in Up : genOf[a] = k /\ Up' = Up \ {a}
<1>1. Alone /\ \A j \in Keys : stacks[assign][j] \in Attempts \cup {NoAttempt}
  BY NumbersOf DEF Cutover, LeaderPart, IInv, TypeOK
<1>2. \A j \in Keys : stacks[assign][j] # NoAttempt => genOf[stacks[assign][j]] = j
  BY DEF Cutover, HostPart, StacksAreProposed
<1>3. CASE stacks'[assign][k] = stacks[assign][k]
  BY <1>1, <1>3, SameUp
<1>4. CASE stacks'[assign][k] = NoAttempt /\ stacks[assign][k] # NoAttempt
  <2>1. Up' = {b \in Attempts : \E j \in Keys : stacks'[assign][j] = b}
    BY DEF Up, Running, Alone
  <2>2. Up = {b \in Attempts : \E j \in Keys : stacks[assign][j] = b}
    BY <1>1, UpHere
  <2>3. ASSUME NEW b \in Attempts
        PROVE  (\E j \in Keys : stacks'[assign][j] = b)
                 <=> (\E j \in Keys : stacks[assign][j] = b) /\ b # stacks[assign][k]
    BY <1>2, <1>4
  <2>4. Up' = Up \ {stacks[assign][k]} /\ stacks[assign][k] \in Up
    BY <1>1, <1>4, <2>1, <2>2, <2>3
  <2> QED
    BY <1>2, <1>4, <2>4
<1> QED
  BY <1>3, <1>4

\* A tick brings up an attempt, or takes down one that nginx neither points at nor is
\* about to.
LEMMA TickPromises ==
    ASSUME IInv, Cutover, Alone', assign' = assign, NEW n \in Nodes, NodeStep(n)
    PROVE  \/ Up' = Up
           \/ \E a \in Attempts \ Up : Up' = Up \cup {a}
           \/ \E a \in Up \ {conf, Served(desired)} : Up' = Up \ {a}
<1>0. TypeOK /\ Alone
  BY DEF IInv, Cutover, LeaderPart
<1>1. ASSUME NEW a \in Attempts, Up' = Up \cup {a}
      PROVE  Up' = Up \/ \E b \in Attempts \ Up : Up' = Up \cup {b}
  <2>1. CASE a \in Up
    BY <1>1, <2>1
  <2>2. CASE a \notin Up
    BY <1>1, <2>2
  <2> QED
    BY <2>1, <2>2
<1>2. ASSUME n = assign, job[n].pc \notin {"idle", "ready", "announce"}, Dep(n).gen \in Keys,
             stacks'[assign][Dep(n).gen] \in {NoAttempt, stacks[assign][Dep(n).gen]},
             \A j \in Keys \ {Dep(n).gen} : stacks'[assign][j] = stacks[assign][j]
      PROVE  Up' = Up \/ \E a \in Up \ {conf, Served(desired)} : Up' = Up \ {a}
  <2>1. CASE Up' = Up
    BY <2>1
  <2>2. ASSUME NEW a \in Up, genOf[a] = Dep(n).gen, Up' = Up \ {a}
        PROVE  \E b \in Up \ {conf, Served(desired)} : Up' = Up \ {b}
    <3>1. a \in Attempts /\ a # NoAttempt
      BY DEF Up
    <3>2. a # conf
      BY <1>2, <2>2, <3>1, KeyIsNewer
    <3>3. a # Served(desired)
      BY <1>2, <2>2, <3>1, KeyIsNewer, ServedIs
    <3> QED
      BY <2>2, <3>2, <3>3
  <2> QED
    BY <1>2, <2>1, <2>2, EmptyingTakesDown
<1>3. CASE Build(n)
  <2>1. /\ n = assign /\ Key(Dep(n)) = Dep(n).gen /\ Dep(n).gen \in Keys /\ job[n].pc = "build"
        /\ Dep(n).gen \in Gens /\ Dep(n).log \in Attempts /\ genOf[Dep(n).log] = Dep(n).gen
    BY <1>3, JobHere DEF Build, At
  <2>2. PICK s \in {Dep(n).log, stacks[n][Dep(n).gen], NoAttempt} :
           stacks' = [stacks EXCEPT ![n][Dep(n).gen] = s]
    BY <1>3, <2>1 DEF Build
  <2>3. /\ stacks'[assign][Dep(n).gen] = s
        /\ \A j \in Keys \ {Dep(n).gen} : stacks'[assign][j] = stacks[assign][j]
    <3>1. /\ stacks'[n][Dep(n).gen] = s
          /\ \A j \in Keys \ {Dep(n).gen} : stacks'[n][j] = stacks[n][j]
      <4>1. PICK k \in Keys : k = Dep(n).gen
        BY <2>1
      <4>2. stacks' = [stacks EXCEPT ![n][k] = s]
        BY <2>2, <4>1
      <4>3. stacks'[n][k] = s /\ \A j \in Keys \ {k} : stacks'[n][j] = stacks[n][j]
        <5>1. stacks \in [Nodes -> Stacks]
          BY <1>0 DEF TypeOK
        <5>2. n \in DOMAIN stacks /\ k \in DOMAIN stacks[n]
          BY <5>1 DEF Stacks
        <5> QED
          BY <4>2, <5>2
      <4> QED
        BY <4>1, <4>3
    <3> QED
      BY <2>1, <3>1
  <2>4. CASE s = Dep(n).log
    <3>1. Up' = Up \cup {Dep(n).log}
      BY <2>1, <2>3, <2>4, BuildBringsUp
    <3> QED
      BY <1>1, <2>1, <3>1
  <2>5. CASE s # Dep(n).log
    BY <1>2, <2>1, <2>2, <2>3, <2>5
  <2> QED
    BY <2>4, <2>5
<1>4. CASE Undo(n)
  <2>1. /\ n = assign /\ Key(Dep(n)) = Dep(n).gen /\ Dep(n).gen \in Keys
        /\ {Dep(n).gen} \in SUBSET Keys /\ job[n].pc = "undo"
    BY <1>4, JobHere DEF Undo, At
  <2>2. Down(n, {Dep(n).gen}, {})
    BY <1>4, <2>1 DEF Undo
  <2>3. /\ stacks'[assign][Dep(n).gen] \in {NoAttempt, stacks[assign][Dep(n).gen]}
        /\ \A j \in Keys \ {Dep(n).gen} : stacks'[assign][j] = stacks[assign][j]
    BY <1>0, <2>1, <2>2, DownEffect DEF TypeOK
  <2> QED
    BY <1>2, <2>1, <2>3
<1>5. CASE Sweep(n)
  <2>1. n # assign
    BY <1>5 DEF Sweep, Assigned, Cutover, LeaderPart, DesiredIsProposed, HostPart, NoMarker
  <2>2. stacks'[assign] = stacks[assign]
    BY <1>0, <1>5, <2>1, DownIsLocal DEF Sweep, SweptKeys, TypeOK
  <2> QED
    BY <1>0, <2>2, SameUp
<1>6. CASE ~Build(n) /\ ~Undo(n) /\ ~Sweep(n)
  <2>1. stacks' = stacks
    BY <1>6 DEF NodeStep, StartApply, BuildFails, MarkLive, InPlaceDone, GatePasses, GateFails,
                ReportDeployed, Announce, ReportFailure, ScheduleDrain
  <2> QED
    BY <1>0, <2>1, SameUp
<1> QED
  BY <1>3, <1>4, <1>5, <1>6

\* A promotion makes a newer attempt active, which runs, or changes nothing.
LEMMA PromotionPromises ==
    ASSUME IInv, Cutover, IInv', Cutover', NEW m \in readyMsgs, PromoteDeployment(m)
    PROVE  \/ Served(desired') = Served(desired)
           \/ Served(desired') \in Attempts /\ Served(desired') > Served(desired)
<1>1. CASE desired' = desired
  BY <1>1
<1>2. CASE desired' # desired
  <2>1. /\ desired # NoDesired /\ desired' # NoDesired /\ desired'.act = desired.gen
        /\ desired'.actConf = IF desired.act = desired.gen THEN desired.actConf ELSE desired.conf
        /\ genOf[desired.conf] = desired.gen
    BY <1>2, Promoting
  <2>2. Served(desired) = desired.actConf /\ Served(desired') = desired'.actConf
    <3>1. Served(desired)' = desired'.actConf
      BY <2>1 DEF Served, Cutover, AllRolling
    <3> QED
      BY <2>1, <3>1, ServedIs DEF Served
  <2>3. CASE desired.act = desired.gen
    BY <2>1, <2>2, <2>3
  <2>4. CASE desired.act # desired.gen
    <3>1. /\ desired.conf \in Attempts /\ desired.gen \in Gens /\ desired.act \in Nat
          /\ desired.act < desired.gen
      BY <2>1, <2>4, NumbersOf DEF IInv, DesiredConsistent
    <3>2. CASE Served(desired) = NoAttempt
      BY <2>1, <2>2, <2>4, <3>1, <3>2
    <3>3. CASE Served(desired) # NoAttempt
      <4>1. Served(desired) \in Attempts /\ genOf[Served(desired)] = desired.act
        BY <3>3, ServedIs
      <4>2. \A a, b \in Attempts : a < b /\ genOf[b] # NoGen => genOf[a] < genOf[b]
        BY DEF Cutover, LeaderPart, InOrder
      <4>3. PICK a \in Attempts : a = Served(desired)
        BY <4>1
      <4>4. PICK b \in Attempts : b = desired.conf
        BY <3>1
      <4>5. ~(b < a) /\ a # b
        <5>1. genOf[a] = desired.act /\ genOf[b] = desired.gen /\ desired.act # NoGen
          BY <2>1, <3>3, <4>1, <4>3, <4>4, ServedIs
        <5> QED
          BY <3>1, <4>2, <5>1
      <4> QED
        BY <2>1, <2>2, <2>4, <3>1, <4>3, <4>4, <4>5
    <3> QED
      BY <3>2, <3>3
  <2> QED
    BY <2>3, <2>4
<1> QED
  BY <1>1, <1>2

\* Proposing an attempt leaves the active one.
LEMMA ProposingKeepsServed ==
    ASSUME IInv, Cutover, Propose PROVE Served(desired') = Served(desired)
<1>1. desired' # NoDesired /\ desired'.zd /\ desired'.actConf = Active(desired).actConf
  BY Proposing
<1>2. Served(desired') = Active(desired).actConf
  BY <1>1 DEF Served
<1>3. CASE desired = NoDesired
  BY <1>2, <1>3 DEF Served, Active
<1>4. CASE desired # NoDesired
  BY <1>2, <1>4, ServedIs DEF Active
<1> QED
  BY <1>3, <1>4

\* Only a drain counts as one that came early.
LEMMA EarlyIsCounted ==
    ASSUME TypeOK, [Next]_vars, \A n \in Nodes : ~Drain(n) PROVE used'["early"] = used["early"]
<1>1. used["early"] \in Nat /\ "early" \in Kinds
  BY DEF TypeOK, Kinds
<1>2. CASE UNCHANGED used
  BY <1>2
<1>3. ASSUME NEW kinds, Uses(kinds), "early" \notin kinds PROVE used'["early"] = used["early"]
  <2>1. used'["early"] = used["early"] + 0
    BY <1>1, <1>3 DEF Uses
  <2> QED
    BY <1>1, <2>1
<1> QED
  BY <1>2, <1>3, StepsCount

\* A drain takes down what is not active, and not what is served either, unless it is
\* counted as one that came early.
LEMMA DrainPromises ==
    ASSUME IInv, Cutover, Alone', assign' = assign, Prompt' => Prompt,
           NEW n \in Nodes, NEW g \in timers[n], DrainFires(n, g)
    PROVE  /\ UNCHANGED <<Served(desired), conf>>
           /\ Up' = Up \/ \E a \in Up \ {Served(desired)} : Up' = Up \ {a}
           /\ IF conf = Served(desired) THEN used'["early"] = used["early"]
              ELSE used'["early"] = used["early"] + 1
<1>1. /\ UNCHANGED <<desired, conf>> /\ TypeOK /\ Alone
      /\ Down(n, {g}, IF conf = Served(desired) THEN {} ELSE {"early"})
  BY DEF DrainFires, leaderVars, IInv, Cutover, LeaderPart
<1>2. {g} \in SUBSET Keys
  BY <1>1, NumbersOf DEF Keys
<1>3. UNCHANGED <<Served(desired), conf>>
  BY <1>1 DEF Served
<1>4. IF conf = Served(desired) THEN used'["early"] = used["early"]
      ELSE used'["early"] = used["early"] + 1
  <2>1. PICK all : /\ (IF conf = Served(desired) THEN {} ELSE {"early"}) \subseteq all
                   /\ all \subseteq (IF conf = Served(desired) THEN {} ELSE {"early"}) \cup {"stuck"}
                   /\ Uses(all)
    <3> DEFINE kinds == IF conf = Served(desired) THEN {} ELSE {"early"}
    <3>1. Down(n, {g}, kinds) /\ stacks \in [Nodes -> Stacks]
      BY <1>1 DEF TypeOK
    <3>2. \E all : kinds \subseteq all /\ all \subseteq kinds \cup {"stuck"} /\ Uses(all)
      <4> HIDE DEF kinds
      <4> QED
        BY <1>2, <3>1, DownEffect
    <3> QED
      BY <3>2
  <2>2. used["early"] \in Nat /\ "early" \in Kinds
    BY <1>1 DEF TypeOK, Kinds
  <2>3. used'["early"] = used["early"] + (IF "early" \in all THEN 1 ELSE 0)
    BY <2>1, <2>2 DEF Uses
  <2>4. "early" \in all <=> conf # Served(desired)
    BY <2>1
  <2> QED
    BY <2>2, <2>3, <2>4
<1>5. CASE n # assign
  <2>1. stacks'[assign] = stacks[assign]
    BY <1>1, <1>2, <1>5, DownIsLocal DEF TypeOK
  <2>2. Up' = Up
    BY <1>1, <2>1, SameUp
  <2> QED
    BY <1>3, <1>4, <2>2
<1>6. CASE n = assign
  <2>1. g \in Keys /\ desired # NoDesired /\ g < desired.act
    BY <1>6, DrainKeepsHost
  <2>2. /\ \A k \in {g} : stacks'[assign][k] \in {NoAttempt, stacks[assign][k]}
        /\ \A j \in Keys \ {g} : stacks'[assign][j] = stacks[assign][j]
    BY <1>1, <1>2, <1>6, DownEffect DEF TypeOK
  <2>3. Up' = Up \/ \E a \in Up : genOf[a] = g /\ Up' = Up \ {a}
    BY <2>1, <2>2, EmptyingTakesDown
  <2>4. ASSUME NEW a \in Up, genOf[a] = g PROVE a # Served(desired)
    <3>1. a # NoAttempt
      BY DEF Up
    <3>2. a = Served(desired) => genOf[a] = desired.act
      BY <3>1, ServedIs
    <3>3. desired.act \in Nat /\ g \in Nat
      BY <1>1, <2>1, NumbersOf DEF Keys
    <3> QED
      BY <2>1, <2>4, <3>2, <3>3
  <2> QED
    BY <1>3, <1>4, <2>3, <2>4
<1> QED
  BY <1>5, <1>6

\* Every step of the protocol is a step of the promise, or none.
LEMMA StepsPromise ==
    ASSUME IInv, IInv', Cutover, Cutover', Untroubled', [Next]_vars
    PROVE  \/ UNCHANGED <<Served(desired), conf, Up, used["early"]>>
           \/ /\ UNCHANGED <<Served(desired), conf, used["early"]>>
              /\ \E a \in Attempts \ Up : Up' = Up \cup {a}
           \/ /\ UNCHANGED <<Served(desired), conf, used["early"]>>
              /\ \E a \in Up \ {conf, Served(desired)} : Up' = Up \ {a}
           \/ /\ UNCHANGED <<Served(desired), conf>>
              /\ conf # Served(desired) /\ used'["early"] = used["early"] + 1
              /\ Up' = Up \/ \E a \in Up \ {Served(desired)} : Up' = Up \ {a}
           \/ /\ UNCHANGED <<conf, Up, used["early"]>>
              /\ Served(desired)' \in Up /\ Served(desired)' > Served(desired)
           \/ /\ UNCHANGED <<Served(desired), Up, used["early"]>>
              /\ conf' = Served(desired) /\ conf' \in Up /\ conf' > conf
<1>1. TypeOK /\ Alone /\ Alone' /\ assign' = assign /\ (Prompt' => Prompt)
  <2>1. {"early"} \in SUBSET Kinds
    BY DEF Kinds
  <2> QED
    BY <2>1, AloneStays, NeverBefore DEF IInv, Cutover, LeaderPart, Prompt
<1>2. ASSUME NEW n \in Nodes, NEW g \in timers[n], DrainFires(n, g)
      PROVE  /\ UNCHANGED <<Served(desired), conf>>
             /\ Up' = Up \/ \E a \in Up \ {Served(desired)} : Up' = Up \ {a}
             /\ IF conf = Served(desired) THEN used'["early"] = used["early"]
                ELSE used'["early"] = used["early"] + 1
  BY <1>1, <1>2, DrainPromises
<1>3. CASE \E n \in Nodes : Drain(n)
  <2>1. \E n \in Nodes : \E g \in timers[n] : DrainFires(n, g)
    BY <1>3 DEF Drain
  <2>2. CASE conf = Served(desired)
    BY <1>2, <2>1, <2>2
  <2>3. CASE conf # Served(desired)
    BY <1>2, <2>1, <2>3
  <2> QED
    BY <2>2, <2>3
<1>4. CASE \A n \in Nodes : ~Drain(n)
  <2>1. UNCHANGED used["early"]
    BY <1>1, <1>4, EarlyIsCounted
  <2>2. CASE UNCHANGED <<Served(desired), conf, stacks>>
    <3>1. Up' = Up
      BY <1>1, <2>2, SameUp
    <3> QED
      BY <2>1, <2>2, <3>1
  <2>3. CASE Propose
    <3>1. UNCHANGED <<conf, stacks>>
      BY <2>3 DEF Propose, nodeVars
    <3>2. Served(desired)' = Served(desired)
      BY <2>3, ProposingKeepsServed DEF Served
    <3> QED
      BY <2>2, <3>1, <3>2
  <2>4. ASSUME NEW m \in readyMsgs, PromoteDeployment(m)
        PROVE  \/ UNCHANGED <<Served(desired), conf, stacks>>
               \/ /\ UNCHANGED <<conf, Up>>
                  /\ Served(desired)' \in Up /\ Served(desired)' > Served(desired)
    <3>1. UNCHANGED <<conf, stacks>>
      BY <2>4 DEF PromoteDeployment, nodeVars
    <3>2. Up' = Up
      BY <1>1, <3>1, SameUp
    <3>3. Served(desired)' = Served(desired')
      BY DEF Served
    <3>4. CASE Served(desired') \in Attempts /\ Served(desired') > Served(desired)
      <4>1. Served(desired)' # NoAttempt => stacks'[assign'][desired'.act] = Served(desired)'
                                            /\ desired'.act \in Keys
        BY ServedIsAfter
      <4>2. Served(desired)' \in {a \in Attempts : \E k \in Keys : stacks[assign][k] = a}
        BY <1>1, <3>1, <3>3, <3>4, <4>1
      <4> QED
        BY <1>1, <3>1, <3>2, <3>3, <3>4, <4>2, UpHere
    <3> QED
      BY <2>4, <3>1, <3>2, <3>3, <3>4, PromotionPromises
  <2>5. CASE LeaderRestart \/ \E n \in Nodes : NodeRestart(n)
    <3>1. UNCHANGED <<desired, conf, stacks>>
      BY <2>5 DEF LeaderRestart, NodeRestart, leaderVars
    <3> QED
      BY <2>2, <3>1 DEF Served
  <2>6. CASE Render
    <3>1. conf' \in Attempts /\ conf < conf' /\ genOf[conf'] \in Keys
          /\ stacks[assign][genOf[conf']] = conf'
      BY <1>1, <2>6, RenderKeepsHost
    <3>2. conf' \in Up
      BY <1>1, <3>1, UpHere
    <3>3. UNCHANGED <<desired, stacks>> /\ conf' = Served(desired)
      BY <2>6 DEF Render, nodeVars
    <3>4. Up' = Up /\ Served(desired)' = Served(desired)
      BY <1>1, <3>3, SameUp DEF Served
    <3>5. conf' > conf
      BY <1>1, <3>1 DEF TypeOK
    <3> QED
      BY <2>1, <3>2, <3>3, <3>4, <3>5
  <2>7. ASSUME NEW n \in Nodes, NodeStep(n)
        PROVE  /\ UNCHANGED <<Served(desired), conf>>
               /\ \/ Up' = Up
                  \/ \E a \in Attempts \ Up : Up' = Up \cup {a}
                  \/ \E a \in Up \ {conf, Served(desired)} : Up' = Up \ {a}
    BY <1>1, <2>7, TickPromises, TickReadsRow DEF Served
  <2>8. CASE UNCHANGED <<desired, conf, stacks>>
    BY <2>2, <2>8 DEF Served
  <2> QED
    BY <1>4, <2>1, <2>2, <2>3, <2>4, <2>5, <2>6, <2>7, <2>8, CutoverSteps DEF Drain
<1> QED
  BY <1>3, <1>4

\* The blue-green protocol implements the promise of TrafficCutover: whatever fails, is
\* killed, restarts, times out or is lost, traffic is only ever switched to the newer
\* attempt that is active and runs, the active attempt is never taken down, and the one
\* that is served only by a drain that came before the nginx pass, when only
\* zero-downtime deployments are asked for.
THEOREM DeploymentsKeepThePromise == OnlyDeployments => (Spec => ImplementsCutover)
<1> SUFFICES ASSUME OnlyDeployments PROVE Spec => ImplementsCutover
  OBVIOUS
<1>1. Init => Promise!Init
  <2>1. Init => Up = {}
    BY DEF Init, Up, Running, EmptyStacks
  <2>2. Init => Served(desired) = NoAttempt /\ used["early"] = 0
    BY DEF Init, Served, Kinds
  <2> QED
    BY <2>1, <2>2 DEF Init, Up, Promise!Init, Promise!None
<1>2. IInv /\ IInv' /\ Cutover /\ Cutover' /\ Untroubled' /\ [Next]_vars
        => [Promise!Next]_<<Served(desired), conf, {a \in Attempts : Running(a)}, used["early"]>>
  <2> SUFFICES ASSUME IInv, IInv', Cutover, Cutover', Untroubled', [Next]_vars
               PROVE  [Promise!Next]_<<Served(desired), conf, {a \in Attempts : Running(a)},
                                       used["early"]>>
    OBVIOUS
  <2>1. \/ UNCHANGED <<Served(desired), conf, Up, used["early"]>>
        \/ /\ UNCHANGED <<Served(desired), conf, used["early"]>>
           /\ \E a \in Attempts \ Up : Up' = Up \cup {a}
        \/ /\ UNCHANGED <<Served(desired), conf>>
           /\ \E gone \in SUBSET (Up \ {Served(desired)}) :
                 /\ Up' = Up \ gone
                 /\ \/ conf \notin gone /\ UNCHANGED used["early"]
                    \/ conf # Served(desired) /\ used'["early"] = used["early"] + 1
        \/ /\ UNCHANGED <<conf, Up, used["early"]>>
           /\ Served(desired)' \in Up /\ Served(desired)' > Served(desired)
        \/ /\ UNCHANGED <<Served(desired), Up, used["early"]>>
           /\ conf' = Served(desired) /\ conf' \in Up /\ conf' > conf
    <3>1. ASSUME NEW a \in Up \ {conf, Served(desired)}, Up' = Up \ {a}
          PROVE  \E gone \in SUBSET (Up \ {Served(desired)}) : Up' = Up \ gone /\ conf \notin gone
      BY <3>1
    <3>2. ASSUME Up' = Up \/ \E a \in Up \ {Served(desired)} : Up' = Up \ {a}
          PROVE  \E gone \in SUBSET (Up \ {Served(desired)}) : Up' = Up \ gone
      BY <3>2
    <3> QED
      BY <3>1, <3>2, StepsPromise
  <2> QED
    BY <2>1 DEF Up, Promise!Next, Promise!BringUp, Promise!TakeDown, Promise!Promote,
                Promise!Switch
<1> QED
  BY <1>1, <1>2, CutoverInvariance, UntroubledAlways, Invariance, PTL
     DEF Spec, ImplementsCutover, Promise!Spec, Promise!vars

===============================================================================
