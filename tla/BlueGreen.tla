------------------------------ MODULE BlueGreen ------------------------------
(***************************************************************************)
(* The life of one project's deployments: the leader plans an attempt and  *)
(* writes it into its `desired' row, the owning node's reconcile loop      *)
(* brings the generation up beside the old one, gates it on readiness and  *)
(* announces it, the leader promotes it, nginx flips, and the node drains  *)
(* the generations it no longer needs.  Cancel, teardown, reassignment,    *)
(* restarts of either side, lost reports and failing builds interleave     *)
(* with all of that.                                                       *)
(*                                                                         *)
(* An attempt (a ProjectInstance, the deployment's logId) is a number, in  *)
(* the order of creation; it also names the compose file, the allocated    *)
(* ports and the nginx conf rendered for it.  Generation 0 of a node's     *)
(* `stacks' is the bare compose project of the in-place path; generation g *)
(* is the compose project <projectId>-g<g>.                                *)
(***************************************************************************)
EXTENDS GenMarkers, FiniteSets

CONSTANTS
    Nodes,          \* hosts that can own the project
    Leader,         \* the host that is the leader too, or a value outside Nodes
    MaxAttempts,    \* bound: deployments ever started
    Budgets         \* bound: each is how often events of each kind may happen

\* `early': a drain fires before the leader's nginx pass; `stuck': docker compose down
\* fails or runs out of time; `killed': docker compose up does
Kinds == {"deploy", "inplace", "fail", "crash", "restart", "loss", "timeout", "race",
          "cancel", "teardown", "reassign", "late", "early", "stuck", "killed"}

ASSUME MaxAttemptsAssumption == MaxAttempts \in Nat \ {0}
ASSUME BudgetAssumption == Budgets \subseteq [Kinds -> Nat]
ASSUME NodesAssumption == Nodes # {} /\ IsFiniteSet(Nodes)

Attempts == 1..MaxAttempts
Gens == 1..MaxAttempts          \* a generation is at most the number of attempts
NoAttempt == 0

VARIABLES
    \* leader, persisted
    desired,    \* the DesiredDeployment row, or NoDesired
    row,        \* attempt -> its ProjectInstance row [state, active]
    assign,     \* project.workerNodeId
    conf,       \* the attempt whose nginx conf is installed, or NoAttempt
    \* leader, in memory
    slot,       \* the deploy queue's active entry: [log, pc, done, proposal]
    flagged,    \* canceledInstances
    canceler,   \* progress of a cancelDeploy call
    tearer,     \* progress of a teardownProjectWithCleanup call
    attempts,   \* attempts created so far
    where,      \* attempt -> node it was planned on
    genOf,      \* attempt -> generation it was proposed as
    askedUpTo,  \* auxiliary: the attempts that existed at the last cancel request
    \* nodes: disk and docker
    marker, stacks,
    left,       \* auxiliary: where a docker compose down has left containers behind
    \* nodes, in memory
    job,        \* the reconcile tick in progress: [pc, dep, canceled]
    timers,     \* drainScheduled
    cflag,      \* canceledDeployProjects
    \* network
    readyMsgs,  \* /cluster/deploy-ready posts under way
    purges,     \* /node/teardown-project posts being executed
    used        \* how often an event of each kind has happened

leaderVars == <<desired, row, assign, conf, slot, flagged, canceler, tearer,
                attempts, where, genOf, askedUpTo>>
nodeVars == <<marker, stacks, left, job, timers, cflag>>
vars == <<leaderVars, nodeVars, readyMsgs, purges, used>>

-----------------------------------------------------------------------------
NoDesired == [gen |-> 0]

Desired == [gen : Gens, node : Nodes, log : Attempts, zd : BOOLEAN,
            conf : Attempts, act : Gens \cup {NoGen},
            actConf : Attempts \cup {NoAttempt}]

NoSlot == [pc |-> "free"]
Slot == [pc : {"plan", "write", "await"}, log : Attempts, zd : BOOLEAN,
         done : BOOLEAN, proposal : Desired \cup {NoDesired}]

States == {"NEW", "DEPLOYING", "DEPLOYED", "FAILED", "CANCELLED", "DESTROYED"}
Terminal == {"DEPLOYED", "FAILED", "CANCELLED", "DESTROYED"}
Row == [state : States, active : BOOLEAN]

NoCall == [pc |-> "idle"]
Call == [pc : {"desired", "node", "rows"}, planning : BOOLEAN]

NoJob == [pc |-> "idle"]
Job == [pc : {"build", "live", "gate", "ready", "announce", "undo", "report"},
        dep : Desired, canceled : BOOLEAN]

\* compose project an attempt of a deployment runs under (composeProjectName)
Key(d) == IF d.zd THEN d.gen ELSE 0
Keys == {0} \cup Gens

Stacks == [Keys -> Attempts \cup {NoAttempt}]
EmptyStacks == [k \in Keys |-> NoAttempt]

Running(a) == \E k \in Keys : stacks[where[a]][k] = a

\* mutant: falls back to the pending conf of a zero-downtime deployment
Served_Eager(d) == IF d = NoDesired THEN NoAttempt
                   ELSE IF d.actConf # NoAttempt THEN d.actConf ELSE d.conf

\* what nginx should route to (serveConf in renderAllNginx)
Served(d) == IF d = NoDesired THEN NoAttempt
             ELSE IF d.zd \/ d.actConf # NoAttempt THEN d.actConf ELSE d.conf

Uses(kinds) ==
    /\ used' = [k \in Kinds |-> used[k] + (IF k \in kinds THEN 1 ELSE 0)]
    /\ \E b \in Budgets : \A k \in Kinds : used'[k] <= b[k]
Spend(k) == Uses({k})
Never(kinds) == \A k \in kinds : used[k] = 0

\* docker compose down of the compose projects in keys on node n, in a step that counts
\* as kinds.  One that exits with an error, or is killed at the end of its three minutes,
\* leaves containers behind: that is logged, and the caller goes on as if it had not.
Down(n, keys, kinds) ==
    \E stuck \in SUBSET {k \in keys : stacks[n][k] # NoAttempt} :
        /\ stacks' = [stacks EXCEPT ![n] =
                        [k \in Keys |-> IF k \in keys \ stuck THEN NoAttempt ELSE stacks[n][k]]]
        /\ left' = (left \ ({n} \X keys)) \cup ({n} \X stuck)
        /\ Uses(kinds \cup (IF stuck = {} THEN {} ELSE {"stuck"}))

-----------------------------------------------------------------------------
(* updateDeploymentLog: the row takes whatever state is reported; entering *)
(* a failed state clears `active'; entering a terminal one from another    *)
(* state resolves the queue's completion waiter.                           *)
Logged(r, s) ==
    [state |-> s,
     active |-> r.active /\ ~(r.state # s /\ s \in {"FAILED", "CANCELLED", "DESTROYED"})]

\* the queue moves on once the active entry's waiter is resolved AND
\* deployProject has returned
Notified(sl, r, a, s) ==
    IF sl = NoSlot \/ s \notin Terminal \/ r[a].state = s THEN sl
    ELSE IF sl.log # a THEN sl
    ELSE IF sl.pc = "await" THEN NoSlot
    ELSE [sl EXCEPT !.done = TRUE]

Report(a, s) ==
    /\ row' = [row EXCEPT ![a] = Logged(@, s)]
    /\ slot' = Notified(slot, row, a, s)

\* node n's report of its attempt reaches the leader, or is lost (postToLeader:
\* no retry); a leader reporting to itself calls updateDeploymentLog directly
ReportOrLose(n, a, s) ==
    \/ Report(a, s) /\ UNCHANGED used
    \/ n # Leader /\ Spend("loss") /\ UNCHANGED <<row, slot>>

\* a deployProject that ends without proposing: its waiter is resolved by then
Release(a, s) ==
    /\ row' = [row EXCEPT ![a] = Logged(@, s)]
    /\ slot' = NoSlot

-----------------------------------------------------------------------------
(* Leader: planning and proposing (deployProject).                         *)

StartDeploy(zd) ==
    /\ slot = NoSlot
    /\ attempts < MaxAttempts
    /\ Uses(IF zd THEN {"deploy"} ELSE {"deploy", "inplace"})
    /\ LET a == attempts + 1 IN
         /\ attempts' = a
         /\ row' = [row EXCEPT ![a] = [state |-> "DEPLOYING", active |-> TRUE]]
         /\ where' = [where EXCEPT ![a] = assign]
         /\ slot' = [pc |-> "plan", log |-> a, zd |-> zd, done |-> FALSE,
                     proposal |-> NoDesired]
    /\ UNCHANGED <<desired, assign, conf, flagged, canceler, tearer, genOf, askedUpTo,
                   nodeVars, readyMsgs, purges>>

\* mutant: the generation is not bumped
NextGen_Same(prev) == prev.gen

NextGen(prev) == prev.gen + 1

\* the active fields a new deployment inherits
Active(prev) == IF prev = NoDesired THEN [act |-> NoGen, actConf |-> NoAttempt]
                ELSE [act |-> prev.act, actConf |-> prev.actConf]

Proposal(prev, a, zd) ==
    LET g == NextGen(prev)
        old == Active(prev)
    IN  [gen |-> g, node |-> where[a], log |-> a, zd |-> zd, conf |-> a,
         act |-> IF zd THEN old.act ELSE g,
         actConf |-> IF zd THEN old.actConf ELSE a]

Plan ==
    /\ slot.pc = "plan"
    /\ IF slot.log \in flagged
       THEN /\ flagged' = flagged \ {slot.log}
            /\ Release(slot.log, "CANCELLED")
       ELSE /\ slot' = [slot EXCEPT !.pc = "write",
                                    !.proposal = Proposal(desired, slot.log, slot.zd)]
            /\ UNCHANGED <<flagged, row>>
    /\ UNCHANGED <<desired, assign, conf, canceler, tearer, attempts, where, genOf, askedUpTo,
                   nodeVars, readyMsgs, purges, used>>

PlanFails ==
    /\ slot.pc = "plan"
    /\ Spend("fail")
    /\ Release(slot.log, "FAILED")
    /\ UNCHANGED <<desired, assign, conf, flagged, canceler, tearer, attempts,
                   where, genOf, askedUpTo, nodeVars, readyMsgs, purges>>

Propose ==
    /\ slot.pc = "write"
    /\ desired' = slot.proposal
    /\ genOf' = [genOf EXCEPT ![slot.log] = slot.proposal.gen]
    /\ slot' = IF slot.done THEN NoSlot
               ELSE [slot EXCEPT !.pc = "await", !.proposal = NoDesired]
    /\ UNCHANGED <<row, assign, conf, flagged, canceler, tearer, attempts, where,
                   askedUpTo, nodeVars, readyMsgs, purges, used>>

\* waitForDeployCompletion gives up; the row and the node are used alone
QueueTimeout ==
    /\ slot # NoSlot /\ ~slot.done
    /\ Spend("timeout")
    /\ slot' = IF slot.pc = "await" THEN NoSlot ELSE [slot EXCEPT !.done = TRUE]
    /\ UNCHANGED <<desired, row, assign, conf, flagged, canceler, tearer, attempts,
                   where, genOf, askedUpTo, nodeVars, readyMsgs, purges>>

\* another handler gets in between deployProject's read of the row and its write
Quiet == slot.pc # "write"
Interleaved == IF Quiet THEN UNCHANGED used ELSE Spend("race")

(* Leader: promotion (promoteDeployment) and the nginx pass.               *)

\* mutant: any announcement promotes
IsCurrent_Any(m) == desired # NoDesired

IsCurrent(m) == desired.gen = m.gen

PromoteDeployment(m) ==
    /\ m \in readyMsgs
    /\ readyMsgs' = readyMsgs \ {m}
    /\ IF IsCurrent(m)
       THEN /\ desired' = [desired EXCEPT !.act = m.gen,
                             !.actConf = IF desired.act = m.gen THEN @ ELSE desired.conf]
            /\ row' = [a \in Attempts |->
                         IF a # desired.log THEN [row[a] EXCEPT !.active = FALSE] ELSE row[a]]
       ELSE UNCHANGED <<desired, row>>
    /\ Interleaved
    /\ UNCHANGED <<assign, conf, slot, flagged, canceler, tearer, attempts, where,
                   genOf, askedUpTo, nodeVars, purges>>

LoseReady(m) ==
    /\ m \in readyMsgs
    /\ m.node # Leader
    /\ readyMsgs' = readyMsgs \ {m}
    /\ Spend("loss")
    /\ UNCHANGED <<leaderVars, nodeVars, purges>>

Render ==
    /\ conf # Served(desired)
    /\ conf' = Served(desired)
    /\ UNCHANGED <<desired, row, assign, slot, flagged, canceler, tearer, attempts,
                   where, genOf, askedUpTo, nodeVars, readyMsgs, purges, used>>

(* Leader: cancelDeploy, one step per await that matters.                  *)

\* cancelQueuedDeploy finds the slot taken ('planning', also while the node is
\* building, for the slot is only freed at the end) or free ('none')
CancelRequest ==
    /\ canceler = NoCall
    /\ Spend("cancel")
    /\ canceler' = [pc |-> "desired", planning |-> slot # NoSlot]
    /\ flagged' = IF slot = NoSlot THEN flagged ELSE flagged \cup {slot.log}
    /\ askedUpTo' = attempts
    /\ UNCHANGED <<desired, row, assign, conf, slot, tearer, attempts, where, genOf,
                   nodeVars, readyMsgs, purges>>

Pending(d) == d # NoDesired /\ d.act # NoGen /\ d.gen > d.act

\* mutant: the conf of the cancelled generation stays
RolledBack_KeepsConf(d) == [d EXCEPT !.gen = d.act]

\* only the generation and the conf go back: log, compose and ports stay
RolledBack(d) ==
    [d EXCEPT !.gen = d.act,
              !.conf = IF d.actConf = NoAttempt THEN d.conf ELSE d.actConf]

CancelDesired ==
    /\ canceler.pc = "desired"
    /\ desired' = IF Pending(desired) THEN RolledBack(desired)
                  ELSE IF canceler.planning THEN desired ELSE NoDesired
    /\ canceler' = [canceler EXCEPT !.pc = "node"]
    /\ Interleaved
    /\ UNCHANGED <<row, assign, conf, slot, flagged, tearer, attempts, where, genOf,
                   askedUpTo, nodeVars, readyMsgs, purges>>

\* cancelLocalDeployment on the assigned node; the flag is set whether or not
\* anything is being applied there
CancelNode ==
    /\ canceler.pc = "node"
    /\ \/ cflag' = [cflag EXCEPT ![assign] = TRUE] /\ UNCHANGED used
       \/ assign # Leader /\ Spend("loss") /\ UNCHANGED cflag
    /\ canceler' = [canceler EXCEPT !.pc = "rows"]
    /\ UNCHANGED <<desired, row, assign, conf, slot, flagged, tearer, attempts, where,
                   genOf, askedUpTo, marker, stacks, left, job, timers, readyMsgs, purges>>

CancelRows ==
    /\ canceler.pc = "rows"
    /\ LET hit == {a \in Attempts : row[a].active /\ row[a].state = "DEPLOYING"} IN
         /\ row' = [a \in Attempts |->
                      IF a \in hit THEN Logged(row[a], "CANCELLED") ELSE row[a]]
         /\ slot' = IF slot # NoSlot /\ slot.log \in hit
                    THEN Notified(slot, row, slot.log, "CANCELLED") ELSE slot
    /\ canceler' = NoCall
    /\ UNCHANGED <<desired, assign, conf, flagged, tearer, attempts, where, genOf,
                   askedUpTo, nodeVars, readyMsgs, purges, used>>

(* Leader: teardownProjectWithCleanup, setProjectAssignment, restart.      *)

\* the node's teardown is awaited only when that node is the leader itself;
\* a follower answers first and tears down afterwards, if it can be reached
TeardownNode ==
    /\ tearer = "idle"
    /\ tearer' = "clear"
    /\ IF assign = Leader
       THEN Down(assign, Keys, {"teardown"}) /\ UNCHANGED purges
       ELSE /\ Spend("teardown")
            /\ \E told \in SUBSET {assign} : purges' = purges \cup told
            /\ UNCHANGED <<stacks, left>>
    /\ UNCHANGED <<desired, row, assign, conf, slot, flagged, canceler, attempts, where,
                   genOf, askedUpTo, marker, job, timers, cflag, readyMsgs>>

\* teardownProject: no completion waiter is told
TeardownClear ==
    /\ tearer = "clear"
    /\ tearer' = "render"
    /\ desired' = NoDesired
    /\ row' = [a \in Attempts |->
                 IF row[a].active THEN [state |-> "DESTROYED", active |-> FALSE] ELSE row[a]]
    /\ Interleaved
    /\ UNCHANGED <<assign, conf, slot, flagged, canceler, attempts, where, genOf,
                   askedUpTo, nodeVars, readyMsgs, purges>>

TeardownRender ==
    /\ tearer = "render"
    /\ tearer' = "idle"
    /\ conf' = Served(desired)
    /\ UNCHANGED <<desired, row, assign, slot, flagged, canceler, attempts, where, genOf,
                   askedUpTo, nodeVars, readyMsgs, purges, used>>

setProjectAssignment(n) ==
    /\ n # assign
    /\ Spend("reassign")
    /\ assign' = n
    /\ UNCHANGED <<desired, row, conf, slot, flagged, canceler, tearer, attempts, where,
                   genOf, askedUpTo, nodeVars, readyMsgs, purges>>

\* what a daemon forgets on host n when its process ends
Forget(n) ==
    /\ job' = [job EXCEPT ![n] = NoJob]
    /\ timers' = [timers EXCEPT ![n] = {}]
    /\ cflag' = [cflag EXCEPT ![n] = FALSE]
    /\ purges' = purges \ {n}

\* the in-memory queue entry is gone; a DEPLOYING row is not recovered
LeaderRestart ==
    /\ Spend("restart")
    /\ slot' = NoSlot
    /\ flagged' = {}
    /\ canceler' = NoCall
    /\ tearer' = "idle"
    /\ readyMsgs' = {}
    /\ IF Leader \in Nodes THEN Forget(Leader) ELSE UNCHANGED <<job, timers, cflag, purges>>
    /\ UNCHANGED <<desired, row, assign, conf, attempts, where, genOf, askedUpTo,
                   marker, stacks, left>>

-----------------------------------------------------------------------------
(* Node: one reconcile tick at a time (reconcileTick, applyDeployment).    *)

Assigned(n) == desired # NoDesired /\ desired.node = n

\* mutant: a generation that came up but never got ready is not retried
Drift_Deployed(n) == readMarker(marker[n]).deployed # desired.gen

Drift(n) == LET m == readMarker(marker[n]) IN
    IF desired.zd THEN m.ready # desired.gen ELSE m.deployed # desired.gen

\* mutants: the active generation is drained too, or its predecessor is not
Drains_Eager(n, d) == {g \in readMarker(marker[n]).live : d.zd /\ g <= d.act}
Drains_Late(n, d) == {g \in readMarker(marker[n]).live : d.zd /\ g < d.act - 1}

\* scheduleDrain: every live generation older than the active one
Drains(n, d) == {g \in readMarker(marker[n]).live : d.zd /\ g < d.act}

StartApply(n) ==
    /\ job[n] = NoJob
    /\ Assigned(n) /\ Drift(n)
    /\ job' = [job EXCEPT ![n] = [pc |-> "build", dep |-> desired, canceled |-> FALSE]]
    /\ ReportOrLose(n, desired.log, "DEPLOYING")
    /\ UNCHANGED <<desired, assign, conf, flagged, canceler, tearer, attempts, where,
                   genOf, askedUpTo, marker, stacks, left, timers, cflag, readyMsgs, purges>>

ScheduleDrain(n) ==
    /\ job[n] = NoJob
    /\ Assigned(n) /\ ~Drift(n)
    /\ ~(Drains(n, desired) \subseteq timers[n])
    /\ timers' = [timers EXCEPT ![n] = @ \cup Drains(n, desired)]
    /\ UNCHANGED <<leaderVars, marker, stacks, left, job, cflag, readyMsgs, purges, used>>

\* mutant: only the bare compose project is taken down
SweptKeys_BareOnly == {0}

\* teardownProjectLocally takes down every compose project of the project
SweptKeys == Keys

\* part B of the tick: the project is not assigned here any more
Sweep(n) ==
    /\ job[n] = NoJob
    /\ ~Assigned(n)
    /\ marker[n] # NoFile
    /\ Down(n, SweptKeys, {})
    /\ marker' = [marker EXCEPT ![n] = NoFile]
    /\ UNCHANGED <<leaderVars, job, timers, cflag, readyMsgs, purges>>

\* a line of build output or of the readiness gate: posted with the state DEPLOYING
\* and not waited for, it may reach the leader after a later report
Progress(n) ==
    /\ job[n] # NoJob
    /\ IF job[n].pc \in {"build", "gate"} THEN UNCHANGED used ELSE Spend("late")
    /\ Report(job[n].dep.log, "DEPLOYING")
    /\ UNCHANGED <<desired, assign, conf, flagged, canceler, tearer, attempts, where,
                   genOf, askedUpTo, nodeVars, readyMsgs, purges>>

At(n, pc) == job[n].pc = pc
Dep(n) == job[n].dep
Goto(n, pc) == job' = [job EXCEPT ![n].pc = pc]

\* clone and docker compose up.  A build killed by a cancel, or at the end of its
\* time, ends with exit code null, which execStream turns into 0: the tick goes on as
\* if it had succeeded, with whatever containers compose had got to
Build(n) ==
    /\ At(n, "build")
    /\ LET d == Dep(n)
           k == Key(d)
       IN /\ \/ stacks' = [stacks EXCEPT ![n][k] = d.log] /\ UNCHANGED used
             \/ \E s \in {stacks[n][k], NoAttempt} :
                  /\ stacks' = [stacks EXCEPT ![n][k] = s]
                  /\ IF cflag[n] THEN UNCHANGED used ELSE Spend("killed")
          /\ left' = left \ {<<n, k>>}
    /\ Goto(n, "live")
    /\ UNCHANGED <<leaderVars, marker, timers, cflag, readyMsgs, purges>>

Abandon(n) == job' = [job EXCEPT ![n].pc = "undo", ![n].canceled = cflag[n]]

BuildFails(n) ==
    /\ At(n, "build")
    /\ Spend("fail")
    /\ Abandon(n)
    /\ UNCHANGED <<leaderVars, marker, stacks, left, timers, cflag, readyMsgs, purges>>

MarkLive(n) ==
    /\ At(n, "live") /\ Dep(n).zd
    /\ marker' = [marker EXCEPT ![n] = markGenerationLive(@, Dep(n).gen)]
    /\ Goto(n, "gate")
    /\ UNCHANGED <<leaderVars, stacks, left, timers, cflag, readyMsgs, purges, used>>

\* the end of applyDeployment and of the tick's turn for the project
Finish(n, m) ==
    /\ job' = [job EXCEPT ![n] = NoJob]
    /\ cflag' = [cflag EXCEPT ![n] = FALSE]
    /\ timers' = [timers EXCEPT ![n] =
                    @ \cup {g \in m.live : Dep(n).zd /\ g < Dep(n).act}]

InPlaceDone(n) ==
    /\ At(n, "live") /\ ~Dep(n).zd
    /\ marker' = [marker EXCEPT ![n] = setLocalGeneration(Dep(n).gen)]
    /\ ReportOrLose(n, Dep(n).log, "DEPLOYED")
    /\ Finish(n, marker'[n])
    /\ UNCHANGED <<desired, assign, conf, flagged, canceler, tearer, attempts, where,
                   genOf, askedUpTo, stacks, left, readyMsgs, purges>>

\* the containers of this very attempt answer on the ports allocated to it
Answers(n) == stacks[n][Dep(n).gen] = Dep(n).log

\* the flag is looked at before each port, so a cancel during the last poll is missed
GatePasses(n) ==
    /\ At(n, "gate") /\ Answers(n)
    /\ marker' = [marker EXCEPT ![n] = markGenerationReady(@, Dep(n).gen)]
    /\ Goto(n, "ready")
    /\ UNCHANGED <<leaderVars, stacks, left, timers, cflag, readyMsgs, purges, used>>

GateFails(n) ==
    /\ At(n, "gate")
    /\ IF cflag[n] \/ ~Answers(n) THEN UNCHANGED used ELSE Spend("fail")
    /\ Abandon(n)
    /\ UNCHANGED <<leaderVars, marker, stacks, left, timers, cflag, readyMsgs, purges>>

ReportDeployed(n) ==
    /\ At(n, "ready")
    /\ ReportOrLose(n, Dep(n).log, "DEPLOYED")
    /\ Goto(n, "announce")
    /\ UNCHANGED <<desired, assign, conf, flagged, canceler, tearer, attempts, where,
                   genOf, askedUpTo, marker, stacks, left, timers, cflag, readyMsgs, purges>>

\* reportDeployReady: posted once, never repeated
Announce(n) ==
    /\ At(n, "announce")
    /\ readyMsgs' = readyMsgs \cup {[gen |-> Dep(n).gen, node |-> n]}
    /\ Finish(n, readMarker(marker[n]))
    /\ UNCHANGED <<leaderVars, marker, stacks, left, purges, used>>

\* the broken stack is torn down before the failure is reported
Undo(n) ==
    /\ At(n, "undo")
    /\ Down(n, {Key(Dep(n))}, {})
    /\ marker' = IF Dep(n).zd
                 THEN [marker EXCEPT ![n] = removeLiveGeneration(@, Dep(n).gen)]
                 ELSE marker
    /\ Goto(n, "report")
    /\ UNCHANGED <<leaderVars, timers, cflag, readyMsgs, purges>>

ReportFailure(n) ==
    /\ At(n, "report")
    /\ ReportOrLose(n, Dep(n).log, IF job[n].canceled THEN "CANCELLED" ELSE "FAILED")
    /\ Finish(n, readMarker(marker[n]))
    /\ UNCHANGED <<desired, assign, conf, flagged, canceler, tearer, attempts, where,
                   genOf, askedUpTo, marker, stacks, left, readyMsgs, purges>>

\* the timer waits for nothing but its grace period: it may fire before the leader's
\* nginx pass, which comes at the end of a tick that has builds to wait for
DrainFires(n, g) ==
    /\ g \in timers[n]
    /\ Down(n, {g}, IF conf = Served(desired) THEN {} ELSE {"early"})
    /\ marker' = [marker EXCEPT ![n] = removeLiveGeneration(@, g)]
    /\ timers' = [timers EXCEPT ![n] = @ \ {g}]
    /\ UNCHANGED <<leaderVars, job, cflag, readyMsgs, purges>>

\* the follower's teardown, run after it has answered the leader
Purge(n) ==
    /\ n \in purges
    /\ purges' = purges \ {n}
    /\ Down(n, Keys, {})
    /\ UNCHANGED <<leaderVars, marker, job, timers, cflag, readyMsgs>>

NodeRestart(n) ==
    /\ n # Leader
    /\ Spend("crash")
    /\ Forget(n)
    /\ UNCHANGED <<leaderVars, marker, stacks, left, readyMsgs>>

-----------------------------------------------------------------------------
Init ==
    /\ desired = NoDesired
    /\ row = [a \in Attempts |-> [state |-> "NEW", active |-> FALSE]]
    /\ assign \in Nodes
    /\ conf = NoAttempt
    /\ slot = NoSlot
    /\ flagged = {}
    /\ canceler = NoCall
    /\ tearer = "idle"
    /\ attempts = 0
    /\ where = [a \in Attempts |-> assign]
    /\ genOf = [a \in Attempts |-> NoGen]
    /\ askedUpTo = 0
    /\ marker = [n \in Nodes |-> NoFile]
    /\ stacks = [n \in Nodes |-> EmptyStacks]
    /\ left = {}
    /\ job = [n \in Nodes |-> NoJob]
    /\ timers = [n \in Nodes |-> {}]
    /\ cflag = [n \in Nodes |-> FALSE]
    /\ readyMsgs = {}
    /\ purges = {}
    /\ used = [k \in Kinds |-> 0]

Deploys == (\E zd \in BOOLEAN : StartDeploy(zd)) \/ Plan \/ PlanFails \/ Propose \/ QueueTimeout
Cutovers == (\E m \in readyMsgs : PromoteDeployment(m) \/ LoseReady(m)) \/ Render
Cancels == CancelRequest \/ CancelDesired \/ CancelNode \/ CancelRows
Teardowns == TeardownNode \/ TeardownClear \/ TeardownRender
NodeStep(n) ==
    \/ StartApply(n) \/ Build(n) \/ BuildFails(n) \/ MarkLive(n) \/ InPlaceDone(n)
    \/ GatePasses(n) \/ GateFails(n) \/ ReportDeployed(n) \/ Announce(n)
    \/ Undo(n) \/ ReportFailure(n) \/ ScheduleDrain(n) \/ Sweep(n)
Drain(n) == \E g \in timers[n] : DrainFires(n, g)

Next ==
    \/ Deploys \/ Cutovers \/ Cancels \/ Teardowns \/ LeaderRestart
    \/ \E n \in Nodes : NodeStep(n) \/ Progress(n) \/ Drain(n) \/ Purge(n) \/ NodeRestart(n)
                        \/ setProjectAssignment(n)

Spec == Init /\ [][Next]_vars

(* Fairness: the leader's process keeps running the handlers it has begun, *)
(* a posted message arrives or is lost, every daemon keeps ticking (its    *)
(* 5 s interval) and its timers fire.  Nobody has to start a deployment.   *)
Fairness ==
    /\ WF_vars(Plan) /\ WF_vars(Propose) /\ WF_vars(Render)
    /\ WF_vars(\E m \in readyMsgs : PromoteDeployment(m))
    /\ WF_vars(CancelDesired) /\ WF_vars(CancelNode) /\ WF_vars(CancelRows)
    /\ WF_vars(TeardownClear) /\ WF_vars(TeardownRender)
    /\ \A n \in Nodes : WF_vars(NodeStep(n)) /\ WF_vars(Drain(n)) /\ WF_vars(Purge(n))

FairSpec == Spec /\ Fairness

-----------------------------------------------------------------------------
(* Properties.                                                             *)

TypeOK ==
    /\ desired \in Desired \cup {NoDesired}
    /\ row \in [Attempts -> Row]
    /\ assign \in Nodes
    /\ conf \in Attempts \cup {NoAttempt}
    /\ slot \in Slot \cup {NoSlot}
    /\ flagged \subseteq Attempts
    /\ canceler \in Call \cup {NoCall}
    /\ tearer \in {"idle", "clear", "render"}
    /\ attempts \in 0..MaxAttempts
    /\ where \in [Attempts -> Nodes]
    /\ genOf \in [Attempts -> Gens \cup {NoGen}]
    /\ askedUpTo \in 0..MaxAttempts
    /\ marker \in [Nodes -> Marker(Gens) \cup {NoFile}]
    /\ stacks \in [Nodes -> Stacks]
    /\ left \subseteq Nodes \X Keys
    /\ job \in [Nodes -> Job \cup {NoJob}]
    /\ timers \in [Nodes -> SUBSET Gens]
    /\ cflag \in [Nodes -> BOOLEAN]
    /\ readyMsgs \subseteq [gen : Gens, node : Nodes]
    /\ purges \subseteq Nodes
    /\ used \in [Kinds -> Nat]

\* Deployments are zero-downtime ones and nothing but deployments is asked for; no
\* handler gets in between deployProject's read of the row and its write.
Untroubled == Never({"inplace", "race", "cancel", "teardown", "reassign"})

\* What the leader's next nginx pass points at is running.
ActiveIsUp == Served(desired) # NoAttempt => Running(Served(desired))

\* The zero-downtime promise (renderAllNginx against every teardown path), kept through
\* failing and killed builds, failing teardowns, restarts, timeouts, lost and late
\* reports: the nginx conf in force always points at running containers until a drain
\* fires before the nginx pass that should precede it; and even then the next pass
\* mends it, for what that one points at is always running.
ServedIsUp ==
    Untroubled =>
        /\ ActiveIsUp
        /\ Never({"early"}) /\ conf # NoAttempt => Running(conf)

\* That the conf in force points at running containers, without the exception: the
\* comment `leader promoted (activeGeneration advanced -> nginx flipped)' of the drain.
ServedIsAlwaysUp == conf # NoAttempt => Running(conf)

\* The pending and the active conf in the desired row belong to the generation
\* numbers stored beside them, through bump, promotion and rollback.
ConfMatchesGeneration ==
    desired # NoDesired =>
        /\ genOf[desired.conf] = desired.gen
        /\ desired.act # NoGen => genOf[desired.actConf] = desired.act
        /\ desired.act <= desired.gen

\* What nginx should serve changes to an attempt only when a node has announced
\* that attempt's generation ready (promoteDeployment is the only way), as long as
\* no attempt is deployed in place and no row is written over a newer one.
OnlyAnnouncedIsServed ==
    [][Never({"inplace", "race"})' /\ Served(desired)' \notin {Served(desired), NoAttempt} =>
         \E m \in readyMsgs : m.gen = genOf[Served(desired)']]_vars

\* Containers run only under generations that the node's marker lists as live, or
\* that the tick in progress is about to list or to undo: nothing leaks.
RunningIsAlwaysTracked ==
    \A n \in Nodes : \A k \in Keys :
        stacks[n][k] # NoAttempt =>
            \/ k \in readMarker(marker[n]).live
            \/ job[n].pc \in {"build", "live", "undo"} /\ Key(Dep(n)) = k

\* That is so until an attempt is deployed in place, or a daemon ends between docker
\* compose up and markGenerationLive, except for what a docker compose down has left
\* behind (the marker forgets it all the same).
RunningIsTracked ==
    Never({"inplace", "crash", "restart"}) =>
        \A n \in Nodes : \A k \in Keys :
            stacks[n][k] # NoAttempt =>
                \/ k \in readMarker(marker[n]).live
                \/ job[n].pc \in {"build", "live", "undo"} /\ Key(Dep(n)) = k
                \/ <<n, k>> \in left

\* The cancel flag a node consults when an attempt fails was raised for that
\* attempt, not left over from a cancel of an earlier one.
FlagHitsItsBuild ==
    \A n \in Nodes : job[n].pc \in {"undo", "report"} /\ job[n].canceled
                        => Dep(n).log <= askedUpTo

\* A tick builds the attempt (compose, allocated ports, log) for which the
\* nginx conf of the row was rendered, after a rollback too.
BuildMatchesConf ==
    [][\A n \in Nodes : job[n] = NoJob /\ job'[n] # NoJob => desired.log = desired.conf]_vars

\* An in-place build that was asked to cancel does not end as DEPLOYED.
CancelledBuildIsNotDeployed ==
    [][\A n \in Nodes :
         (At(n, "live") /\ ~Dep(n).zd /\ cflag[n] /\ job'[n] = NoJob)
            => row'[Dep(n).log].state # "DEPLOYED"]_vars

\* Cancelling never takes a finished, serving deployment out of the desired state.
CancelKeepsServing ==
    [][canceler.pc = "desired" /\ canceler' # canceler /\ desired # NoDesired
         /\ desired.act = desired.gen /\ row[desired.log].state = "DEPLOYED"
       => desired' # NoDesired]_vars

\* When teardownProject clears the row, the node has finished its teardown.
ClearedAfterTeardown ==
    [][tearer = "clear" /\ tearer' = "render" => assign \notin purges]_vars

\* something that was on its way to the leader may have been lost
Disturbed == ~Never({"loss", "crash", "restart"})

\* Every proposed generation is cut over to, unless something replaces it or a
\* report may have been lost: failed builds are retried until one is ready.
EveryGenerationCutsOver ==
    \A g \in Gens : (desired.gen = g) ~> (desired.gen # g \/ desired.act = g \/ Disturbed)

\* The same although a report is lost: a node repeats what the leader did not hear.
LostReportIsRepeated ==
    \A g \in Gens : (desired.gen = g) ~> (desired.gen # g \/ desired.act = g)

\* Superseded generations are drained from the node that serves the active one.
OldGenerationsDrained ==
    \A n \in Nodes : \A g \in Gens :
        (Assigned(n) /\ g \in readMarker(marker[n]).live /\ g < desired.act)
            ~> (~Assigned(n) \/ g \notin readMarker(marker[n]).live)

\* Containers of an attempt stop once a newer attempt is the one being served.
SupersededContainersStop ==
    \A a \in Attempts :
        (Running(a) /\ Served(desired) > a) ~> (~Running(a) \/ Served(desired) <= a)

\* Once nothing is desired, every container of the project goes away.
ClearedProjectStops ==
    (desired = NoDesired) ~>
        (desired # NoDesired \/ \A n \in Nodes : stacks[n] = EmptyStacks)

\* That is so of all but what a docker compose down has left behind, which nothing
\* tries to take down again.
ClearedProjectGoesAway ==
    (desired = NoDesired) ~>
        \/ desired # NoDesired
        \/ \A n \in Nodes : \A k \in Keys : stacks[n][k] # NoAttempt => <<n, k>> \in left

=============================================================================
