----------------------------- MODULE DeployQueue -----------------------------
(***************************************************************************)
(* The leader's serial deploy queue (controllers/deployQueue.ts) and the   *)
(* handlers that meet in it: enqueueDeploy, the drain loop around          *)
(* deployProject, cancelDeploy, teardown and deletion, the nodes' progress *)
(* reports, a crash of the leader and the recovery of the queue from the   *)
(* QUEUED rows.  A step is what runs between two awaits that matter.       *)
(*                                                                         *)
(* A ProjectInstance is a number, in the order of creation.  What a node   *)
(* does with a deployment is reduced to which attempt it is building and   *)
(* which one it announced last; every deployment is a zero-downtime one    *)
(* (module BlueGreen has the rest).                                        *)
(***************************************************************************)
EXTENDS Integers, FiniteSets, SequencesExt

CONSTANTS
    Projects,
    MaxInst,    \* bound: ProjectInstances ever created
    Budgets     \* bound: each is how often events of each kind may happen

Kinds == {"request", "timeout", "crash", "overlap", "cancel", "teardown"}

ASSUME ProjectsAssumption == Projects # {}
ASSUME MaxInstAssumption == MaxInst \in Nat \ {0}
ASSUME KindsAssumption == Budgets \subseteq [Kinds -> Nat]

Instances == 1..MaxInst
None == 0

VARIABLES
    queue,      \* the waiting entries
    active,     \* the entry being deployed, or None
    pc,         \* where drainQueue is; "off" when it is not running
    waiter,     \* waitForDeployCompletion for the active entry
    flagged,    \* canceledInstances
    fresh,      \* instances enqueueDeploy has created but not pushed yet
    row,        \* ProjectInstance rows [project, state, active]
    made,       \* instances created so far
    projects,   \* the projects that have not been deleted
    desired,    \* project -> [log, serving]: attempt desired, attempt promoted
    node,       \* project -> [building, ready, kill] on its node
    canceling,  \* project -> progress of a cancelDeploy call
    tearing,    \* project -> progress of a teardown or deletion
    up,         \* the leader process: down, recovered (not listening yet), up
    used        \* how often an event of each kind has happened

drainVars == <<queue, active, pc, flagged>>
callVars == <<canceling, tearing>>
vars == <<drainVars, waiter, fresh, row, made, projects, desired, node, callVars, up, used>>

Terminal == {"DEPLOYED", "FAILED", "CANCELLED", "DESTROYED"}
States == Terminal \cup {"QUEUED", "DEPLOYING", "DESTROYING"}

NoRow(p) == [project |-> p, state |-> "NONE", active |-> FALSE]
Exists(i) == row[i].state # "NONE"
Of(i) == row[i].project
Entries(p) == {k \in DOMAIN queue : Of(queue[k]) = p}

NoDesired == [log |-> None, serving |-> None]
Idle == [pc |-> "idle"]
Fresh == [building |-> None, ready |-> None, kill |-> FALSE]

Uses(kinds) ==
    /\ used' = [k \in Kinds |-> used[k] + (IF k \in kinds THEN 1 ELSE 0)]
    /\ \E b \in Budgets : \A k \in Kinds : used'[k] <= b[k]
Spend(k) == Uses({k})
Never(kinds) == \A k \in kinds : used[k] = 0

-----------------------------------------------------------------------------
(* updateDeploymentLog: a missing row makes it throw before anyone is told *)
Logged(r, s) ==
    [r EXCEPT !.state = s,
              !.active = @ /\ ~(r.state # s /\ s \in {"FAILED", "CANCELLED", "DESTROYED"})]

\* mutant: a cancellation does not tell the queue
Log_Quiet(i, s) ==
    /\ row' = [row EXCEPT ![i] = Logged(@, s)]
    /\ waiter' = IF i = active /\ waiter = "pending" /\ s \in {"DEPLOYED", "FAILED"}
                 THEN "resolved" ELSE waiter

Log(i, s) ==
    IF Exists(i)
    THEN /\ row' = [row EXCEPT ![i] = Logged(@, s)]
         /\ waiter' = IF i = active /\ waiter = "pending" /\ s \in Terminal /\ row[i].state # s
                      THEN "resolved" ELSE waiter
    ELSE UNCHANGED <<row, waiter>>

\* one turn of the drain loop up to its first await: queue.shift()
\* mutant: the loop leaves after one entry
Loop_Once(q) == pc' = "off"

Loop(q) == pc' = IF q = <<>> THEN "off" ELSE "delay"

Take(q) ==
    /\ queue' = Tail(q)
    /\ IF Head(q) \in flagged
       THEN flagged' = flagged \ {Head(q)} /\ active' = None /\ Loop(Tail(q))
       ELSE active' = Head(q) /\ pc' = "lookup" /\ UNCHANGED flagged

\* void drainQueue() after the queue has become q
Kick(q) ==
    IF pc # "off" \/ q = <<>> THEN queue' = q /\ UNCHANGED <<active, pc, flagged>>
    ELSE Take(q)

-----------------------------------------------------------------------------
(* enqueueDeploy                                                           *)

IsDuplicate(p) == Entries(p) # {} \/ (active # None /\ Of(active) = p)

\* the duplicate check, then the row; the entry is pushed after the await.  A request
\* overlaps another that has not pushed yet, or a cancel of p that has not marked yet
Enqueue(p) ==
    /\ up = "up" /\ p \in projects /\ made < MaxInst
    /\ ~IsDuplicate(p)
    /\ Uses(IF fresh = {} /\ canceling[p].pc # "mark" THEN {"request"} ELSE {"request", "overlap"})
    /\ made' = made + 1
    /\ row' = [row EXCEPT ![made'] = [project |-> p, state |-> "QUEUED", active |-> TRUE]]
    /\ fresh' = fresh \cup {made'}
    /\ UNCHANGED <<drainVars, waiter, projects, desired, node, callVars, up>>

Push(i) ==
    /\ i \in fresh
    /\ fresh' = fresh \ {i}
    /\ Kick(Append(queue, i))
    /\ UNCHANGED <<waiter, row, made, projects, desired, node, callVars, up, used>>

(* drainQueue and deployProject                                            *)

\* the end of the settle delay; the queue may have been emptied by a cancel, and
\* then shift() yields undefined and the loop dies of a TypeError
Wake ==
    /\ pc = "delay"
    /\ IF queue = <<>> THEN pc' = "off" /\ UNCHANGED <<queue, active, flagged>> ELSE Take(queue)
    /\ UNCHANGED <<waiter, fresh, row, made, projects, desired, node, callVars, up, used>>

RegisterWaiter ==
    /\ pc = "lookup"
    /\ pc' = "start" /\ waiter' = "pending"
    /\ UNCHANGED <<queue, active, flagged, fresh, row, made, projects, desired, node,
                   callVars, up, used>>

\* setDeploymentState of a row that may have been deleted
Marked == IF Exists(active) THEN [row EXCEPT ![active].state = "DEPLOYING"] ELSE row

Begin ==
    /\ pc = "start"
    /\ Of(active) \in projects
    /\ row' = Marked
    /\ pc' = "plan"
    /\ UNCHANGED <<queue, active, flagged, waiter, fresh, made, projects, desired, node,
                   callVars, up, used>>

\* mutant: the catch block does not record the failure
PlanFails_Silent ==
    /\ pc \in {"start", "plan"}
    /\ pc' = "await"
    /\ UNCHANGED <<queue, active, flagged, waiter, fresh, row, made, projects, desired,
                   node, callVars, up, used>>

\* anything that throws before the proposal is recorded as FAILED
PlanFails ==
    /\ pc \in {"start", "plan"}
    /\ Log(active, "FAILED")
    /\ pc' = "await"
    /\ UNCHANGED <<queue, active, flagged, fresh, made, projects, desired, node, callVars,
                   up, used>>

Plan ==
    /\ pc = "plan"
    /\ Of(active) \in projects
    /\ IF active \in flagged
       THEN flagged' = flagged \ {active} /\ Log(active, "CANCELLED") /\ pc' = "await"
       ELSE pc' = "write" /\ UNCHANGED <<flagged, row, waiter>>
    /\ UNCHANGED <<queue, active, fresh, made, projects, desired, node, callVars, up, used>>

Propose ==
    /\ pc = "write"
    /\ desired' = [desired EXCEPT ![Of(active)].log = active]
    /\ pc' = "await"
    /\ UNCHANGED <<queue, active, flagged, waiter, fresh, row, made, projects, node,
                   callVars, up, used>>

QueueTimeout ==
    /\ waiter = "pending"
    /\ Spend("timeout")
    /\ waiter' = "resolved"
    /\ UNCHANGED <<drainVars, fresh, row, made, projects, desired, node, callVars, up>>

Complete ==
    /\ pc = "await" /\ waiter = "resolved"
    /\ active' = None /\ waiter' = "none"
    /\ Loop(queue)
    /\ UNCHANGED <<queue, flagged, fresh, row, made, projects, desired, node, callVars, up, used>>

-----------------------------------------------------------------------------
(* cancelDeploy, with cancelQueuedDeploy as its first step                 *)

Cancel(p) ==
    /\ up = "up" /\ p \in projects /\ canceling[p] = Idle
    /\ Spend("cancel")
    /\ IF Entries(p) # {}
       THEN LET k == CHOOSE k \in Entries(p) : \A l \in Entries(p) : k <= l IN
              /\ queue' = RemoveAt(queue, k)
              /\ canceling' = [canceling EXCEPT ![p] = [pc |-> "mark", inst |-> queue[k]]]
              /\ UNCHANGED flagged
       ELSE LET planning == active # None /\ Of(active) = p IN
              /\ flagged' = IF planning THEN flagged \cup {active} ELSE flagged
              /\ canceling' = [canceling EXCEPT ![p] = [pc |-> "desired", planning |-> planning]]
              /\ UNCHANGED queue
    /\ UNCHANGED <<active, pc, waiter, fresh, row, made, projects, desired, node, tearing, up>>

CancelMark(p) ==
    /\ canceling[p].pc = "mark"
    /\ Log(canceling[p].inst, "CANCELLED")
    /\ canceling' = [canceling EXCEPT ![p] = Idle]
    /\ UNCHANGED <<drainVars, fresh, made, projects, desired, node, tearing, up, used>>

CancelDesired(p) ==
    /\ canceling[p].pc = "desired"
    /\ LET d == desired[p] IN
         desired' = [desired EXCEPT ![p] =
                       IF d.serving # None /\ d.log # d.serving
                       THEN [log |-> d.serving, serving |-> d.serving]
                       ELSE IF canceling[p].planning THEN d ELSE NoDesired]
    /\ canceling' = [canceling EXCEPT ![p] = [pc |-> "node"]]
    /\ UNCHANGED <<drainVars, waiter, fresh, row, made, projects, node, tearing, up, used>>

CancelNode(p) ==
    /\ canceling[p].pc = "node"
    /\ node' = [node EXCEPT ![p].kill = TRUE]
    /\ canceling' = [canceling EXCEPT ![p] = [pc |-> "rows"]]
    /\ UNCHANGED <<drainVars, waiter, fresh, row, made, projects, desired, tearing, up, used>>

CancelRows(p) ==
    /\ canceling[p].pc = "rows"
    /\ LET hit == {i \in Instances : Of(i) = p /\ row[i].active
                                       /\ row[i].state \in {"QUEUED", "DEPLOYING"}} IN
         /\ row' = [i \in Instances |-> IF i \in hit THEN Logged(row[i], "CANCELLED") ELSE row[i]]
         /\ waiter' = IF active \in hit /\ waiter = "pending" THEN "resolved" ELSE waiter
    /\ canceling' = [canceling EXCEPT ![p] = Idle]
    /\ UNCHANGED <<drainVars, fresh, made, projects, desired, node, tearing, up, used>>

(* teardownProjectWithCleanup and deleteProject, after the node's part     *)

Teardown(p, why) ==
    /\ up = "up" /\ p \in projects /\ tearing[p] = Idle
    /\ Spend("teardown")
    /\ LET torn == {i \in Instances : Of(i) = p /\ row[i].active} IN
         /\ row' = [i \in Instances |->
                      IF i \in torn THEN [row[i] EXCEPT !.state = "DESTROYING", !.active = FALSE]
                      ELSE row[i]]
         /\ tearing' = [tearing EXCEPT ![p] = [pc |-> "clear", torn |-> torn, why |-> why]]
    /\ UNCHANGED <<drainVars, waiter, fresh, made, projects, desired, node, canceling, up>>

TeardownClear(p) ==
    /\ tearing[p].pc = "clear"
    /\ desired' = [desired EXCEPT ![p] = NoDesired]
    /\ row' = [i \in Instances |->
                 IF i \in tearing[p].torn /\ Exists(i) THEN [row[i] EXCEPT !.state = "DESTROYED"]
                 ELSE row[i]]
    /\ tearing' = [tearing EXCEPT ![p] =
                     IF tearing[p].why = "delete" THEN [pc |-> "rows"] ELSE Idle]
    /\ UNCHANGED <<drainVars, waiter, fresh, made, projects, node, canceling, up, used>>

DeleteRows(p) ==
    /\ tearing[p].pc = "rows"
    /\ row' = [i \in Instances |-> IF Of(i) = p THEN NoRow(p) ELSE row[i]]
    /\ tearing' = [tearing EXCEPT ![p] = [pc |-> "project"]]
    /\ UNCHANGED <<drainVars, waiter, fresh, made, projects, desired, node, canceling, up, used>>

DeleteProject(p) ==
    /\ tearing[p].pc = "project"
    /\ projects' = projects \ {p}
    /\ desired' = [desired EXCEPT ![p] = NoDesired]
    /\ tearing' = [tearing EXCEPT ![p] = Idle]
    /\ UNCHANGED <<drainVars, waiter, fresh, row, made, node, canceling, up, used>>

-----------------------------------------------------------------------------
(* The owning node, as the leader sees it                                  *)

\* a report reaches a leader that listens, or nobody: it is never repeated
Deliver(i, s) == (up = "up" /\ Log(i, s)) \/ UNCHANGED <<row, waiter>>

NodeStart(p) ==
    /\ up = "up"
    /\ node[p].building = None
    /\ desired[p].log \notin {None, node[p].ready}
    /\ node' = [node EXCEPT ![p].building = desired[p].log]
    /\ Deliver(desired[p].log, "DEPLOYING")
    /\ UNCHANGED <<drainVars, fresh, made, projects, desired, callVars, up, used>>

\* a line of build output: posted with the state DEPLOYING, whatever the row says
NodeProgress(p) ==
    /\ up = "up" /\ node[p].building # None
    /\ Log(node[p].building, "DEPLOYING")
    /\ UNCHANGED <<drainVars, fresh, made, projects, desired, node, callVars, up, used>>

\* the readiness gate passes: report DEPLOYED, then announce (promoteDeployment)
NodeDone(p) ==
    LET i == node[p].building IN
    /\ i # None /\ ~node[p].kill
    /\ node' = [node EXCEPT ![p] = [building |-> None, ready |-> i, kill |-> FALSE]]
    /\ Deliver(i, "DEPLOYED")
    /\ \/ up = "up" /\ desired[p].log = i /\ desired' = [desired EXCEPT ![p].serving = i]
       \/ UNCHANGED desired
    /\ UNCHANGED <<drainVars, fresh, made, projects, callVars, up, used>>

NodeFails(p) ==
    LET i == node[p].building IN
    /\ i # None
    /\ node' = [node EXCEPT ![p].building = None, ![p].kill = FALSE]
    /\ Deliver(i, IF node[p].kill THEN "CANCELLED" ELSE "FAILED")
    /\ UNCHANGED <<drainVars, fresh, made, projects, desired, callVars, up, used>>

(* The leader process                                                      *)

Crash ==
    /\ up # "down"
    /\ Spend("crash")
    /\ up' = "down"
    /\ queue' = <<>> /\ active' = None /\ pc' = "off" /\ flagged' = {}
    /\ waiter' = "none" /\ fresh' = {}
    /\ canceling' = [p \in Projects |-> Idle] /\ tearing' = [p \in Projects |-> Idle]
    /\ UNCHANGED <<row, made, projects, desired, node>>

Waiting == {i \in Instances : row[i].active /\ row[i].state = "QUEUED"}

OldestWaiting == {i \in Waiting : \A j \in Waiting : Of(j) = Of(i) => i <= j}

\* mutants: one row is recovered, or the newest first
Recovered_One == SetToSeq({i \in Waiting : \A j \in Waiting : i <= j})
Recovered_Newest ==
    CHOOSE q \in [1..Cardinality(OldestWaiting) -> OldestWaiting] :
        \A k, l \in DOMAIN q : k < l => q[k] > q[l]

\* recoverDeployQueue: the oldest QUEUED row of every project, in the order of creation
Recovered ==
    CHOOSE q \in [1..Cardinality(OldestWaiting) -> OldestWaiting] :
        \A k, l \in DOMAIN q : k < l => q[k] < q[l]

Recover ==
    /\ up = "down"
    /\ up' = "recovered"
    /\ Kick(Recovered)
    /\ UNCHANGED <<waiter, fresh, row, made, projects, desired, node, callVars, used>>

\* sweepStuckDestroyingInstances, then the reconciler starts and the API listens
Sweep ==
    /\ up = "recovered"
    /\ up' = "up"
    /\ row' = [i \in Instances |->
                 IF row[i].state = "DESTROYING"
                 THEN [row[i] EXCEPT !.state = "DESTROYED", !.active = FALSE] ELSE row[i]]
    /\ UNCHANGED <<drainVars, waiter, fresh, made, projects, desired, node, callVars, used>>

-----------------------------------------------------------------------------
Init ==
    /\ queue = <<>> /\ active = None /\ pc = "off" /\ waiter = "none"
    /\ flagged = {} /\ fresh = {} /\ made = 0
    /\ row = [i \in Instances |-> NoRow(CHOOSE p \in Projects : TRUE)]
    /\ projects = Projects
    /\ desired = [p \in Projects |-> NoDesired]
    /\ node = [p \in Projects |-> Fresh]
    /\ canceling = [p \in Projects |-> Idle] /\ tearing = [p \in Projects |-> Idle]
    /\ up = "up"
    /\ used = [k \in Kinds |-> 0]

Enqueues == (\E p \in Projects : Enqueue(p)) \/ (\E i \in fresh : Push(i))
Drain == Wake \/ RegisterWaiter \/ Begin \/ PlanFails \/ Plan \/ Propose \/ Complete
CancelStep(p) == CancelMark(p) \/ CancelDesired(p) \/ CancelNode(p) \/ CancelRows(p)
TeardownStep(p) == TeardownClear(p) \/ DeleteRows(p) \/ DeleteProject(p)
NodeStep(p) == NodeStart(p) \/ NodeProgress(p) \/ NodeDone(p) \/ NodeFails(p)

Next ==
    \/ Enqueues \/ Drain \/ QueueTimeout \/ Crash \/ Recover \/ Sweep
    \/ \E p \in Projects : Cancel(p) \/ CancelStep(p) \/ TeardownStep(p) \/ NodeStep(p)
                           \/ Teardown(p, "teardown") \/ Teardown(p, "delete")

Spec == Init /\ [][Next]_vars

(* Fairness: handlers that have begun go on, timers fire, a daemon that    *)
(* dies is restarted.  Nodes owe nothing: the timeout covers for them.     *)
Fairness ==
    /\ WF_vars(Drain) /\ WF_vars(\E i \in fresh : Push(i))
    /\ WF_vars(QueueTimeout) /\ WF_vars(Recover) /\ WF_vars(Sweep)
    /\ \A p \in Projects : WF_vars(CancelStep(p)) /\ WF_vars(TeardownStep(p))

FairSpec == Spec /\ Fairness

-----------------------------------------------------------------------------
(* Properties                                                              *)

Row == [project : Projects, state : States \cup {"NONE"}, active : BOOLEAN]
Desired == [log : Instances \cup {None}, serving : Instances \cup {None}]
Node == [building : Instances \cup {None}, ready : Instances \cup {None}, kill : BOOLEAN]
CancelCalls ==
    {Idle, [pc |-> "node"], [pc |-> "rows"]}
      \cup [pc : {"mark"}, inst : Instances] \cup [pc : {"desired"}, planning : BOOLEAN]
TeardownCalls ==
    {Idle, [pc |-> "rows"], [pc |-> "project"]}
      \cup [pc : {"clear"}, torn : SUBSET Instances, why : {"teardown", "delete"}]

TypeOK ==
    /\ queue \in Seq(Instances)
    /\ active \in Instances \cup {None}
    /\ pc \in {"off", "lookup", "start", "plan", "write", "await", "delay"}
    /\ waiter \in {"none", "pending", "resolved"}
    /\ flagged \subseteq Instances /\ fresh \subseteq Instances
    /\ row \in [Instances -> Row]
    /\ made \in 0..MaxInst
    /\ projects \subseteq Projects
    /\ desired \in [Projects -> Desired]
    /\ node \in [Projects -> Node]
    /\ canceling \in [Projects -> CancelCalls]
    /\ tearing \in [Projects -> TeardownCalls]
    /\ up \in {"down", "recovered", "up"}
    /\ used \in [Kinds -> Nat]

\* An entry that a cancel has taken out of the queue and not marked yet.
BeingCancelled(i) == \E p \in Projects : canceling[p].pc = "mark" /\ canceling[p].inst = i

\* Entries that wait always have a drain loop that will come for them: no call
\* pushes onto a queue whose loop has just decided to stop.
BacklogIsDrained == queue # <<>> => pc # "off"

\* A row that says QUEUED has an owner: it waits in the queue, is about to be
\* pushed or cancelled, or has just been taken out to be deployed.
QueuedRowIsAlwaysOwned ==
    up # "down" =>
        \A i \in Instances : row[i].state = "QUEUED" =>
            \/ i \in ToSet(queue) \cup fresh
            \/ i = active /\ pc \in {"lookup", "start", "await"}
            \/ BeingCancelled(i)

\* That is so unless a request overlaps another, or a cancel, before a restart:
\* recoverDeployQueue takes one row of a project, and the other stays QUEUED for good.
QueuedRowIsOwned == Never({"overlap"}) \/ Never({"crash"}) => QueuedRowIsAlwaysOwned

\* A waiting entry's row still says QUEUED: nobody settled it behind the queue,
\* as long as nothing is torn down and nothing is cancelled (the last step of a
\* cancel marks every active instance, also one requested after it).
WaitingEntryIsQueued ==
    Never({"teardown", "cancel"}) => \A k \in DOMAIN queue : row[queue[k]].state = "QUEUED"

\* The same with cancels (deployController.ts:508).
WaitingEntryStaysQueued ==
    Never({"teardown"}) => \A k \in DOMAIN queue : row[queue[k]].state = "QUEUED"

\* A project is at most once in the queue and the slot (the duplicate check).
EntriesAreUnique ==
    \A p \in Projects :
        Cardinality(Entries(p)) + (IF active # None /\ Of(active) = p THEN 1 ELSE 0) <= 1

\* That is so while its requests do not overlap.
OneEntryPerProject == Never({"overlap"}) => EntriesAreUnique

\* The queue in memory and the QUEUED rows describe the same deployments, one for
\* each project, through overlaps, cancels and restarts of the leader
\* (enqueueDeploy, recoverDeployQueue).
QueueMatchesRows ==
    /\ TypeOK
    /\ QueuedRowIsOwned
    /\ WaitingEntryIsQueued
    /\ OneEntryPerProject

\* A deployment that has settled does not go on blocking the others: its
\* terminal transition resolved the waiter.
SettledRowAlwaysFreesSlot ==
    pc = "await" /\ waiter = "pending" => row[active].state \notin Terminal

\* That is so until a project is torn down.
SettledRowFreesSlot == Never({"teardown"}) => SettledRowAlwaysFreesSlot

\* Deployments start in the order in which they were requested, across a
\* restart of the leader too; a request that overlaps another may pass it.
FirstComeFirstDeployed ==
    [][Never({"overlap"}) /\ active' \notin {active, None} =>
         \A i \in Instances :
            row[i].active /\ row[i].state = "QUEUED" => i >= active' \/ BeingCancelled(i)]_vars

\* Every queued deployment leaves the queue, whatever the nodes do (but for the
\* rows that overlapping requests and a restart leave behind).
QueuedEventuallyLeaves ==
    \A i \in Instances :
        row[i].state = "QUEUED" ~> row[i].state # "QUEUED" \/ ~(Never({"overlap"}) \/ Never({"crash"}))

\* Only one deployment is ever in flight.
OneInFlight == Cardinality({p \in Projects : node[p].building # None}) <= 1

\* The settle delay never ends on an empty queue (queue.shift()! has an entry).
ShiftFindsEntry == [][pc = "delay" /\ pc' # "delay" /\ up' = "up" => queue # <<>>]_vars

\* The queue only ever waits for an instance whose row exists.
AwaitedRowExists == pc = "await" /\ waiter = "pending" => Exists(active)

\* A node does not start building an attempt that has been cancelled.
CancelledIsNotBuilt ==
    [][\A p \in Projects : node[p].building = None /\ node'[p].building # None
                              => row[desired[p].log].state # "CANCELLED"]_vars

\* DESTROYED is the end of an instance.
DestroyedIsTerminal ==
    [][\A i \in Instances : row[i].state = "DESTROYED" => row'[i].state \in {"DESTROYED", "NONE"}]_vars

=============================================================================
