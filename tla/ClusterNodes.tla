---------------------------- MODULE ClusterNodes ----------------------------
(* The nodes of a cluster around their leader: the registry of addresses   *)
(* (cluster/registry.ts), the status reports that refresh it               *)
(* (cluster/statusGossip.ts), the hosts file and scrape targets rendered   *)
(* from it (reconcile/internalDns.ts, reconcile/promTargets.ts), the       *)
(* rolling self-update (cluster/selfUpdate.ts) and the node configuration  *)
(* editor with its restart watch (controllers/nodeConfigController.ts).    *)
(*                                                                         *)
(* A daemon is a process that systemd restarts (systemd/nsm.service); what *)
(* survives a restart is the registry, the wish for a version, the git     *)
(* checkout, node_modules and the env file.                                *)
EXTENDS Integers, Sequences, FiniteSets, SequencesExt

CONSTANTS
    Leader, Followers,
    Versions,      \* commits; numbers, 0 is what every node runs at first
    MaxJobs,       \* bound: upgrades running at once on a node
    Budgets        \* bound: each is how often events of each kind may happen

\* what the environment does to the cluster, counted in "used"
Kinds == {"wish",      \* CI asks for another version
          "back",      \* ... that is not newer than every one before
          "move",      \* a node gets another address
          "late",      \* a status report is on its way while later ones arrive
          "deregister",
          "crash",     \* a daemon dies
          "failed",    \* git or npm fail on a follower
          "failedSelf",\* ... or on the leader
          "slow",      \* an upgrade takes longer than the pause of a rollout
          "unwritten", \* nsm-apply-hosts fails
          "unloaded",  \* nginx -s reload fails
          "config",    \* an administrator edits the env file of a node
          "stuck",     \* systemctl restart fails
          "lostPing"}

ASSUME ClusterAssumption ==
    /\ Leader \notin Followers
    /\ IsFiniteSet(Followers)
    /\ Versions \subseteq Nat /\ 0 \in Versions
    /\ MaxJobs \in Nat \ {0}
    /\ Budgets \subseteq [Kinds -> Nat]

Nodes == Followers \union {Leader}

VARIABLES
    members,  \* NodeModel: rows [node, at] in the order they were created
    desired,  \* the version of SET_DESIRED_NSM_VERSION, NoWish before the first
    reports,  \* nsmVersion of the latest report of each node, in the leader's memory
    rolling,  \* rolloutInProgress, and what will reset it
    host,     \* per node: address, process, checkout, node_modules, env file
    jobs,     \* per node: the runs of applyVersionLocally
    mail,     \* status reports that are late
    hosts,    \* the managed block of /etc/hosts
    loaded,   \* the block nginx resolved its upstreams with
    targets,  \* the nodes in the Prometheus target files
    watch,    \* per follower: watchFollowerRestart
    used      \* how often an event of each kind has happened

vars == <<members, desired, reports, rolling, host, jobs, mail, hosts, loaded, targets, watch, used>>
registry == <<members, hosts, loaded, targets, mail>>
rollout == <<desired, reports, rolling>>

NoWish == -1
Unknown == -1          \* no report of this node: nsmVersion || 'unknown'
Partial == -1          \* node_modules that npm ci has not finished

\* Events of these kinds may still happen.
May(kinds) ==
    \E b \in Budgets : \A k \in Kinds : used[k] + (IF k \in kinds THEN 1 ELSE 0) <= b[k]
Count(kinds) ==
    used' = [k \in Kinds |-> used[k] + (IF k \in kinds THEN 1 ELSE 0)]
Uses(kinds) == May(kinds) /\ Count(kinds)

-----------------------------------------------------------------------------
(* The registry *)

Row(n, at) == [node |-> n, at |-> at]
Registered(rows) == {rows[i].node : i \in DOMAIN rows}
AddressIn(rows, n) == rows[CHOOSE i \in DOMAIN rows : rows[i].node = n].at

\* touchNodeModel: update the row of the node in place, or create it.
Touch(rows, n, at) ==
    IF n \in Registered(rows)
    THEN [i \in DOMAIN rows |-> IF rows[i].node = n THEN Row(n, at) ELSE rows[i]]
    ELSE Append(rows, Row(n, at))

Up(n) == host[n].up

\* A report as buildReport makes it.
ReportOf(n) == [node |-> n, at |-> host[n].at, ver |-> host[n].ver]

\* ingestReport, on the leader.
Ingest(r) ==
    /\ reports' = [reports EXCEPT ![r.node] = r.ver]
    /\ members' = Touch(members, r.node, r.at)

\* The tick of startStatusReporting; a report that is lost is one that is not made.
Report(n) ==
    /\ Up(n) /\ Up(Leader)
    /\ Ingest(ReportOf(n))
    /\ UNCHANGED <<desired, rolling, host, jobs, mail, hosts, loaded, targets, watch, used>>

\* A report that is held up: the next tick does not wait for it.
SendLate(n) ==
    /\ Up(n) /\ n # Leader
    /\ Uses({"late"})
    /\ mail' = mail \union {ReportOf(n)}
    /\ UNCHANGED <<members, rollout, host, jobs, hosts, loaded, targets, watch>>

DeliverLate(r) ==
    /\ r \in mail
    /\ mail' = mail \ {r}
    /\ IF Up(Leader) THEN Ingest(r) ELSE UNCHANGED <<members, reports>>
    /\ UNCHANGED <<desired, rolling, host, jobs, hosts, loaded, targets, watch, used>>

Deregister(n) ==
    /\ Up(Leader) /\ n \in Registered(members) \ {Leader}
    /\ Uses({"deregister"})
    /\ \E i \in DOMAIN members : members[i].node = n /\ members' = RemoveAt(members, i)
    /\ UNCHANGED <<rollout, host, jobs, mail, hosts, loaded, targets, watch>>

\* DHCP, or a new network: getPrimaryIp answers something else from now on.
Move(n) ==
    /\ Uses({"move"})
    /\ host' = [host EXCEPT ![n].at = @ + 1]
    /\ UNCHANGED <<registry, rollout, jobs, watch>>

\* mutant: the file is taken for current when it lists the same nodes
Refresh_NamesOnly ==
    /\ Up(Leader)
    /\ targets' = Registered(members)
    /\ \/ Registered(hosts) = Registered(members) /\ UNCHANGED <<hosts, loaded, used>>
       \/ /\ Registered(hosts) # Registered(members)
          /\ hosts' = members /\ loaded' = members /\ UNCHANGED used
    /\ UNCHANGED <<members, mail, rollout, host, jobs, watch>>

\* refreshInternalHosts and regeneratePromTargets, the end of a tick of the
\* leader. The file is only written, and nginx only reloaded, when it changes.
Refresh ==
    /\ Up(Leader)
    /\ targets' = Registered(members)
    /\ \/ hosts = members /\ UNCHANGED <<hosts, loaded, used>>
       \/ hosts # members /\ hosts' = members /\ loaded' = members /\ UNCHANGED used
       \/ hosts # members /\ Uses({"unloaded"}) /\ hosts' = members /\ UNCHANGED loaded
       \/ hosts # members /\ Uses({"unwritten"}) /\ loaded' = hosts /\ UNCHANGED hosts
    /\ UNCHANGED <<members, mail, rollout, host, jobs, watch>>

-----------------------------------------------------------------------------
(* The daemon of a node *)

NoWatch == [on |-> FALSE, wants |-> 0, base |-> "none", down |-> FALSE, said |-> "nothing"]

\* The process of n ends, and with it what it has started; systemd kills the
\* whole control group.
Halt(n) ==
    /\ host' = [host EXCEPT ![n].up = FALSE, ![n].restarts = FALSE]
    /\ jobs' = [jobs EXCEPT ![n] = <<>>]
    /\ IF n = Leader
       THEN /\ reports' = [m \in Nodes |-> Unknown]
            /\ rolling' = "no"
            /\ watch' = [f \in Followers |-> [watch[f] EXCEPT !.on = FALSE]]
       ELSE UNCHANGED <<reports, rolling, watch>>

Crash(n) ==
    /\ Up(n)
    /\ Uses({"crash"})
    /\ Halt(n)
    /\ UNCHANGED <<registry, desired>>

\* start(): the version is that of the checkout, the configuration that of the
\* env file; ensureSelfRegistered touches the row, of a follower only if its
\* announcement arrives. tsx is one of the modules npm ci installs.
Boot(n) ==
    /\ ~Up(n)
    /\ host[n].deps # Partial
    /\ host' = [host EXCEPT ![n].up = TRUE, ![n].ver = host[n].head, ![n].loadedEnv = host[n].env]
    /\ \/ members' = members /\ n # Leader
       \/ (n = Leader \/ Up(Leader)) /\ members' = Touch(members, n, host[n].at)
    /\ UNCHANGED <<hosts, loaded, targets, mail, rollout, jobs, watch, used>>

-----------------------------------------------------------------------------
(* Self-update *)

SetDesiredNsmVersion(v) ==
    /\ Up(Leader)
    /\ Uses(IF v > desired /\ v > 0 THEN {"wish"} ELSE {"wish", "back"})
    /\ desired' = v
    /\ UNCHANGED <<registry, reports, rolling, host, jobs, watch>>

Start(n, v) == jobs' = [jobs EXCEPT ![n] = Append(@, [art |-> v, step |-> "fetch"])]

\* mutant: a follower that has not reported yet is taken for upgraded
Stale_Reported(row) == row.node # Leader /\ reports[row.node] \notin {desired, Unknown}

Stale(row) == row.node # Leader /\ reports[row.node] # desired
AllCurrent == \A i \in DOMAIN members : ~Stale(members[i])
FirstStale(i) ==
    i \in DOMAIN members /\ Stale(members[i]) /\ \A j \in 1..(i - 1) : ~Stale(members[j])

\* mutant: the timer is only set when the follower was reached
InstructFollower_Stuck ==
    /\ Up(Leader) /\ rolling = "no" /\ desired # NoWish
    /\ \E i \in DOMAIN members :
        /\ FirstStale(i)
        /\ LET row == members[i] IN
           IF Up(row.node) /\ row.at = host[row.node].at
           THEN Len(jobs[row.node]) < MaxJobs /\ Start(row.node, desired) /\ rolling' = "pause"
           ELSE UNCHANGED jobs /\ rolling' = "self"
    /\ UNCHANGED <<registry, desired, reports, host, watch, used>>

\* runSelfUpdateRolloutIfLeader with stale followers: the first of them is
\* instructed, if the address of its row is still its own; the pause of 60
\* seconds begins whatever becomes of it.
InstructFollower ==
    /\ Up(Leader) /\ rolling = "no" /\ desired # NoWish
    /\ rolling' = "pause"
    /\ \E i \in DOMAIN members :
        /\ FirstStale(i)
        /\ LET row == members[i] IN
           IF Up(row.node) /\ row.at = host[row.node].at
           THEN Len(jobs[row.node]) < MaxJobs /\ Start(row.node, desired)
           ELSE UNCHANGED jobs
    /\ UNCHANGED <<registry, desired, reports, host, watch, used>>

\* runSelfUpdateRolloutIfLeader without: the leader is last. Nothing but the
\* restart at the end of the upgrade resets rolloutInProgress.
UpgradeLeader ==
    /\ Up(Leader) /\ rolling = "no" /\ desired # NoWish
    /\ AllCurrent
    /\ host[Leader].ver # desired
    /\ rolling' = "self"
    /\ Start(Leader, desired)
    /\ UNCHANGED <<registry, desired, reports, host, watch, used>>

\* setTimeout(() => (rolloutInProgress = false), 60000)
PauseEnds ==
    /\ rolling = "pause"
    /\ rolling' = "no"
    /\ IF \E n \in Followers : jobs[n] # <<>> THEN Uses({"slow"}) ELSE UNCHANGED used
    /\ UNCHANGED <<registry, desired, reports, host, jobs, watch>>

FailKind(n) == IF n = Leader THEN "failedSelf" ELSE "failed"

\* git fetch and git checkout --force; npm ci begins by removing node_modules.
Checkout(n, i) ==
    /\ i \in DOMAIN jobs[n] /\ jobs[n][i].step = "fetch"
    /\ \/ /\ host' = [host EXCEPT ![n].head = jobs[n][i].art, ![n].deps = Partial]
          /\ jobs' = [jobs EXCEPT ![n][i].step = "install"]
          /\ UNCHANGED used
       \/ /\ Uses({FailKind(n)})
          /\ jobs' = [jobs EXCEPT ![n] = RemoveAt(@, i)]
          /\ UNCHANGED host
    /\ UNCHANGED <<registry, rollout, watch>>

\* Another npm ci has removed node_modules and not finished.
OthersInstall(n, i) == \E j \in DOMAIN jobs[n] \ {i} : jobs[n][j].step = "install"

\* npm ci ends: the daemon is restarted, and an npm ci of another job with it.
Installed(n, i) ==
    /\ i \in DOMAIN jobs[n] /\ jobs[n][i].step = "install"
    /\ host' = [host EXCEPT ![n].up = FALSE, ![n].restarts = FALSE,
                            ![n].deps = IF OthersInstall(n, i) THEN Partial ELSE host[n].head]
    /\ jobs' = [jobs EXCEPT ![n] = <<>>]
    /\ IF n = Leader
       THEN /\ reports' = [m \in Nodes |-> Unknown] /\ rolling' = "no"
            /\ watch' = [f \in Followers |-> [watch[f] EXCEPT !.on = FALSE]]
       ELSE UNCHANGED <<reports, rolling, watch>>
    /\ UNCHANGED <<registry, desired, used>>

\* npm ci fails, or ends and systemctl does not restart the daemon, at which nobody looks.
InstallFails(n, i) ==
    /\ i \in DOMAIN jobs[n] /\ jobs[n][i].step = "install"
    /\ Uses({FailKind(n)})
    /\ jobs' = [jobs EXCEPT ![n] = RemoveAt(@, i)]
    /\ \/ UNCHANGED host
       \/ host' = [host EXCEPT ![n].deps = IF OthersInstall(n, i) THEN Partial ELSE host[n].head]
    /\ UNCHANGED <<registry, rollout, watch>>

-----------------------------------------------------------------------------
(* Node configuration *)

\* applyNodeConfig for a follower: the file is written there and a restart
\* scheduled; watchFollowerRestart starts once the administrators are told.
\* Watches of several edits run side by side: the model follows any one of them.
ApplyNodeConfig(f) ==
    /\ Up(Leader) /\ Up(f)
    /\ f \in Registered(members) /\ AddressIn(members, f) = host[f].at
    /\ Uses({"config"})
    /\ host' = [host EXCEPT ![f].env = @ + 1, ![f].restarts = TRUE]
    /\ \/ watch' = [watch EXCEPT ![f] = [NoWatch EXCEPT !.on = TRUE, !.wants = host[f].env + 1]]
       \/ UNCHANGED watch   \* an error, and no watch; or an earlier one is followed
    /\ UNCHANGED <<registry, rollout, jobs>>

\* applyNodeConfig for the leader itself: nothing watches.
ApplyLocalConfig ==
    /\ Up(Leader)
    /\ Uses({"config"})
    /\ host' = [host EXCEPT ![Leader].env = @ + 1, ![Leader].restarts = TRUE]
    /\ UNCHANGED <<registry, rollout, jobs, watch>>

\* systemctl restart nsmd, a second later.
Restart(n) ==
    /\ Up(n) /\ host[n].restarts
    /\ \/ Halt(n) /\ UNCHANGED used
       \/ /\ Uses({"stuck"})
          /\ host' = [host EXCEPT ![n].restarts = FALSE]
          /\ UNCHANGED <<jobs, reports, rolling, watch>>
    /\ UNCHANGED <<registry, desired>>

\* It runs with what the edit that is watched has written.
Loaded(f) == host[f].loadedEnv >= watch[f].wants

\* Whether a ping of f is answered, and by which process.
Ping(f) == IF ~Up(f) THEN "none" ELSE IF Loaded(f) THEN "new" ELSE "old"

\* The first ping of watchFollowerRestart; without an answer the baseline is infinite.
Baseline(f) ==
    /\ watch[f].on /\ watch[f].base = "none"
    /\ \/ watch' = [watch EXCEPT ![f].base = IF Up(f) THEN Ping(f) ELSE "infinite"] /\ UNCHANGED used
       \/ Up(f) /\ Uses({"lostPing"}) /\ watch' = [watch EXCEPT ![f].base = "infinite"]
    /\ UNCHANGED <<registry, rollout, host, jobs>>

\* mutant: any answer will do
Younger_Any(base, ping) == TRUE

\* uptime + 3000 < baseline: the answer is from a younger process.
Younger(base, ping) == base = "infinite" \/ (base = "old" /\ ping = "new")

Watched(f, ping) ==
    IF ping = "none" THEN [watch[f] EXCEPT !.down = TRUE]
    ELSE IF watch[f].down \/ Younger(watch[f].base, ping)
         THEN [watch[f] EXCEPT !.on = FALSE, !.said = "restarted"]
         ELSE watch[f]

\* One round of the loop of watchFollowerRestart.
Poll(f) ==
    /\ watch[f].on /\ watch[f].base # "none"
    /\ \/ watch' = [watch EXCEPT ![f] = Watched(f, Ping(f))] /\ UNCHANGED used
       \/ Up(f) /\ Uses({"lostPing"}) /\ watch' = [watch EXCEPT ![f] = Watched(f, "none")]
    /\ UNCHANGED <<registry, rollout, host, jobs>>

\* The deadline of 90 seconds.
GiveUp(f) ==
    /\ watch[f].on /\ watch[f].base # "none"
    /\ watch' = [watch EXCEPT ![f].on = FALSE, ![f].said = "may have failed"]
    /\ UNCHANGED <<registry, rollout, host, jobs, used>>

-----------------------------------------------------------------------------
\* Every daemon runs commit 0; the followers have joined in some order.
Init ==
    /\ \E joined \in SetToSeqs(Followers) :
         members = <<Row(Leader, 0)>> \o [i \in DOMAIN joined |-> Row(joined[i], 0)]
    /\ desired = NoWish
    /\ reports = [n \in Nodes |-> Unknown]
    /\ rolling = "no"
    /\ host = [n \in Nodes |-> [up |-> TRUE, at |-> 0, ver |-> 0, head |-> 0, deps |-> 0,
                                env |-> 0, loadedEnv |-> 0, restarts |-> FALSE]]
    /\ jobs = [n \in Nodes |-> <<>>]
    /\ mail = {}
    /\ hosts = members /\ loaded = members /\ targets = Nodes
    /\ watch = [f \in Followers |-> NoWatch]
    /\ used = [k \in Kinds |-> 0]

NodeNext(n) ==
    \/ Report(n) \/ SendLate(n) \/ Deregister(n) \/ Move(n)
    \/ Crash(n) \/ Boot(n) \/ Restart(n)
    \/ \E i \in 1..MaxJobs : Checkout(n, i) \/ Installed(n, i) \/ InstallFails(n, i)

WatchNext(f) == ApplyNodeConfig(f) \/ Baseline(f) \/ Poll(f) \/ GiveUp(f)

Next ==
    \/ \E n \in Nodes : NodeNext(n)
    \/ \E f \in Followers : WatchNext(f)
    \/ \E r \in mail : DeliverLate(r)
    \/ \E v \in Versions : SetDesiredNsmVersion(v)
    \/ InstructFollower \/ UpgradeLeader \/ PauseEnds
    \/ Refresh \/ ApplyLocalConfig

Spec == Init /\ [][Next]_vars

\* Timers, cron jobs and systemd go on; git and npm end. A report is due four
\* times in a pause and at every boot, so that upgrades cannot crowd it out.
Fairness ==
    /\ \A n \in Nodes :
        /\ SF_vars(Report(n)) /\ WF_vars(Boot(n)) /\ WF_vars(Restart(n))
        /\ \A i \in 1..MaxJobs : WF_vars(Checkout(n, i)) /\ WF_vars(Installed(n, i))
    /\ WF_vars(InstructFollower) /\ WF_vars(UpgradeLeader) /\ WF_vars(PauseEnds)
    /\ WF_vars(Refresh)

FairSpec == Spec /\ Fairness

-----------------------------------------------------------------------------
(* Properties *)

TypeOK ==
    /\ members \in Seq([node : Nodes, at : Nat]) /\ hosts \in Seq([node : Nodes, at : Nat])
    /\ \A i, j \in DOMAIN members : members[i].node = members[j].node => i = j
    /\ loaded \in Seq([node : Nodes, at : Nat]) /\ targets \subseteq Nodes
    /\ desired \in Versions \union {NoWish}
    /\ reports \in [Nodes -> Versions \union {Unknown}]
    /\ rolling \in {"no", "pause", "self"}
    /\ host \in [Nodes -> [up : BOOLEAN, at : Nat, ver : Versions, head : Versions,
                           deps : Versions \union {Partial}, env : Nat, loadedEnv : Nat,
                           restarts : BOOLEAN]]
    /\ jobs \in [Nodes -> Seq([art : Versions, step : {"fetch", "install"}])]
    /\ mail \subseteq [node : Followers, at : Nat, ver : Versions]
    /\ watch \in [Followers -> [on : BOOLEAN, wants : Nat, down : BOOLEAN,
                                base : {"none", "infinite", "old", "new"},
                                said : {"nothing", "restarted", "may have failed"}]]
    /\ used \in [Kinds -> Nat]

Busy == {n \in Nodes : jobs[n] # <<>>}
Never(kinds) == \A k \in kinds : used[k] = 0

\* A rollout upgrades one node at a time (selfUpdate.ts:50). It does not when an
\* upgrade outlasts the pause, or when the leader restarts: the reports it has
\* lost make every follower look stale.
OneAtATime == Cardinality(Busy) <= 1

Dead(n) == ~Up(n) /\ host[n].deps = Partial

\* A node comes back on the new code (selfUpdate.ts:20). It does not when it is
\* restarted while npm ci runs for a second instruction, or by a change of its
\* configuration.
NodesComeBack == \A n \in Nodes : ~Dead(n)

\* The leader upgrades last (selfUpdate.ts:50): when it begins, every follower
\* in the registry runs the version it begins to install, also when reports
\* were lost or late, daemons crashed and the wish changed before, as long as
\* every wish is for a version newer than those before.
LeaderLast ==
    [][jobs'[Leader] # <<>> /\ jobs[Leader] = <<>> /\ Never({"back"})
       => \A n \in Registered(members) \ {Leader} : host[n].ver = desired]_vars

\* The same when an older version is asked for and taken back: the last report
\* of a follower may say the version wanted now although it has meanwhile gone
\* to the one wanted in between.
LeaderIsAlwaysLast ==
    [][jobs'[Leader] # <<>> /\ jobs[Leader] = <<>>
       => \A n \in Registered(members) \ {Leader} : host[n].ver = desired]_vars

\* An administrator who reads that a node restarted can rely on it: it runs
\* with the configuration that was written (nodeConfigController.ts:128-131),
\* also when the configuration is edited again and watched twice, as long as no
\* ping is lost.
ToldRestartedIsRestarted ==
    Never({"lostPing"}) => \A f \in Followers : ~watch[f].on /\ watch[f].said = "restarted" => Loaded(f)

\* The same when pings may be lost.
ToldIsTrue ==
    \A f \in Followers : ~watch[f].on /\ watch[f].said = "restarted" => Loaded(f)

\* The warning is about a restart that did not happen (nodeConfigController.ts:135).
WarnedIsTrue ==
    \A f \in Followers : ~watch[f].on /\ watch[f].said = "may have failed" => ~Loaded(f)

\* Every node comes to run the version last asked for, through failing
\* installs, crashes and lost instructions, unless the leader's own install
\* failed or a node was restarted in the middle of one and cannot start again.
RolloutConverges ==
    <>[](desired # NoWish /\ Never({"failedSelf"}) /\ (\A n \in Nodes : ~Dead(n))
         => \A n \in Nodes : host[n].ver = desired)

\* nginx comes to resolve every running node to its address, and Prometheus to
\* scrape it, whatever order the reports of it came in.
RoutesFollowNodes ==
    <>[](Up(Leader) /\ Never({"unloaded"}) =>
         \A n \in Nodes : Up(n) => /\ n \in Registered(loaded) \intersect targets
                                   /\ AddressIn(loaded, n) = host[n].at)

\* The same when a reload may fail (internalDns.ts:20-22).
RoutesConverge ==
    <>[](Up(Leader) =>
         \A n \in Nodes : Up(n) => n \in Registered(loaded) /\ AddressIn(loaded, n) = host[n].at)

\* A node that was taken out of the registry and is down stays out.
GoneStaysGone ==
    [][\A n \in Followers : ~Up(n) /\ ~Up(n)' /\ n \notin Registered(members)
                            => n \notin Registered(members')]_vars

=============================================================================
