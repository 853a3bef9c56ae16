------------------------------- MODULE Quotas -------------------------------
(* The quota sweep of the leader for one project: which breaches of its    *)
(* resource allocation are notified, and when again                        *)
(* (controllers/quotaController.ts, persistence/quotaBreachPersistence.ts). *)
(*                                                                         *)
(* Time counts sweeps. A sweep reads the usage, decides by the stored      *)
(* breach state, notifies, and stores the new state last.                  *)
EXTENDS Integers, FiniteSets

CONSTANTS
    Resources,
    Sweeps,     \* bound: sweeps at once
    Cooldown,   \* RENOTIFY_COOLDOWN_MS
    MaxTime,    \* bound
    Budgets     \* bound: each is how often events of the kinds it names may happen

Kinds == {"usage",    \* a resource goes over its limit, or back under it
          "quota",    \* the allocation is changed
          "gap",      \* the metrics of a project are missing: its usage reads as 0
          "fail",     \* the metrics cannot be queried
          "unsent",   \* a notification reaches nobody
          "overlap", "crash"}

VARIABLES
    now,
    over,      \* the resources used beyond their limit
    quota,     \* the resources with a limit; {} when there is no allocation
    state,     \* QuotaBreachStateModel
    sweep,     \* per sweep: where it stands
    notified,  \* the last notification: when, and of which breaches
    seen,      \* the breaches notified since a sweep last saw them gone
    steady,    \* the owners were told of the breaches, and these have not changed since
    used       \* how often an event of each kind has happened

vars == <<now, over, quota, state, sweep, notified, seen, steady, used>>
environment == <<now, over, quota>>
history == <<notified, seen, steady>>

May(kinds) ==
    \E b \in Budgets : \A k \in Kinds :
        used[k] + (IF k \in kinds THEN 1 ELSE 0) <= IF k \in DOMAIN b THEN b[k] ELSE 0
Uses(kinds) ==
    /\ May(kinds)
    /\ used' = [k \in Kinds |-> used[k] + (IF k \in kinds THEN 1 ELSE 0)]
Never(kinds) == \A k \in kinds : used[k] = 0

\* No row: nothing is breached.
NoState == [resources |-> {}, lastNotifiedAt |-> -Cooldown]
Idle == [pc |-> "idle", quota |-> {}, breaches |-> {}]
Busy == \E s \in Sweeps : sweep[s] # Idle
Goes(s, pc) == sweep' = [sweep EXCEPT ![s].pc = pc]
Ends(s) == sweep' = [sweep EXCEPT ![s] = Idle]

-----------------------------------------------------------------------------
(* The sweep *)

\* The cron job; getAllProjects reads the allocation.
StartSweep(s) ==
    /\ now < MaxTime /\ sweep[s] = Idle
    /\ Uses(IF Busy THEN {"overlap"} ELSE {})
    /\ now' = now + 1
    /\ sweep' = [sweep EXCEPT ![s] = [pc |-> "usage", quota |-> quota, breaches |-> {}]]
    /\ UNCHANGED <<over, quota, state, history>>

\* A project without an allocation has no breach state.
NoAllocation(s) ==
    /\ sweep[s].pc = "usage" /\ sweep[s].quota = {}
    /\ state' = NoState /\ seen' = {}
    /\ Ends(s)
    /\ UNCHANGED <<environment, notified, steady, used>>

\* getProjectResourceUsage and computeBreaches; a missing series reads as 0.
ReadUsage(s, gap) ==
    /\ sweep[s].pc = "usage" /\ sweep[s].quota # {}
    /\ Uses(IF gap THEN {"gap"} ELSE {})
    /\ sweep' = [sweep EXCEPT ![s].pc = "decide", ![s].breaches = IF gap THEN {} ELSE over \intersect sweep[s].quota]
    /\ UNCHANGED <<environment, state, history>>

UsageFails(s) ==
    /\ sweep[s].pc = "usage" /\ sweep[s].quota # {}
    /\ Uses({"fail"})
    /\ Ends(s)
    /\ UNCHANGED <<environment, state, history>>

NewBreach(s) == ~(sweep[s].breaches \subseteq state.resources)

CooldownElapsed == now - state.lastNotifiedAt >= Cooldown

Recovered(s) ==
    /\ sweep[s].pc = "decide" /\ sweep[s].breaches = {}
    /\ state' = NoState /\ seen' = {}
    /\ Ends(s)
    /\ UNCHANGED <<environment, notified, steady, used>>

IsNews(s) ==
    /\ sweep[s].pc = "decide" /\ sweep[s].breaches # {}
    /\ NewBreach(s) \/ CooldownElapsed

\* sendQuotaBreachNotification, awaited, and the event.
Notify(s) ==
    /\ IsNews(s)
    /\ notified' = [at |-> now, of |-> sweep[s].breaches]
    /\ seen' = sweep[s].breaches
    /\ steady' = (sweep[s].breaches = over \intersect quota)
    /\ Goes(s, "store")
    /\ UNCHANGED <<environment, state, used>>

\* It never rejects: nobody is told when the push fails, or when the members of the
\* team cannot be read.
NotifyFails(s) ==
    /\ IsNews(s)
    /\ Uses({"unsent"})
    /\ steady' = FALSE
    /\ Goes(s, "store")
    /\ UNCHANGED <<environment, state, notified, seen>>

\* setQuotaBreachStateModel, after the notification.
Store(s) ==
    /\ sweep[s].pc = "store"
    /\ state' = [resources |-> sweep[s].breaches, lastNotifiedAt |-> now]
    /\ Ends(s)
    /\ UNCHANGED <<environment, history, used>>

\* mutant: a resource that recovered stays in the stored state
Kept_All(s) == state.resources \union sweep[s].breaches
Kept(s) == sweep[s].breaches

\* Still over, and not to be notified: the set is kept current, the time stays.
StillOver(s) ==
    /\ sweep[s].pc = "decide" /\ sweep[s].breaches # {}
    /\ ~NewBreach(s) /\ ~CooldownElapsed
    /\ state' = [resources |-> Kept(s), lastNotifiedAt |-> state.lastNotifiedAt]
    /\ seen' = seen \intersect sweep[s].breaches
    /\ Ends(s)
    /\ UNCHANGED <<environment, notified, steady, used>>

-----------------------------------------------------------------------------
(* The environment *)

Changes(kind) == Uses({kind}) /\ steady' = FALSE /\ UNCHANGED <<now, state, sweep, notified, seen>>
UsageMoves(r) ==
    /\ Changes("usage")
    /\ over' = IF r \in over THEN over \ {r} ELSE over \union {r}
    /\ UNCHANGED quota
\* setProjectQuota.
SetProjectQuota(q) ==
    /\ q # quota
    /\ Changes("quota")
    /\ quota' = q
    /\ UNCHANGED over

Crash ==
    /\ Busy
    /\ Uses({"crash"})
    /\ sweep' = [s \in Sweeps |-> Idle]
    /\ UNCHANGED <<environment, state, history>>

-----------------------------------------------------------------------------

Init ==
    /\ now = 0 /\ over = {} /\ quota = Resources
    /\ state = NoState
    /\ sweep = [s \in Sweeps |-> Idle]
    /\ notified = [at |-> -Cooldown, of |-> {}] /\ seen = {} /\ steady = FALSE
    /\ used = [k \in Kinds |-> 0]

Next ==
    \/ \E s \in Sweeps : \/ StartSweep(s) \/ NoAllocation(s) \/ UsageFails(s)
                         \/ ReadUsage(s, TRUE) \/ ReadUsage(s, FALSE)
                         \/ Recovered(s) \/ Notify(s) \/ NotifyFails(s) \/ Store(s) \/ StillOver(s)
    \/ \E r \in Resources : UsageMoves(r)
    \/ \E q \in SUBSET Resources : SetProjectQuota(q)
    \/ Crash

Spec == Init /\ [][Next]_vars

-----------------------------------------------------------------------------
(* Properties *)

TypeOK ==
    /\ now \in 0..MaxTime /\ over \subseteq Resources /\ quota \subseteq Resources
    /\ state \in [resources : SUBSET Resources, lastNotifiedAt : (-Cooldown)..MaxTime]
    /\ \A s \in Sweeps : /\ sweep[s].pc \in {"idle", "usage", "decide", "store"}
                         /\ sweep[s].breaches \subseteq Resources
    /\ notified \in [at : (-Cooldown)..MaxTime, of : SUBSET Resources]
    /\ seen \subseteq Resources /\ steady \in BOOLEAN
    /\ used \in [Kinds -> Nat]

\* While the breaches stay the same they are notified at most once per cooldown
\* (quotaController.ts:13, :54-56), unless sweeps overlap or the leader stops
\* between the notification and the state, or the metrics have a gap.
NoRepeatWhileSteady ==
    [][Never({"overlap", "crash", "gap"}) /\ steady /\ notified' # notified
       => now - notified.at >= Cooldown]_vars

\* The same when the metrics have a gap.
NoRepeatAfterGap ==
    [][Never({"overlap", "crash"}) /\ steady /\ notified' # notified
       => now - notified.at >= Cooldown]_vars

\* The same when the leader stops.
NoRepeatAfterCrash ==
    [][Never({"overlap", "gap"}) /\ steady /\ notified' # notified
       => now - notified.at >= Cooldown]_vars

\* What the state says is over has been told to the owners since a sweep last saw it
\* within its limit, and as late as it says: it is no news to them.
ToldIsStored ==
    /\ state.resources \subseteq seen
    /\ state.lastNotifiedAt <= notified.at

\* When a sweep has seen a project over, its owners were told of every breached
\* resource since it was last seen within its limit, and within the cooldown, unless
\* sweeps overlap, the leader stops between the notification and the state, or a
\* notification reached nobody.
BreachesAreTold ==
    ~Busy /\ state # NoState /\ Never({"overlap", "crash", "unsent"}) => ToldIsStored

\* The same when the leader stops: the state still names what the last notification
\* no longer did, which is no news to the next sweep when it is over again.
ToldDespiteCrash ==
    ~Busy /\ state # NoState /\ Never({"overlap", "unsent"}) => ToldIsStored

\* The same when a notification reaches nobody: it is stored as told, and not sent
\* again before the cooldown (pushController.ts:342-343).
ToldDespiteFailedPush ==
    ~Busy /\ state # NoState /\ Never({"overlap", "crash"}) => ToldIsStored

\* Who was told and stays over for a whole cooldown is told again.
StillOverIsRepeated ==
    ~Busy /\ steady /\ notified.at >= 0 /\ notified.of # {} /\ Never({"fail", "gap", "crash", "overlap"})
    => now - notified.at < Cooldown

=============================================================================
