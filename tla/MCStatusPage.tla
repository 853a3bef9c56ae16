---------------------------- MODULE MCStatusPage ----------------------------
(* The components around the status page: health sampling, incidents,      *)
(* quota alerts and the Discord messages of webhooks. They run beside each *)
(* other in the leader and share no state, so each behaviour checked here  *)
(* lets one of them move.                                                  *)
EXTENDS Integers, Sequences, FiniteSets

CONSTANTS
    Parts,  \* the components to check
    Targets, Answers, Ticks, Hour, RawKept, RollupKept, HealthTime, Incs, IncidentStatuses, Terminal, Flows, Resources, Sweeps, Cooldown, QuotaTime,
    Subjects, Life, Configs,
    HealthBudgets, IncidentBudgets, QuotaBudgets, DiscordBudgets

ASSUME NamesAssumption == "none" \notin Incs /\ "none" \notin Subjects
ASSUME CooldownAssumption == Cooldown \in Nat \ {0} /\ QuotaTime \in Nat
ASSUME LifeAssumption == \A s \in Subjects : Len(Life[s]) \in Nat

VARIABLES
    part,
    now, answer, samples, rollups, tick, roll, due, events, exists, used,
    incident, timeline, told, asked, iFlow, iUsed,
    qNow, over, quota, state, sweep, notified, seen, steady, qUsed,
    lifecycle, webhook, refs, channel, posted, sent, byHand, dFlow, dUsed

H == INSTANCE Health WITH MaxTime <- HealthTime, Budgets <- HealthBudgets
I == INSTANCE Incidents WITH Statuses <- IncidentStatuses, Budgets <- IncidentBudgets, flow <- iFlow, used <- iUsed
Q == INSTANCE Quotas WITH MaxTime <- QuotaTime, Budgets <- QuotaBudgets, now <- qNow, used <- qUsed
D == INSTANCE DiscordMessages WITH MaxMessages <- 6, Budgets <- DiscordBudgets,
                                   Lifecycles <- {"new", "update", "update_then_delete"},
                                   flow <- dFlow, used <- dUsed

\* Several samples are taken in an hour.
ASSUME HealthAssumption ==
    /\ Hour \in Nat \ {0, 1} /\ RawKept \in Nat /\ RollupKept \in Nat /\ HealthTime \in Nat
    /\ Answers \subseteq H!Replies

\* They are kept for whole hours.
ASSUME WholeHoursAssumption == RawKept % Hour = 0

hVars == <<now, answer, samples, rollups, tick, roll, due, events, exists, used>>
iVars == <<incident, timeline, told, asked, iFlow, iUsed>>
qVars == <<qNow, over, quota, state, sweep, notified, seen, steady, qUsed>>
dVars == <<lifecycle, webhook, refs, channel, posted, sent, byHand, dFlow, dUsed>>

Init ==
    /\ part \in Parts
    /\ H!Init /\ I!Init /\ Q!Init /\ D!Init
    /\ part # "discord" => lifecycle = "update"

Next ==
    \/ part = "health" /\ H!Next /\ UNCHANGED <<part, iVars, qVars, dVars>>
    \/ part = "incidents" /\ I!Next /\ UNCHANGED <<part, hVars, qVars, dVars>>
    \/ part = "quotas" /\ Q!Next /\ UNCHANGED <<part, hVars, iVars, dVars>>
    \/ part = "discord" /\ D!Next /\ UNCHANGED <<part, hVars, iVars, qVars>>

Spec == Init /\ [][Next]_<<part, hVars, iVars, qVars, dVars>>

-----------------------------------------------------------------------------
(* The properties of each component that the run checks together *)

\* Health.tla: every event that was sent is a change of the target, the last one
\* says what it is now, and nothing of a deleted project stays
\* (healthController.ts).
HealthIsTold ==
    /\ H!TypeOK
    /\ H!EventsAreChanges
    /\ H!AnnouncedIsCurrent
    /\ H!HealthDiesWithProject

\* Health.tla: the uptime of an hour is that of its samples while all of them are kept;
\* once they are pruned it is theirs, but for those of the first interval
\* (rollupHealthSamples, pruneHealthSamples).
UptimeIsKept ==
    /\ [](H!TypeOK /\ H!UptimeMatchesSamples)
    /\ H!HistoryIsKept

\* Incidents.tla: the row, the timeline and the messages of an incident agree with
\* what was asked for last (incidentController.ts).
IncidentsAreTold ==
    /\ I!TypeOK
    /\ I!ResolutionIsStamped
    /\ I!LastRequestWins
    /\ I!DeletedIsGone
    /\ I!ResolutionIsTold

\* Quotas.tla: who exceeds a quota is told of it, told again after the cooldown,
\* and not told before (quotaController.ts).
BreachesAreTold ==
    /\ [](Q!TypeOK /\ Q!BreachesAreTold /\ Q!StillOverIsRepeated)
    /\ Q!NoRepeatWhileSteady

\* DiscordMessages.tla: a subject has one message, which shows its last event and
\* goes with it (webhookController.ts).
MessagesFollowSubjects ==
    /\ D!TypeOK
    /\ D!OneMessagePerSubject
    /\ D!ClosedSubjectHasNoMessage
    /\ D!LastEventIsShown
    /\ D!RefsBelongToTheWebhook

-----------------------------------------------------------------------------
(* Stronger statements that the code does not keep; StatusPageBad.cfg shows *)
(* a counterexample of each                                                *)

RemovedTargetsAreSilent == H!RemovedTargetsAreSilent
AnnouncedIsAlwaysCurrent == H!AnnouncedIsAlwaysCurrent
EventsAreChangesAfterOutage == H!EventsAreChangesAfterOutage
AnnouncedIsCurrentAfterOutage == H!AnnouncedIsCurrentAfterOutage
RollupsAreNeverMissed == H!RollupsAreNeverMissed
ClosedHourNeverShrinks == H!ClosedHourNeverShrinks
ClosedHourIsShown == H!ClosedHourIsShown
HealthAlwaysDiesWithProject == H!HealthAlwaysDiesWithProject
ReopenedIsNotResolved == I!ReopenedIsNotResolved
LastRequestAlwaysWins == I!LastRequestAlwaysWins
DeletedStaysDeleted == I!DeletedStaysDeleted
ResolutionIsAlwaysTold == I!ResolutionIsAlwaysTold
NoRepeatAfterGap == Q!NoRepeatAfterGap
NoRepeatAfterCrash == Q!NoRepeatAfterCrash
ToldDespiteCrash == Q!ToldDespiteCrash
ToldDespiteFailedPush == Q!ToldDespiteFailedPush
OneMessageInAnyOrder == D!OneMessageInAnyOrder
OneMessageDespiteRefusals == D!OneMessageDespiteRefusals
ClosedSubjectNeverHasAMessage == D!ClosedSubjectNeverHasAMessage

-----------------------------------------------------------------------------
(* Bounds: how often events of each kind may happen, not at all where unnamed *)

MCHealth == {[change |-> 2, down |-> 1], [change |-> 1, gone |-> 1], [change |-> 1, overlap |-> 1],
             [change |-> 1, lost |-> 1], [lost |-> 1, crash |-> 1], [delete |-> 1, during |-> 1, change |-> 1]}
Gone == {[change |-> 1, gone |-> 1]}
Outage == {[change |-> 3, down |-> 3]}
Quiet == {[change |-> 1]}
Overlap == {[change |-> 2, overlap |-> 1]}
Deleted == {[delete |-> 1, during |-> 2]}

MCIncidents == {[create |-> 1, update |-> 2, edit |-> 2, delete |-> 1, reopen |-> 1, past |-> 1, silent |-> 1],
                [create |-> 1, update |-> 2, edit |-> 1, delete |-> 1, overlap |-> 3, reopen |-> 1],
                [create |-> 1, update |-> 1, delete |-> 1, crash |-> 1]}
Reopen == {[create |-> 1, update |-> 1, edit |-> 1, silent |-> 1, reopen |-> 1]}
Stale == {[create |-> 1, update |-> 1, edit |-> 1, overlap |-> 1]}
Resurrect == {[create |-> 1, update |-> 1, delete |-> 1, overlap |-> 1]}
Silent == {[create |-> 1, edit |-> 1, silent |-> 1]}

MCQuotas == {[usage |-> 4], [usage |-> 2, quota |-> 2], [usage |-> 2, gap |-> 1, fail |-> 1], [usage |-> 2, unsent |-> 1],
             [usage |-> 1, quota |-> 1, overlap |-> 1], [usage |-> 2, crash |-> 1]}
Gap == {[usage |-> 1, gap |-> 1]}
Crashes == {[usage |-> 1, crash |-> 1]}
Unsent == {[usage |-> 1, unsent |-> 1]}
Recovers == {[usage |-> 3, crash |-> 1]}

Delivery(type, action, detail) == [type |-> type, action |-> action, detail |-> detail]
MCLife == [s \in Subjects |->
    IF s = "pull request"
    THEN <<Delivery("pull_request", "opened", ""), Delivery("pull_request_review", "submitted", "commented"),
           Delivery("pull_request_review", "submitted", "approved"), Delivery("pull_request", "closed", "merged")>>
    ELSE <<Delivery("issues", "opened", ""), Delivery("issues", "labeled", ""), Delivery("issues", "closed", "")>>]
MCConfigs == [pull_request |-> {"opened", "approved", "merged", "closed"}, issue |-> {"opened", "closed"}]
MCDiscord == {[manual |-> 1, removed |-> 1], [failed |-> 2, manual |-> 1], [timeout |-> 1, crash |-> 1],
              [overlap |-> 2, removed |-> 1]}
Overlapping == {[overlap |-> 1]}
Refused == {[failed |-> 2]}

=============================================================================
