\* A statement about the program that does not hold: TLC ends with a counterexample.
\* The other statements that fail, and what to change below to see how:
\*   AnnouncedIsAlwaysCurrent (INVARIANT): Parts = {"health"}, HealthBudgets <- Overlap
\*   AnnouncedIsCurrentAfterOutage (INVARIANT): Parts = {"health"}, HealthBudgets <- Outage, RawKept = 2, HealthTime = 12
\*   ClosedHourIsShown (INVARIANT): Parts = {"health"}, HealthBudgets <- Quiet
\*   ClosedSubjectNeverHasAMessage (INVARIANT): Parts = {"discord"}, DiscordBudgets <- Refused
\*   DeletedStaysDeleted: Parts = {"incidents"}, IncidentBudgets <- Resurrect
\*   EventsAreChangesAfterOutage (INVARIANT): Parts = {"health"}, HealthBudgets <- Outage, RawKept = 2, HealthTime = 12
\*   HealthAlwaysDiesWithProject (INVARIANT): Parts = {"health"}, HealthBudgets <- Deleted
\*   LastRequestAlwaysWins (INVARIANT): Parts = {"incidents"}, IncidentBudgets <- Stale
\*   NoRepeatAfterCrash: Parts = {"quotas"}, QuotaBudgets <- Crashes
\*   NoRepeatAfterGap: Parts = {"quotas"}, QuotaBudgets <- Gap
\*   OneMessageDespiteRefusals (INVARIANT): Parts = {"discord"}, DiscordBudgets <- Refused
\*   OneMessageInAnyOrder (INVARIANT): Parts = {"discord"}, DiscordBudgets <- Overlapping
\*   RemovedTargetsAreSilent (INVARIANT): Parts = {"health"}, HealthBudgets <- Gone
\*   ReopenedIsNotResolved (INVARIANT): Parts = {"incidents"}, IncidentBudgets <- Reopen
\*   ResolutionIsAlwaysTold (INVARIANT): Parts = {"incidents"}, IncidentBudgets <- Silent
\*   RollupsAreNeverMissed: Parts = {"health"}, HealthBudgets <- Outage, RawKept = 2, HealthTime = 12
\*   ToldDespiteCrash (INVARIANT): Parts = {"quotas"}, QuotaBudgets <- Recovers
\*   ToldDespiteFailedPush (INVARIANT): Parts = {"quotas"}, QuotaBudgets <- Unsent
SPECIFICATION Spec
CONSTANTS
    Parts = {"health"}
    Targets = {t, u}
    Answers = {"response", "unreachable", "gone"}
    Ticks = {k, l}
    Hour = 2
    RawKept = 6
    RollupKept = 7
    HealthTime = 9
    Incs = {i}
    IncidentStatuses = {"investigating", "monitoring", "resolved"}
    Terminal = {"resolved"}
    Flows = {f, g}
    Resources = {"cpu", "memory"}
    Sweeps = {v, w}
    Cooldown = 3
    QuotaTime = 8
    Subjects = {"pull request", "issue"}
    Life <- MCLife
    Configs <- MCConfigs
    HealthBudgets <- Quiet
    IncidentBudgets <- MCIncidents
    QuotaBudgets <- MCQuotas
    DiscordBudgets <- MCDiscord
PROPERTIES
    ClosedHourNeverShrinks
CHECK_DEADLOCK FALSE
