SPECIFICATION Spec
CONSTANTS
    Parts = {"health", "incidents", "quotas", "discord"}
    Targets = {t, u}
    Answers = {"response", "unreachable", "gone"}
    Ticks = {k, l}
    Hour = 2
    RawKept = 6
    RollupKept = 8
    HealthTime = 10
    Incs = {i}
    IncidentStatuses = {"investigating", "monitoring", "resolved"}
    Terminal = {"resolved"}
    Flows = {f, g}
    Resources = {"cpu", "memory"}
    Sweeps = {v, w}
    Cooldown = 3
    QuotaTime = 8
    Subjects = {"pull request", "issue"}
    Life <- MCLife
    Configs <- MCConfigs
    HealthBudgets <- MCHealth
    IncidentBudgets <- MCIncidents
    QuotaBudgets <- MCQuotas
    DiscordBudgets <- MCDiscord
INVARIANTS
    HealthIsTold
    IncidentsAreTold
    MessagesFollowSubjects
PROPERTIES
    UptimeIsKept
    BreachesAreTold
CHECK_DEADLOCK FALSE
