\* A statement about the program that does not hold: TLC ends with a counterexample.
\* The other statements that fail, and what to change below to see how:
\*   LedgerIsAlwaysOwned: Budgets <- PortsAbandon
\*   PortsAreDisjoint: Budgets <- PortsRetry, or Budgets <- PortsRestart
\*   and, with Parts = {"ingress"},
\*   ActiveIsServed (PROPERTY): SPECIFICATION HostsFairSpec, IngressBudgets <- IngressFail
\*   ConfsAreAlwaysValid (PROPERTY): SPECIFICATION HostsFairSpec, IngressBudgets <- IngressOverlap
\*   ConvergesDespiteKilledCertbot (PROPERTY): SPECIFICATION HostsFairSpec, IngressBudgets <- IngressKilled
\*   IngressAlwaysConverges (PROPERTY): SPECIFICATION HostsFairSpec, IngressBudgets <- IngressUnloaded
\*   RenewedIsLoaded (PROPERTY): SPECIFICATION HostsFairSpec, IngressBudgets <- IngressExpire
\*   ServedStaysServed (PROPERTY): IngressBudgets <- IngressShared
\*   ValidDespiteCrash: IngressBudgets <- IngressCrash
\*   ValidDespiteKilledCertbot: IngressBudgets <- IngressKilled
\*   ValidDespiteSharing: IngressBudgets <- IngressShared
SPECIFICATION HostsSpec
CONSTANTS
    Parts = {"ports"}
    MaxPort = 4
    Reserved = {2}
    Attempts = {a1, a2}
    Need = 1
    Budgets <- PortsOverlap
    Projects = {"p", "q"}
    Domains = {"d", "e"}
    Wants <- MCWants
    Dash = {}
    Dns = {"e"}
    Flows = {"f"}
    IngressBudgets <- IngressUnloaded
INVARIANTS
    PortsAreDisjoint
CHECK_DEADLOCK FALSE
