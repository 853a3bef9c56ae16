SPECIFICATION HostsFairSpec
CONSTANTS
    Parts = {"ports", "ingress"}
    MaxPort = 5
    Reserved = {2}
    Attempts = {a1, a2, a3}
    Need = 2
    Budgets <- MCPorts
    Projects = {"p", "q"}
    Domains = {"d", "e"}
    Wants <- MCWants
    Dash = {"e"}
    Dns = {"e"}
    Flows = {"f"}
    IngressBudgets <- MCIngress
INVARIANTS
    TypeOK
    NoSharedPort
    LedgerIsOwned
    ConfsStayValid
PROPERTIES
    IngressConverges
\* every attempt comes to its end
CHECK_DEADLOCK FALSE
