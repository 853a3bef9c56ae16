SPECIFICATION FairSpec
CONSTANTS
    Parts = {"cache", "navigation", "sessions", "purchases"}
    Keys <- MCKeys
    CacheBudgets <- MCCache
    Losses <- MCLosses
    NavigationBudgets <- MCNavigation
    Devices = {a, b}
    Tokens = 3
    ApiKeys = {k, l}
    Callers = {c, d}
    SessionBudgets <- MCSessions
    DomainRequests = {q, r}
    DomainNames = {dom}
    DomainOf <- OneDomain
    Teams = {t, u}
    Accounts = {acc}
    Awaits = {f, g, h}
    PurchaseBudgets <- MCPurchases
INVARIANTS
    CacheFollowsWrites
    PagesMatchRights
PROPERTIES
    CredentialsEnd
    PendingSettles
    PurchasesAreTrue
CHECK_DEADLOCK FALSE
