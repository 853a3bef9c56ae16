\* A statement about the program that does not hold: TLC ends with a counterexample.
\* The other statements that fail, and what to change below to see how:
\*   BlankIsNeverShown (INVARIANT)
\*   DeploymentIsShownAsItIs: CacheBudgets <- CacheEnded
\*   DraftSurvivesButtons (INVARIANT): CacheBudgets <- CacheButton
\*   EveryBrowserStaysIn (INVARIANT): Parts = {"sessions"}
\*   EverythingIsRefreshed (INVARIANT): CacheBudgets <- CacheSubmit
\*   FailedIsNeverOurs (INVARIANT): Parts = {"purchases"}, PurchaseBudgets <- Slow
\*   FlipsAreUndone (INVARIANT): CacheBudgets <- CacheFlip
\*   KeysAlwaysDieWithProject (INVARIANT): Parts = {"sessions"}
\*   LinkedAccountAlwaysExists (INVARIANT): Parts = {"purchases"}, PurchaseBudgets <- SaveAndRemove
\*   LinkedIsAllowed (INVARIANT): Parts = {"navigation"}
\*   ListIsAlwaysComplete (INVARIANT): CacheBudgets <- CacheEarly
\*   NewestSignInAlwaysWins (INVARIANT): Parts = {"sessions"}
\*   NothingIsUndone: SPECIFICATION Spec, CacheBudgets <- CacheUndone
\*   OutcomeIsAlwaysFinal: SPECIFICATION Spec, Parts = {"purchases"}, PurchaseBudgets <- TwoOwners
\*   PageIsStillAllowed (INVARIANT): Parts = {"navigation"}
\*   PurchasesAlwaysSettle: Parts = {"purchases"}, PurchaseBudgets <- Restart
\*   RefusedIsNeverShown (INVARIANT): CacheBudgets <- CacheRefused
\*   SessionSurvivesOutage (INVARIANT): Parts = {"sessions"}
\*   UninstalledIsAllowed (INVARIANT): Parts = {"navigation"}
\*   WritesAreAlwaysShown (INVARIANT): CacheBudgets <- CacheOverlap
SPECIFICATION FairSpec
CONSTANTS
    Parts = {"cache"}
    Keys <- MCKeys
    CacheBudgets <- CacheUnanswered
    Losses <- MCLosses
    NavigationBudgets <- MCNavigation
    Devices = {a, b}
    Tokens = 3
    ApiKeys = {k, l}
    Callers = {c, d}
    SessionBudgets <- MCSessions
    DomainRequests = {q, r}
    DomainNames = {dom}
    DomainOf <- OneDomain
    Teams = {t, u}
    Accounts = {acc}
    Awaits = {f, g, h}
    PurchaseBudgets <- MCPurchases
PROPERTIES
    LiveCatchesUp
CHECK_DEADLOCK FALSE
