----------------------------- MODULE MCDashboard -----------------------------
(* What a user works with: the cache of a tab, the way through its pages,  *)
(* the sessions and keys that requests carry, and the domains bought for a *)
(* team. The components share no state that is modelled, so each behaviour *)
(* checked here lets one of them move.                                     *)
EXTENDS Integers, Sequences, FiniteSets

CONSTANTS
    Parts,  \* the components to check
    Keys, CacheBudgets,
    Losses, NavigationBudgets,
    Devices, Tokens, ApiKeys, Callers, SessionBudgets,
    DomainRequests, DomainNames, DomainOf, Teams, Accounts, Awaits, PurchaseBudgets

ASSUME TokensAssumption == Tokens \in Nat

VARIABLES
    part,
    key, page, served, query, posts, final, draft, used,
    rights, me, nPage, arrived, nUsed,
    issued, valid, holds, user, request, asked, ended, last, project, rows, known, pending, call, cUsed,
    status, told, domain, bought, links, accounts, flow, pUsed

Queries == INSTANCE Hooks
D == INSTANCE Dashboard WITH Budgets <- CacheBudgets
N == INSTANCE Navigation WITH Budgets <- NavigationBudgets, page <- nPage, used <- nUsed
C == INSTANCE Credentials WITH Budgets <- SessionBudgets, used <- cUsed
P == INSTANCE Purchases WITH Budgets <- PurchaseBudgets, used <- pUsed, Flows <- Awaits,
                             Requests <- DomainRequests, Domains <- DomainNames

\* The query that is followed is one that the pages use.
ASSUME KeysAssumption == Keys \subseteq D!QueryKeys
ASSUME Purchasable == P!PurchaseAssumption
\* What rights change to are rights somebody can have.
ASSUME LossesAssumption == Losses \subseteq N!Rights

dVars == <<key, page, served, query, posts, final, draft, used>>
nVars == <<rights, me, nPage, arrived, nUsed>>
cVars == <<issued, valid, holds, user, request, asked, ended, last, project, rows, known, pending, call, cUsed>>
pVars == <<status, told, domain, bought, links, accounts, flow, pUsed>>

\* A component that does not move begins in one state, in which it has nothing to do.
Init ==
    /\ part \in Parts
    /\ D!Init /\ N!Init /\ C!Init /\ P!Init
    /\ part # "cache" => key = "team" /\ page = "EmptyTeamPage"
    /\ part # "navigation" => rights = [caps |-> {}, admin |-> FALSE, super |-> FALSE, owner |-> FALSE, installed |-> FALSE]
    /\ part # "purchases" => links = [t \in Teams |-> P!NoAccount]

Next ==
    \/ part = "cache" /\ D!Next /\ UNCHANGED <<part, nVars, cVars, pVars>>
    \/ part = "navigation" /\ N!Next /\ UNCHANGED <<part, dVars, cVars, pVars>>
    \/ part = "sessions" /\ C!Next /\ UNCHANGED <<part, dVars, nVars, pVars>>
    \/ part = "purchases" /\ P!Next /\ UNCHANGED <<part, dVars, nVars, cVars>>

Spec == Init /\ [][Next]_<<part, dVars, nVars, cVars, pVars>>
FairSpec == Spec /\ D!Fairness /\ P!Fairness

-----------------------------------------------------------------------------
(* The properties of each component that the run checks together *)

\* Dashboard.tla: a page shows what was written and not what was refused, keeps
\* what is being edited, and lists everything (useProjects.ts and the mutations).
CacheFollowsWrites ==
    /\ D!TypeOK
    /\ D!WritesAreShown
    /\ D!RefusedIsNotShown
    /\ D!DraftSurvives
    /\ D!ListIsComplete

\* Dashboard.tla: the status of a deployment on the screen comes to be the one at
\* the leader (useProjectStatuses and the live view). Purchases.tla: a purchase that
\* was started comes to an end (performPurchase).
PendingSettles == D!StatusCatchesUp /\ P!PurchasesSettle

\* Navigation.tla: what the sidebar offers is allowed, and the pages of admins go
\* when the rights do (sidebarModel.ts, router.tsx).
PagesMatchRights == N!TypeOK /\ N!OfferedIsAllowed /\ N!AdminPagesGo

\* Credentials.tla: signing out, signing in, revoking a key and deleting a project
\* have the effect they are asked for, on that browser or key only
\* (userController.ts, apiKeyController.ts).
CredentialsEnd ==
    /\ [](/\ C!TypeOK
         /\ C!SignedOutIsOut
         /\ C!NewestSignInWins
         /\ C!OnlyAskedAreOut
         /\ C!KeysDieWithProject)
    /\ C!RevokedStaysRevoked

\* Purchases.tla: the outcome of a request for a domain stays, and says whether the
\* domain is ours; a team is linked to an account that exists
\* (domainsController.ts, registrarController.ts).
PurchasesAreTrue ==
    /\ [](/\ P!TypeOK
         /\ P!PurchasedIsOurs
         /\ P!FailedIsNotOurs
         /\ P!LinkedAccountExists)
    /\ P!OutcomeIsFinal

-----------------------------------------------------------------------------
(* Stronger statements that the code does not keep; DashboardBad.cfg shows  *)
(* a counterexample of each                                                *)

WritesAreAlwaysShown == D!WritesAreAlwaysShown
EverythingIsRefreshed == D!EverythingIsRefreshed
RefusedIsNeverShown == D!RefusedIsNeverShown
FlipsAreUndone == D!FlipsAreUndone
DraftSurvivesButtons == D!DraftSurvivesButtons
ListIsAlwaysComplete == D!ListIsAlwaysComplete
BlankIsNeverShown == D!BlankIsNeverShown
NothingIsUndone == D!NothingIsUndone
LiveCatchesUp == D!LiveCatchesUp
DeploymentIsShownAsItIs == D!DeploymentIsShownAsItIs
LinkedIsAllowed == N!LinkedIsAllowed
UninstalledIsAllowed == N!UninstalledIsAllowed
PageIsStillAllowed == N!PageIsStillAllowed
NewestSignInAlwaysWins == C!NewestSignInAlwaysWins
SessionSurvivesOutage == C!SessionSurvivesOutage
EveryBrowserStaysIn == C!EveryBrowserStaysIn
KeysAlwaysDieWithProject == C!KeysAlwaysDieWithProject
FailedIsNeverOurs == P!FailedIsNeverOurs
LinkedAccountAlwaysExists == P!LinkedAccountAlwaysExists
OutcomeIsAlwaysFinal == P!OutcomeIsAlwaysFinal
PurchasesAlwaysSettle == P!PurchasesAlwaysSettle

-----------------------------------------------------------------------------
(* Bounds: how often events of each kind may happen, not at all where unnamed *)

MCKeys == Queries!QueryKeys
MCCache ==
    {[submit |-> 1, other |-> 1, wait |-> 1], [submit |-> 1, navigate |-> 1],
     [submit |-> 1, edit |-> 1, refused |-> 1], [submit |-> 1, flip |-> 1, refused |-> 1],
     [submit |-> 1, unheard |-> 1], [submit |-> 1, unanswered |-> 1],
     [submit |-> 1, early |-> 1, overlap |-> 1], [submit |-> 2, overlap |-> 1],
     [other |-> 1, edit |-> 1, navigate |-> 1]}
CacheOverlap == {[submit |-> 2, edit |-> 1, overlap |-> 1]}
CacheSubmit == {[submit |-> 1]}
CacheRefused == {[submit |-> 1, edit |-> 1, refused |-> 1]}
CacheFlip == {[submit |-> 1, flip |-> 1, refused |-> 1]}
CacheButton == {[submit |-> 1, edit |-> 1]}
CacheEarly == {[submit |-> 1, early |-> 1, overlap |-> 1]}
CacheUnanswered == {[unanswered |-> 1]}
CacheEnded == {[other |-> 2]}
CacheUndone == {[submit |-> 1, edit |-> 1, other |-> 1]}

Caps(caps, installed) == [caps |-> caps, admin |-> FALSE, super |-> FALSE, owner |-> FALSE, installed |-> installed]
MCLosses == {Caps({}, FALSE), Caps({}, TRUE), Caps({"view"}, TRUE)}
MCNavigation == {[change |-> 1, link |-> 1]}

MCSessions ==
    {[login |-> 2, load |-> 2, logout |-> 2, kept |-> 1, outage |-> 1, overlap |-> 2],
     [key |-> 2, revoke |-> 2, call |-> 2, delete |-> 1, overlap |-> 3]}

Purchasing ==
    {[decide |-> 2, buy |-> 1, taken |-> 1], [decide |-> 2, buy |-> 1, overlap |-> 2],
     [decide |-> 1, buy |-> 1, slow |-> 1], [decide |-> 1, buy |-> 1, refused |-> 1],
     [decide |-> 1, buy |-> 1, lost |-> 1], [decide |-> 1, buy |-> 1, unsynced |-> 1],
     [decide |-> 2, buy |-> 1, crash |-> 1]}
Linking ==
    {[save |-> 2, remove |-> 2, crash |-> 1], [save |-> 1, remove |-> 2, decide |-> 1],
     [remove |-> 1, decide |-> 1, overlap |-> 1]}
MCPurchases == Purchasing \cup Linking

\* The domain every request asks for.
OneDomain == [r \in DomainRequests |-> CHOOSE d \in DomainNames : TRUE]
Slow == {[buy |-> 1, slow |-> 1]}
TwoOwners == {[decide |-> 2, overlap |-> 1]}
Restart == {[buy |-> 1, crash |-> 1]}
SaveAndRemove == {[save |-> 1, remove |-> 1, overlap |-> 1]}

=============================================================================
