----------------------------- MODULE Purchases -----------------------------
(* Buying domains for teams: the purchase requests and the purchase path   *)
(* (controllers/domainsController.ts), and the registrar accounts teams    *)
(* share (controllers/registrarController.ts).                             *)
(*                                                                         *)
(* Every request to the leader is a flow, a sequence of awaits between     *)
(* which other flows run. The registrar is external: it registers a domain *)
(* that is free, takes as long as it likes and may refuse in the end.      *)
EXTENDS Integers, FiniteSets

CONSTANTS
    Requests, Domains,
    DomainOf,    \* the domain each request is about
    Teams, Accounts,
    Flows,       \* bound: requests to the leader at once
    Budgets      \* bound: each is how often events of the kinds it names may happen

Kinds == {"overlap",  \* a flow starts while another runs
          "decide", "buy", "save", "remove",
          "taken",    \* somebody else registers the domain
          "refused",  \* a registration ends in failure
          "slow",     \* a registration outlasts the polling, or waits for somebody's action
          "lost",     \* the answer to a registration is lost
          "unsynced", \* the mirror cannot be refreshed after a purchase
          "crash"}

\* Checked where the module is instantiated (MCDashboard.tla).
PurchaseAssumption ==
    /\ Requests # {} /\ Teams # {}
    /\ DomainOf \in [Requests -> Domains]
    /\ \A b \in Budgets : DOMAIN b \subseteq Kinds /\ \A k \in DOMAIN b : b[k] \in Nat

VARIABLES
    status,    \* DomainRequestModel: the status of each request
    told,      \* what the requester was notified of
    domain,    \* the domains at the registrar
    bought,    \* the registrations each request has started
    links,     \* TeamRegistrarModel
    accounts,  \* RegistrarAccountModel
    flow,      \* per flow: where it stands
    used       \* how often an event of each kind has happened

vars == <<status, told, domain, bought, links, accounts, flow, used>>
requests == <<status, told>>
registrar == <<domain, bought>>
teams == <<links, accounts>>

May(kinds) ==
    \E b \in Budgets : \A k \in Kinds :
        used[k] + (IF k \in kinds THEN 1 ELSE 0) <= IF k \in DOMAIN b THEN b[k] ELSE 0
Uses(kinds) ==
    /\ May(kinds)
    /\ used' = [k \in Kinds |-> used[k] + (IF k \in kinds THEN 1 ELSE 0)]
Never(kinds) == \A k \in kinds : used[k] = 0

Statuses == {"none", "pending", "denied", "purchasing", "purchased", "failed"}
Settled == {"denied", "purchased", "failed"}
NoAccount == "none"

NoFlow == [pc |-> "done", req |-> CHOOSE r \in Requests : TRUE,
           team |-> CHOOSE t \in Teams : TRUE, account |-> NoAccount]
Steps == {"done", "deny", "approve", "check", "register", "poll", "adopt", "save", "link", "others", "delete"}

Begins(f, kinds) ==
    /\ flow[f] = NoFlow
    /\ Uses(IF \A g \in Flows : flow[g] = NoFlow THEN kinds ELSE kinds \union {"overlap"})
Goes(f, pc) == flow' = [flow EXCEPT ![f].pc = pc]
Ends(f) == flow' = [flow EXCEPT ![f] = NoFlow]
At(f, pc) == flow[f].pc = pc
D(f) == DomainOf[flow[f].req]

-----------------------------------------------------------------------------
(* Requests and decisions *)

\* createRequest, by a member who may not buy.
CreateRequest(r) ==
    /\ status[r] = "none"
    /\ status' = [status EXCEPT ![r] = "pending"]
    /\ UNCHANGED <<told, registrar, teams, flow, used>>

\* requirePurchaseCreds: the team has an account that exists.
Configured(t) == links[t] \in accounts

Undecided(r) == status[r] = "pending"

\* decideRequest reads the request; the status is written an await later.
StartDecide(f, r, t, approve) ==
    /\ Undecided(r) /\ Configured(t)
    /\ Begins(f, {"decide"})
    /\ flow' = [flow EXCEPT ![f] = [NoFlow EXCEPT !.pc = IF approve THEN "approve" ELSE "deny",
                                                  !.req = r, !.account = links[t]]]
    /\ UNCHANGED <<requests, registrar, teams>>

\* A save writes the whole request as the flow knows it, and the requester is
\* told how it ended.
Saves(r, s) ==
    /\ status' = [status EXCEPT ![r] = s]
    /\ told' = IF s \in Settled THEN [told EXCEPT ![r] = @ \union {s}] ELSE told

Deny(f) ==
    /\ At(f, "deny")
    /\ Saves(flow[f].req, "denied") /\ Ends(f)
    /\ UNCHANGED <<registrar, teams, used>>

Approve(f) ==
    /\ At(f, "approve")
    /\ Saves(flow[f].req, "purchasing") /\ Goes(f, "check")
    /\ UNCHANGED <<registrar, teams, used>>

\* buyDomain: an owner needs no approval.
StartBuy(f, r, t) ==
    /\ status[r] = "none" /\ Configured(t)
    /\ Begins(f, {"buy"})
    /\ Saves(r, "purchasing")
    /\ flow' = [flow EXCEPT ![f] = [NoFlow EXCEPT !.pc = "check", !.req = r, !.account = links[t]]]
    /\ UNCHANGED <<registrar, teams>>

-----------------------------------------------------------------------------
(* performPurchase *)

Fails(f) == Saves(flow[f].req, "failed") /\ Ends(f)

\* The availability is checked again right before the purchase.
Check(f) ==
    /\ At(f, "check")
    /\ IF domain[D(f)] = "free"
       THEN Goes(f, "register") /\ UNCHANGED requests
       ELSE Fails(f)
    /\ UNCHANGED <<registrar, teams, used>>

\* mutant: a registration that was accepted counts as completed
Completed_Accepted(d) == domain[d] \in {"registering", "ours"}
Completed(d) == domain[d] = "ours"

\* registerDomain: the registrar refuses what is not free. When the answer is
\* lost the purchase counts as failed.
Register(f) ==
    /\ At(f, "register")
    /\ IF domain[D(f)] = "free"
       THEN /\ domain' = [domain EXCEPT ![D(f)] = "registering"]
            /\ bought' = [bought EXCEPT ![flow[f].req] = @ + 1]
            /\ \/ Goes(f, "poll") /\ UNCHANGED <<requests, used>>
               \/ Uses({"lost"}) /\ Fails(f)
       ELSE Fails(f) /\ UNCHANGED <<registrar, used>>
    /\ UNCHANGED teams

\* pollRegistration: twelve rounds, of which only the last answer matters. A registration
\* that needs an action of the owner fails at once, and may complete later all the same.
Poll(f) ==
    /\ At(f, "poll")
    /\ \/ Completed(D(f)) /\ Goes(f, "adopt") /\ UNCHANGED <<requests, used>>
       \/ domain[D(f)] = "refused" /\ Fails(f) /\ UNCHANGED used
       \/ domain[D(f)] = "registering" /\ Uses({"slow"}) /\ Fails(f)
    /\ UNCHANGED <<registrar, teams>>

\* The zone is adopted: an error of the refresh fails the purchase.
Adopt(f) ==
    /\ At(f, "adopt")
    /\ \/ Goes(f, "save") /\ UNCHANGED <<requests, used>>
       \/ Uses({"unsynced"}) /\ Fails(f)
    /\ UNCHANGED <<registrar, teams>>

SavePurchased(f) ==
    /\ At(f, "save")
    /\ Saves(flow[f].req, "purchased") /\ Ends(f)
    /\ UNCHANGED <<registrar, teams, used>>

-----------------------------------------------------------------------------
(* Registrar accounts *)

\* saveTeamRegistrar: the account, then the link.
StartSave(f, t, a) ==
    /\ Begins(f, {"save"})
    /\ accounts' = accounts \union {a}
    /\ flow' = [flow EXCEPT ![f] = [NoFlow EXCEPT !.pc = "link", !.team = t, !.account = a]]
    /\ UNCHANGED <<requests, registrar, links>>

Link(f) ==
    /\ At(f, "link")
    /\ links' = [links EXCEPT ![flow[f].team] = flow[f].account]
    /\ Ends(f)
    /\ UNCHANGED <<requests, registrar, accounts, used>>

\* removeTeamRegistrar: unlink, look for other teams, delete the account.
StartRemove(f, t) ==
    /\ links[t] # NoAccount
    /\ Begins(f, {"remove"})
    /\ links' = [links EXCEPT ![t] = NoAccount]
    /\ flow' = [flow EXCEPT ![f] = [NoFlow EXCEPT !.pc = "others", !.team = t, !.account = links[t]]]
    /\ UNCHANGED <<requests, registrar, accounts>>

OtherTeams(a, t) == {u \in Teams \ {t} : links[u] = a}

Others(f) ==
    /\ At(f, "others")
    /\ IF OtherTeams(flow[f].account, flow[f].team) = {} THEN Goes(f, "delete") ELSE Ends(f)
    /\ UNCHANGED <<requests, registrar, teams, used>>

DeleteAccount(f) ==
    /\ At(f, "delete")
    /\ accounts' = accounts \ {flow[f].account}
    /\ Ends(f)
    /\ UNCHANGED <<requests, registrar, links, used>>

-----------------------------------------------------------------------------
(* The environment *)

\* The registrar finishes a registration, also one nobody waits for any more.
Registered(d) ==
    /\ domain[d] = "registering"
    /\ \/ domain' = [domain EXCEPT ![d] = "ours"] /\ UNCHANGED used
       \/ Uses({"refused"}) /\ domain' = [domain EXCEPT ![d] = "refused"]
    /\ UNCHANGED <<requests, bought, teams, flow>>

Taken(d) ==
    /\ domain[d] = "free" /\ Uses({"taken"})
    /\ domain' = [domain EXCEPT ![d] = "taken"]
    /\ UNCHANGED <<requests, bought, teams, flow>>

\* The leader restarts: nothing takes up a purchase that was under way.
Crash ==
    /\ \E f \in Flows : flow[f] # NoFlow
    /\ Uses({"crash"})
    /\ flow' = [f \in Flows |-> NoFlow]
    /\ UNCHANGED <<requests, registrar, teams>>

-----------------------------------------------------------------------------
Init ==
    /\ status = [r \in Requests |-> "none"] /\ told = [r \in Requests |-> {}]
    /\ domain = [d \in Domains |-> "free"] /\ bought = [r \in Requests |-> 0]
    /\ links \in [Teams -> Accounts \union {NoAccount}]
    /\ accounts = {links[t] : t \in Teams} \ {NoAccount}
    /\ flow = [f \in Flows |-> NoFlow]
    /\ used = [k \in Kinds |-> 0]

Starts(f) ==
    \/ \E r \in Requests, t \in Teams :
          StartBuy(f, r, t) \/ \E approve \in BOOLEAN : StartDecide(f, r, t, approve)
    \/ \E t \in Teams : StartRemove(f, t) \/ \E a \in Accounts : StartSave(f, t, a)

Step(f) ==
    \/ Deny(f) \/ Approve(f) \/ Check(f) \/ Register(f) \/ Poll(f) \/ Adopt(f) \/ SavePurchased(f)
    \/ Link(f) \/ Others(f) \/ DeleteAccount(f)

Next ==
    \/ \E r \in Requests : CreateRequest(r)
    \/ \E f \in Flows : Starts(f) \/ Step(f)
    \/ \E d \in Domains : Registered(d) \/ Taken(d)
    \/ Crash

Spec == Init /\ [][Next]_vars

\* Awaits end, and so does a registration; owners need not decide.
Fairness ==
    /\ \A f \in Flows : WF_vars(Step(f))
    /\ \A d \in Domains : WF_vars(Registered(d))

FairSpec == Spec /\ Fairness

-----------------------------------------------------------------------------
(* Properties *)

TypeOK ==
    /\ status \in [Requests -> Statuses] /\ told \in [Requests -> SUBSET Settled]
    /\ domain \in [Domains -> {"free", "registering", "ours", "refused", "taken"}]
    /\ bought \in [Requests -> {0, 1}]
    /\ links \in [Teams -> Accounts \union {NoAccount}] /\ accounts \subseteq Accounts
    /\ flow \in [Flows -> [pc : Steps, req : Requests, team : Teams, account : Accounts \union {NoAccount}]]
    /\ \A f \in Flows : flow[f].pc \in {"deny", "approve", "check", "register", "poll", "adopt", "save"}
                      => flow[f].account \in Accounts
    /\ used \in [Kinds -> Nat]

\* A request that was purchased owns its domain, and nobody else paid for it,
\* whatever flows run beside it.
PurchasedIsOurs ==
    \A r \in Requests : status[r] = "purchased" =>
        /\ domain[DomainOf[r]] = "ours" /\ bought[r] = 1
        /\ \A q \in Requests \ {r} : DomainOf[q] = DomainOf[r] => bought[q] = 0

\* No money is spent on a request that was denied or failed. It is when the
\* registrar is slow, its answer is lost, or the mirror cannot be refreshed.
FailedIsNotOurs ==
    Never({"overlap", "slow", "lost", "unsynced"}) =>
    \A r \in Requests : status[r] \in {"denied", "failed"} /\ bought[r] > 0
                        => domain[DomainOf[r]] = "refused"

\* The same when the registrar is slow.
FailedIsNeverOurs ==
    Never({"overlap", "lost", "unsynced"}) =>
    \A r \in Requests : status[r] = "failed" => domain[DomainOf[r]] # "ours"

\* A requester is told one outcome and the request keeps it, while no two
\* decisions are taken at once.
OutcomeIsFinal ==
    [][Never({"overlap"}) =>
       \A r \in Requests : status[r] \in Settled => status'[r] = status[r] /\ told'[r] = told[r]]_vars

\* The same when decisions may be taken at once (domainsController.ts:191).
OutcomeIsAlwaysFinal ==
    [][\A r \in Requests : status[r] \in Settled => status'[r] = status[r]]_vars

\* A purchase that was started is settled, unless the leader restarts.
PurchasesSettle ==
    \A r \in Requests : status[r] = "purchasing" ~> (status[r] \in Settled \/ ~Never({"crash"}))

\* The same with restarts.
PurchasesAlwaysSettle == \A r \in Requests : status[r] = "purchasing" ~> status[r] \in Settled

\* A team is linked to an account that exists (registrarController.ts:155-156),
\* while accounts are not saved and removed at once.
LinkedAccountExists ==
    Never({"overlap"}) => \A t \in Teams : links[t] # NoAccount => links[t] \in accounts

\* The same when they are.
LinkedAccountAlwaysExists == \A t \in Teams : links[t] # NoAccount => links[t] \in accounts

=============================================================================
