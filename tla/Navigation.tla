----------------------------- MODULE Navigation -----------------------------
(* The way of a user through the frontend: the sidebar and the router show *)
(* what the permissions say that the tab has read (useMe), the server      *)
(* checks those that hold (Routes.tla).                                    *)
EXTENDS Pages, Naturals

CONSTANTS
    Losses,  \* bound: what rights may change to
    Budgets  \* bound: each is how often events of the kinds it names may happen

Kinds == {"change",  \* somebody changes the user's rights
          "link"}    \* the user takes a link in a page

VARIABLES
    rights,   \* of the user, at the server
    me,       \* as the tab has read them
    page,
    arrived,  \* the rights the tab knew when the page was opened
    used

vars == <<rights, me, page, arrived, used>>

May(kinds) ==
    \E b \in Budgets : \A k \in Kinds :
        used[k] + (IF k \in kinds THEN 1 ELSE 0) <= IF k \in DOMAIN b THEN b[k] ELSE 0
Uses(kinds) ==
    /\ May(kinds)
    /\ used' = [k \in Kinds |-> used[k] + (IF k \in kinds THEN 1 ELSE 0)]
Never(kinds) == \A k \in kinds : used[k] = 0

R == INSTANCE Routes

Caps == {"view", "deploy", "configure", "delete", "create_project", "manage_incidents"}
\* What getEffectiveCapabilitiesForTeam may grant: everything to admins and owners, nothing without
\* the App, VIEW with anything.
Rights ==
    {r \in [caps : SUBSET Caps, admin : BOOLEAN, super : BOOLEAN, owner : BOOLEAN, installed : BOOLEAN] :
        /\ r.super => r.admin
        /\ r.owner => r.installed
        /\ IF ~r.installed THEN r.caps = {}
           ELSE IF r.admin \/ r.owner THEN r.caps = Caps
           ELSE r.caps # {} => "view" \in r.caps}

\* The app shell for who has no team and is no admin.
hasNoAccess(r) == ~r.admin /\ r.caps = {}

-----------------------------------------------------------------------------
(* The frontend: what it asks of the rights it knows *)

Satisfies(r, asks) ==
    \/ asks = "admin" /\ r.admin
    \/ asks = "super" /\ r.super
    \/ asks = "manage" /\ (r.admin \/ r.owner)
    \/ asks \in r.caps

\* The projects of a team are in the sidebar while the App is installed and they may be seen.
InSidebar(r, p) ==
    /\ Satisfies(r, deriveSidebarStack[p])
    /\ p \in UNION {DOMAIN projectLevel, DOMAIN configLevel, DOMAIN monitoringLevel} => r.installed /\ "view" \in r.caps

\* The routes of the cluster's pages exist for admins only.
Router(r, p) == p \in DOMAIN nsmRootLevel => r.admin

\* Links in a page that ask for nothing.
Links == {<<"ProjectDeployPage", "ConfigProjectPage">>, <<"ProjectDeployPage", "NodesPage">>}

\* Queries that a page leaves out for who may not make them.
Enabled == [publicIp |-> "admin", teamDomainBilling |-> "manage"]

\* What a page asks of the server, and offers.
Requests(r, p) ==
    {queryKeys[k].route :
        k \in {q \in Mounted(p) : q \in DOMAIN Enabled => Satisfies(r, Enabled[q])}}
    \cup {Mutations[h].route :
            h \in UNION {{o.steps[i] : i \in DOMAIN o.steps} : o \in {o \in Pages[p].offers : Satisfies(r, o.asks)}}}

Show(p) == page' = p /\ arrived' = me
NotFound == page' = "none" /\ arrived' = me

Go(p) ==
    /\ InSidebar(me, p) /\ ~hasNoAccess(me)
    /\ Show(p)
    /\ UNCHANGED <<rights, me, used>>

FollowLink ==
    /\ Uses({"link"})
    /\ \E link \in Links :
        /\ link[1] = page
        /\ IF Router(me, link[2]) THEN Show(link[2]) ELSE NotFound
    /\ UNCHANGED <<rights, me>>

-----------------------------------------------------------------------------
(* Rights *)

Change ==
    /\ Uses({"change"})
    /\ rights' \in Losses
    /\ UNCHANGED <<me, page, arrived>>

\* GET_ME again: the routes that are no longer there, and the app itself, are unmounted.
Refresh ==
    /\ me # rights
    /\ me' = rights
    /\ IF page # "none" /\ (hasNoAccess(rights) \/ ~Router(rights, page)) THEN page' = "none" /\ arrived' = rights
       ELSE UNCHANGED <<page, arrived>>
    /\ UNCHANGED <<rights, used>>

Init ==
    /\ rights \in Rights /\ me = rights
    /\ page = "none" /\ arrived = rights
    /\ used = [k \in Kinds |-> 0]

Next == FollowLink \/ Change \/ Refresh \/ \E p \in DOMAIN deriveSidebarStack : Go(p)

Spec == Init /\ [][Next]_vars

-----------------------------------------------------------------------------
(* Properties *)

TypeOK ==
    /\ {rights, me, arrived} \subseteq Rights
    /\ page \in DOMAIN Pages \cup {"none"}

\* What the server asks of a request (authz.ts; the session is there, the leader is found).
Allowed(r, route) ==
    \A i \in DOMAIN R!Table[route].checks :
        LET c == R!Table[route].checks[i] IN
        /\ c.check = "caps" => c.cap \in r.caps
        /\ c.check = "manage" => r.installed /\ (r.admin \/ r.owner)
        /\ c.check = "member" => r.admin \/ r.owner \/ r.caps # {}
        /\ c.check = "admin" => r.admin
        /\ c.check = "super" => r.super
        /\ c.check = "installed" => r.installed
\* GET_PROJECTS leaves out what may not be seen.
Answered(r) == \A route \in Requests(r, page) \ {"none", "GET_PROJECTS"} : Allowed(r, route)

\* Whoever comes to a page by the sidebar with the rights they have is refused nothing that the
\* page reads or offers, for every combination of rights (sidebarModel.ts mirrors authz.ts).
OfferedIsAllowed ==
    page # "none" /\ arrived = rights /\ me = rights /\ rights.installed /\ Never({"link"}) => Answered(me)

\* The cluster's pages are gone as soon as the tab knows that its user is no admin (router.tsx).
AdminPagesGo == page \in DOMAIN nsmRootLevel => me.admin

-----------------------------------------------------------------------------
(* Claims that fail *)

\* The deploy page links to the configuration for who may only deploy.
LinkedIsAllowed ==
    page # "none" /\ arrived = rights /\ me = rights /\ rights.installed => Answered(me)
\* The settings of a team without the App are offered to admins, and everything in them refused.
UninstalledIsAllowed ==
    page # "none" /\ arrived = rights /\ me = rights /\ Never({"link"}) => Answered(me)
\* A page stays when the right to it has gone, and the tab knows.
PageIsStillAllowed ==
    page # "none" /\ me = rights /\ rights.installed /\ Never({"link"}) => Answered(me)

=============================================================================
