------------------------------ MODULE Ingress ------------------------------
(***************************************************************************)
(* The leader as the only TLS ingress (reconcile/nginxRender.ts, certs.ts, *)
(* dashboardIngress.ts): one vhost file per project, written only when     *)
(* every domain of it has a certificate on record, and loaded by a reload  *)
(* of nginx; certificates obtained by certbot for every desired domain and *)
(* removed with the project.  The tick renders, then obtains; deployments  *)
(* and promotions obtain beside it, teardowns and deletions render and     *)
(* remove beside it, and each pass works with what it read when it began.  *)
(***************************************************************************)
EXTENDS Integers, FiniteSets

CONSTANTS
    Projects, Domains,
    Wants,      \* Wants[p]: the sets of domains project p may be configured with
    Dash,       \* the domain of the dashboard, as a set: empty when it has none
    Dns,        \* domains whose challenge is answered by DNS, the others' by nginx
    Flows,      \* bound: passes beside the tick
    Budgets     \* bound: each is how often events of the kinds it names may happen

Kinds == {"deploy", "retire", "expire",
          "fail",       \* certbot fails, to issue or to delete
          "killed",     \* certbot is killed at its timeout, or by a signal
      "unissued",   \* and there is no certificate yet
      "unloaded",   \* nginx does not reload
          "crash",      \* the leader restarts
          "shared",     \* a project is retired whose domains are in use elsewhere
          "overlap"}    \* a retirement runs beside anything else

VARIABLES
    dep,        \* the desired deployments: the domains of the pending and the active conf
    rows,       \* CertModel: what is on record of a domain's certificate
    live,       \* letsencryptLiveDir: how often the lineage was issued, 0 when there is none
    old,        \* the lineages about to expire
    cooldown,   \* lastFailedAt, where it holds certbot back
    disk,       \* nginxConfDir: the domains of each file, none when there is no file
    nginx,      \* what nginx runs: the files, and the lineages as they were
    flow,       \* the passes
    used        \* how often an event of each kind has happened

vars == <<dep, rows, live, old, cooldown, disk, nginx, flow, used>>

Vhosts == Projects \cup {"dashboard"}
\* the vhost that answers challenges for the domains without a certificate
Files == Vhosts \cup {"challenge"}
NoFiles == [n \in Files |-> {}]
NotDeployed == [pending |-> {}, active |-> {}]
Nothing == [p \in Projects |-> NotDeployed]

Tick == "tick"
Passes == Flows \cup {Tick}
Pass(does, at, todo) ==
    [does |-> does, at |-> at, deps |-> Nothing, goal |-> NoFiles, todo |-> todo, now |-> {}]
Idle == Pass("nothing", "idle", {})
Busy(does) == {f \in Passes : flow[f].does = does}

Uses(kinds) ==
    /\ used' = [k \in Kinds |-> used[k] + (IF k \in kinds THEN 1 ELSE 0)]
    /\ \E b \in Budgets : \A k \in Kinds : used'[k] <= IF k \in DOMAIN b THEN b[k] ELSE 0
Never(kinds) == \A k \in kinds : used[k] = 0
\* what begins now runs beside a retirement
Overlap == IF Busy("retire") = {} THEN {} ELSE {"overlap"}
Goes(f, pass) == flow' = [flow EXCEPT ![f] = pass]
On(f, at) == [flow[f] EXCEPT !.at = at]

\* nginx -t: every certificate a vhost names is there
Valid(files) == \A n \in Vhosts : \A d \in files[n] : live[d] > 0
Load(files) == nginx' = [files |-> files, certs |-> live]

-----------------------------------------------------------------------------
(* renderAllNginx                                                          *)

ReadDeployments(f) ==
    /\ flow[f].at = "read"
    /\ Goes(f, [flow[f] EXCEPT !.at = "certs", !.deps = dep])
    /\ UNCHANGED <<dep, rows, live, old, cooldown, disk, nginx, used>>

OnRecord == {d \in Domains : rows[d] # "none"}

\* mutant: vhosts are written whether or not their certificates are on record
Served_Ungated(dep_p) == dep_p.active
\* a vhost is deferred until all its domains have a row
Served(dep_p) == IF dep_p.active \subseteq OnRecord THEN dep_p.active ELSE {}

\* mutant: no server answers for domains that wait for a certificate
Rendered_NoChallenge(deps) ==
    [n \in Files |-> IF n \in Projects THEN Served(deps[n]) ELSE IF n = "dashboard" THEN Dash \cap OnRecord ELSE {}]
Rendered(deps) ==
    [n \in Files |->
        CASE n \in Projects -> Served(deps[n])
          [] n = "dashboard" -> Dash \cap OnRecord
          [] n = "challenge" -> (UNION {deps[p].pending : p \in Projects}) \ OnRecord]

ReadCerts(f) ==
    /\ flow[f].at = "certs"
    /\ Goes(f, [On(f, "write") EXCEPT !.goal = Rendered(flow[f].deps), !.deps = Nothing])
    /\ UNCHANGED <<dep, rows, live, old, cooldown, disk, nginx, used>>

\* what follows a render: leaderEnsureCerts in the tick, removeCertsForDomains otherwise
Rest(f) == [flow[f] EXCEPT !.at = IF f = Tick THEN "list" ELSE "delete", !.goal = NoFiles]

Changed(f) == flow[f].goal # disk

WriteFiles(f) ==
    /\ flow[f].at = "write"
    /\ disk' = flow[f].goal
    /\ Goes(f, IF Changed(f) THEN [On(f, "test") EXCEPT !.goal = NoFiles] ELSE Rest(f))
    /\ UNCHANGED <<dep, rows, live, old, cooldown, nginx, used>>

TestConf(f) ==
    /\ flow[f].at = "test"
    /\ Goes(f, IF Valid(disk) THEN On(f, "reload") ELSE Rest(f))
    /\ UNCHANGED <<dep, rows, live, old, cooldown, disk, nginx, used>>

\* A reload that fails is logged.
Reload(f) ==
    /\ flow[f].at = "reload"
    /\ \/ Uses({}) /\ (IF Valid(disk) THEN Load(disk) ELSE UNCHANGED nginx)
       \/ Uses({"unloaded"}) /\ UNCHANGED nginx
    /\ Goes(f, Rest(f))
    /\ UNCHANGED <<dep, rows, live, old, cooldown, disk>>

-----------------------------------------------------------------------------
(* leaderEnsureCerts and obtainCert                                        *)

ListDomains(f) ==
    /\ flow[f].at = "list"
    /\ Goes(f, [On(f, "filter") EXCEPT !.todo = Dash \cup UNION {dep[p].pending : p \in Projects}])
    /\ UNCHANGED <<dep, rows, live, old, cooldown, disk, nginx, used>>

Missing(ds) == {d \in ds : rows[d] # "valid"}
FilterDomains(f) ==
    /\ flow[f].at = "filter"
    /\ Goes(f, [On(f, "obtain") EXCEPT !.todo = Missing(@)])
    /\ UNCHANGED <<dep, rows, live, old, cooldown, disk, nginx, used>>

StartCertbot(f) ==
    /\ flow[f].at = "obtain"
    /\ \E d \in flow[f].todo \ cooldown : Goes(f, [On(f, "certbot") EXCEPT !.now = {d}])
    /\ UNCHANGED <<dep, rows, live, old, cooldown, disk, nginx, used>>

EnsureDone(f) ==
    /\ flow[f].at = "obtain" /\ flow[f].todo \subseteq cooldown
    /\ Goes(f, Idle)
    /\ UNCHANGED <<dep, rows, live, old, cooldown, disk, nginx, used>>

\* Without DNS, nginx answers: it is reloaded with a changed configuration, which has to
\* be valid and to have a server for the domain.  The certificate is stored after that.
Answers(d) == d \in Dns \/ (Valid(disk) /\ \E n \in Files : d \in disk[n])

Issue(f) ==
    /\ flow[f].at = "certbot"
    /\ \E d \in flow[f].now :
         /\ Answers(d)
         /\ IF d \in Dns THEN UNCHANGED nginx ELSE Load(disk)
         /\ live' = IF live[d] = 0 \/ d \in old THEN [live EXCEPT ![d] = @ + 1] ELSE live
         /\ old' = old \ {d} /\ cooldown' = cooldown \ {d}
    /\ Goes(f, On(f, "record"))
    /\ UNCHANGED <<dep, rows, disk, used>>

CertbotFails(f) ==
    /\ flow[f].at = "certbot"
    /\ \E d \in flow[f].now :
         /\ Uses(IF Answers(d) THEN {"fail"} ELSE {})
         /\ cooldown' = cooldown \cup {d}
         /\ Goes(f, [On(f, "obtain") EXCEPT !.now = {}, !.todo = @ \ {d}])
    /\ UNCHANGED <<dep, rows, live, old, disk, nginx>>

\* A child that is killed has no exit code, which execStream takes for 0: a success.
CertbotKilled(f) ==
    /\ flow[f].at = "certbot"
    /\ \E d \in flow[f].now :
         /\ Uses({"killed"} \cup (IF live[d] = 0 THEN {"unissued"} ELSE {}))
         /\ cooldown' = cooldown \ {d}
    /\ Goes(f, On(f, "record"))
    /\ UNCHANGED <<dep, rows, live, old, disk, nginx>>

\* The expiry is read from the lineage; when it cannot be read, or there is no lineage,
\* it is taken to be sixty days away.
RecordCert(f) ==
    /\ flow[f].at = "record"
    /\ \E d \in flow[f].now, expiry \in {"valid", "due"} :
         /\ expiry = "due" => d \in old
         /\ rows' = [rows EXCEPT ![d] = expiry]
         /\ Goes(f, [On(f, "obtain") EXCEPT !.now = {}, !.todo = @ \ {d}])
    /\ UNCHANGED <<dep, live, old, cooldown, disk, nginx, used>>

CooldownEnds(d) ==
    /\ d \in cooldown /\ cooldown' = cooldown \ {d}
    /\ UNCHANGED <<dep, rows, live, old, disk, nginx, flow, used>>

\* Thirty days before the end the row and the lineage are due.
Expire(d) ==
    /\ rows[d] = "valid" \/ (live[d] > 0 /\ d \notin old)
    /\ Uses({"expire"})
    /\ old' = IF live[d] > 0 THEN old \cup {d} ELSE old
    /\ rows' = [rows EXCEPT ![d] = IF @ = "none" THEN @ ELSE "due"]
    /\ UNCHANGED <<dep, live, cooldown, disk, nginx, flow>>

-----------------------------------------------------------------------------
(* removeCertsForDomains, for one domain after the other                   *)

DeleteLineage(f) ==
    /\ flow[f].at = "delete"
    /\ \E d \in flow[f].todo :
         /\ \/ Uses({}) /\ live' = [live EXCEPT ![d] = 0] /\ old' = old \ {d}
            \/ Uses({"fail"}) /\ live[d] > 0 /\ UNCHANGED <<live, old>>
         /\ cooldown' = cooldown \ {d}
         /\ Goes(f, [On(f, "forget") EXCEPT !.now = {d}])
    /\ UNCHANGED <<dep, rows, disk, nginx>>

DeleteRow(f) ==
    /\ flow[f].at = "forget"
    /\ rows' = [d \in Domains |-> IF d \in flow[f].now THEN "none" ELSE rows[d]]
    /\ Goes(f, [On(f, "delete") EXCEPT !.now = {}, !.todo = @ \ flow[f].now])
    /\ UNCHANGED <<dep, live, old, cooldown, disk, nginx, used>>

RemoveDone(f) ==
    /\ flow[f].at = "delete" /\ flow[f].todo = {}
    /\ Goes(f, Idle)
    /\ UNCHANGED <<dep, rows, live, old, cooldown, disk, nginx, used>>

-----------------------------------------------------------------------------
(* What begins a pass                                                      *)

StartTick ==
    /\ flow[Tick] = Idle /\ Uses(Overlap)
    /\ Goes(Tick, Pass("tick", "read", {}))
    /\ UNCHANGED <<dep, rows, live, old, cooldown, disk, nginx>>

\* deployProject proposes a conf, and obtains certificates for its domains meanwhile.
\* Where the conf is served at once it is active, too.
Deploy(p) ==
    /\ Uses({"deploy"} \cup Overlap)
    /\ \E ds \in Wants[p], atOnce \in BOOLEAN, f \in Flows :
         /\ flow[f] = Idle /\ Goes(f, Pass("ensure", "list", {}))
         /\ dep' = [dep EXCEPT ![p] = [pending |-> ds, active |-> IF atOnce THEN ds ELSE @.active]]
    /\ UNCHANGED <<rows, live, old, cooldown, disk, nginx>>

Promote(p) ==
    /\ dep[p].active # dep[p].pending /\ Uses(Overlap)
    /\ \E f \in Flows : flow[f] = Idle /\ Goes(f, Pass("ensure", "list", {}))
    /\ dep' = [dep EXCEPT ![p].active = dep[p].pending]
    /\ UNCHANGED <<rows, live, old, cooldown, disk, nginx>>

\* teardownProjectWithCleanup and deleteProject, once the desired row is cleared; the
\* domains are those of the project's configuration
Retire(p) ==
    /\ dep[p] # NotDeployed
    /\ LET elsewhere == Dash \cup UNION {dep[q].pending \cup dep[q].active : q \in Projects \ {p}}
           kinds == {"retire"}
                    \cup (IF \A f \in Passes : flow[f] = Idle THEN {} ELSE {"overlap"})
                    \cup (IF dep[p].pending \cap elsewhere = {} THEN {} ELSE {"shared"})
       IN  Uses(kinds)
    /\ \E f \in Flows : flow[f] = Idle /\ Goes(f, Pass("retire", "read", dep[p].pending))
    /\ dep' = [dep EXCEPT ![p] = NotDeployed]
    /\ UNCHANGED <<rows, live, old, cooldown, disk, nginx>>

\* The tables, the files and nginx survive a restart.
Crash ==
    /\ Uses({"crash"})
    /\ flow' = [f \in Passes |-> Idle] /\ cooldown' = {}
    /\ UNCHANGED <<dep, rows, live, old, disk, nginx>>

-----------------------------------------------------------------------------

Init ==
    /\ dep = Nothing /\ disk = NoFiles
    /\ rows = [d \in Domains |-> "none"] /\ live = [d \in Domains |-> 0]
    /\ old = {} /\ cooldown = {}
    /\ nginx = [files |-> NoFiles, certs |-> live]
    /\ flow = [f \in Passes |-> Idle]
    /\ used = [k \in Kinds |-> 0]

Step(f) ==
    \/ ReadDeployments(f) \/ ReadCerts(f) \/ WriteFiles(f) \/ TestConf(f) \/ Reload(f)
    \/ ListDomains(f) \/ FilterDomains(f) \/ StartCertbot(f) \/ EnsureDone(f)
    \/ Issue(f) \/ CertbotFails(f) \/ CertbotKilled(f) \/ RecordCert(f)
    \/ DeleteLineage(f) \/ DeleteRow(f) \/ RemoveDone(f)

Next ==
    \/ \E f \in Passes : Step(f)
    \/ StartTick \/ Crash
    \/ \E p \in Projects : Deploy(p) \/ Promote(p) \/ Retire(p)
    \/ \E d \in Domains : Expire(d) \/ CooldownEnds(d)

Spec == Init /\ [][Next]_vars

\* Passes go on, the tick comes back every few seconds (startReconciler), and the cooldown
\* of fifteen minutes ends.
Fairness ==
    /\ \A f \in Passes : WF_vars(Step(f))
    /\ WF_vars(StartTick)
    /\ \A d \in Domains : WF_vars(CooldownEnds(d))
FairSpec == Spec /\ Fairness

-----------------------------------------------------------------------------

TypeOK ==
    /\ dep \in [Projects -> [pending : SUBSET Domains, active : SUBSET Domains]]
    /\ rows \in [Domains -> {"none", "valid", "due"}] /\ live \in [Domains -> Nat]
    /\ old \subseteq {d \in Domains : live[d] > 0} /\ cooldown \subseteq Domains
    /\ disk \in [Files -> SUBSET Domains] /\ nginx.files \in [Files -> SUBSET Domains]
    /\ \A f \in Passes : flow[f].does \in {"nothing", "tick", "ensure", "retire"}

\* The files on disk always pass nginx -t, whatever runs beside the tick, while no
\* retirement runs beside something else, takes a domain that is used elsewhere or is
\* cut short by a restart, and no certbot is killed before it has stored the first
\* certificate: a render never blocks the reloads certbot and the next render need
\* (renderAllNginx).  Certificates are issued, fail, expire and are renewed meanwhile, and
\* a killed renewal counts as a success.
ConfsStayValid ==
    Never({"overlap", "shared", "unissued"}) /\ (Never({"retire"}) \/ Never({"crash"})) => Valid(disk)

\* Once nothing is changed any more nginx comes to run the conf of every project whose
\* last deployment was promoted, of no project that was retired, and of the dashboard,
\* through failures of certbot, killed renewals, expiring certificates and shared domains
\* (reconcileTick).
Shows(p) == nginx.files[p] = dep[p].active
Promoted(p) == dep[p].active = dep[p].pending
IngressConverges ==
    <>[](Never({"unloaded", "crash", "overlap", "unissued"}) =>
            /\ \A p \in Projects : Promoted(p) => Shows(p)
            /\ nginx.files["dashboard"] = Dash)

-----------------------------------------------------------------------------
(* Stronger statements that do not hold                                    *)

\* renderAllNginx is there "so nginx is left in a valid, reloadable state": but a row can
\* outlive its lineage, when a certificate is recorded after it has been removed.
ConfsAreAlwaysValid == []<>Valid(disk)

\* A reload that fails, or that a restart prevents, is not repeated: the files have not
\* changed since.
IngressAlwaysConverges == <>[](\A p \in Projects : Promoted(p) => Shows(p))

\* A first certbot that is killed is recorded as a success: the vhost is rendered and names
\* files that do not exist, for as long as the invented expiry says.
ValidDespiteKilledCertbot == Never({"overlap", "shared", "retire"}) => Valid(disk)

\* And nginx, which cannot be reloaded then, never comes to run what is desired.
ConvergesDespiteKilledCertbot ==
    <>[](Never({"unloaded", "crash", "overlap"}) => \A p \in Projects : Promoted(p) => Shows(p))

\* The active conf is served while a deployment is pending: certificates are obtained for
\* the pending domains only, and the vhost waits for those of the active ones.
ActiveIsServed == <>[](Never({"unloaded", "crash", "overlap"}) => \A p \in Projects : Shows(p))

\* A renewed certificate is loaded: nothing reloads nginx when only the PEMs change.
RenewedIsLoaded == []<>(\A n \in Vhosts : \A d \in nginx.files[n] : nginx.certs[d] = live[d])

\* A project that is served stays served while it is desired: a conf with one more domain
\* takes the file away until certbot has issued.
ServedStaysServed ==
    [][\A p \in Projects : nginx.files[p] # {} /\ dep'[p].active # {} => nginx'.files[p] # {}]_vars

\* A project keeps its vhost when another one is retired that names the same domain.
ValidDespiteSharing == Never({"overlap"}) => Valid(disk)

\* The same when the leader restarts between certbot's delete and that of the row: the row
\* stays, and the vhost of the next project with the domain names a lineage that is gone.
ValidDespiteCrash == Never({"overlap", "shared"}) => Valid(disk)

=============================================================================
