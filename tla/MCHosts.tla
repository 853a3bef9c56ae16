------------------------------- MODULE MCHosts -------------------------------
(* What deployments share on a host: the ports of a node (PortLedger), and *)
(* nginx with its certificates on the leader (Ingress).  The two share no  *)
(* state that is modelled, so each behaviour lets one of them move.        *)
EXTENDS PortLedger

CONSTANTS
    Parts,  \* the components to check
    Projects, Domains, Wants, Dash, Dns, Flows, IngressBudgets

ASSUME IngressAssumption ==
    /\ "tick" \notin Flows /\ {"dashboard", "challenge"} \cap Projects = {}
    /\ Dash \subseteq Domains
    /\ \A p \in Projects : Wants[p] \subseteq SUBSET Domains

VARIABLES part, dep, rows, live, old, cooldown, disk, nginx, flow, iUsed

I == INSTANCE Ingress WITH Budgets <- IngressBudgets, used <- iUsed
iVars == <<dep, rows, live, old, cooldown, disk, nginx, flow, iUsed>>

HostsInit == part \in Parts /\ Init /\ I!Init
HostsNext ==
    \/ part = "ports" /\ Next /\ UNCHANGED <<part, iVars>>
    \/ part = "ingress" /\ I!Next /\ UNCHANGED <<part, vars>>
HostsSpec == HostsInit /\ [][HostsNext]_<<part, vars, iVars>>
HostsFairSpec == HostsSpec /\ (part = "ingress" => I!Fairness)

-----------------------------------------------------------------------------
(* The properties of Ingress that the run checks *)

\* Ingress.tla: the files on disk pass nginx -t, but for retirements that run beside
\* something else, share a domain or are cut short, and for a first certbot that is killed
\* (renderAllNginx).
ConfsStayValid == I!TypeOK /\ I!ConfsStayValid

\* Ingress.tla: nginx comes to run what is desired, and to front the dashboard, unless a
\* first certbot was killed (reconcileTick).
IngressConverges == part = "ingress" => I!IngressConverges

-----------------------------------------------------------------------------
(* Stronger statements that the code does not keep; HostsBad.cfg shows a   *)
(* counterexample of each                                                  *)

ConfsAreAlwaysValid == I!ConfsAreAlwaysValid
IngressAlwaysConverges == I!IngressAlwaysConverges
ActiveIsServed == I!ActiveIsServed
RenewedIsLoaded == I!RenewedIsLoaded
ServedStaysServed == I!ServedStaysServed
ValidDespiteSharing == I!ValidDespiteSharing
ValidDespiteCrash == I!ValidDespiteCrash
ValidDespiteKilledCertbot == I!ValidDespiteKilledCertbot
ConvergesDespiteKilledCertbot == I!ConvergesDespiteKilledCertbot

-----------------------------------------------------------------------------
(* Bounds: how often events of each kind may happen, not at all where unnamed *)

PB(f) == [k \in Kinds |-> IF k \in DOMAIN f THEN f[k] ELSE 0]
\* three deployments of which one is given up on, or two with everything else
MCPorts == {PB([plan |-> 3, abandon |-> 1]),
            PB([plan |-> 2, overlap |-> 1, retry |-> 1, restart |-> 1])}
PortsAbandon == {PB([plan |-> 3, abandon |-> 1])}
PortsOverlap == {PB([plan |-> 3, overlap |-> 1])}
PortsRetry == {PB([plan |-> 3, retry |-> 1])}
PortsRestart == {PB([plan |-> 3, restart |-> 1])}

\* p may be served with or without the domain that q and the dashboard have
MCWants == [p |-> {{"d"}, {"d", "e"}}, q |-> {{"e"}}]
MCIngress ==
    {[deploy |-> 2, retire |-> 1, shared |-> 1], [deploy |-> 1, retire |-> 1, fail |-> 1],
     [deploy |-> 1, expire |-> 1, fail |-> 1], [deploy |-> 1, expire |-> 1, killed |-> 1],
     [deploy |-> 1, killed |-> 1, unissued |-> 1], [deploy |-> 1, crash |-> 1],
     [deploy |-> 1, unloaded |-> 1]}
IngressOverlap == {[deploy |-> 2, retire |-> 1, overlap |-> 1]}
IngressUnloaded == {[deploy |-> 1, unloaded |-> 1]}
IngressFail == {[deploy |-> 2, fail |-> 1]}
IngressExpire == {[deploy |-> 1, expire |-> 1]}
IngressShared == {[deploy |-> 2, retire |-> 1, shared |-> 1]}
IngressKilled == {[deploy |-> 2, killed |-> 1, unissued |-> 1]}
IngressCrash == {[deploy |-> 2, retire |-> 1, crash |-> 1]}

=============================================================================
