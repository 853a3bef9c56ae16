----------------------------- MODULE PortLedger -----------------------------
(***************************************************************************)
(* Host ports on one node (reconcile/ports.ts): a plan call scans the pool *)
(* port by port, with a probe of the live sockets between looking a port   *)
(* up and taking it, and reserves what it found in an in-memory ledger     *)
(* until the containers have bound it.  Reservations are released by       *)
(* applyDeployment only, when it has succeeded or failed.                  *)
(***************************************************************************)
EXTENDS Integers, FiniteSets

CONSTANTS
    MaxPort,    \* the pool is 1..MaxPort (1025..9999 in the code)
    Reserved,   \* ports of NSM itself and of directly forwarded services
    Attempts,   \* deployments planned on this node
    Need,       \* proxy ports each of them asks for
    Budgets     \* bound: each is how often events of each kind may happen

Kinds == {"plan", "overlap", "abandon", "retry", "restart"}

ASSUME MaxPortAssumption == MaxPort \in Nat
ASSUME NeedAssumption == Need \in Nat \ {0}
ASSUME LedgerBudgetAssumption == Budgets \subseteq [Kinds -> Nat]

Ports == 1..MaxPort

VARIABLES
    ledger,     \* reservedLedger
    st,         \* where an attempt is
    ports,      \* the ports it was given
    scan,       \* its getNextFreePorts call: [at, got, seen, probing]
    used        \* how often an event of each kind has happened

vars == <<ledger, st, ports, scan, used>>

Scan == [at : 1..(MaxPort + 1), got : SUBSET Ports, seen : SUBSET Ports, probing : BOOLEAN]
FirstScan(listed) == [at |-> 1, got |-> {}, seen |-> listed, probing |-> FALSE]
NoScan == FirstScan({})

Stages == {"new", "scanning", "replied", "desired", "up", "serving", "failed", "gone"}
In(stages) == {a \in Attempts : st[a] \in stages}
Bound == UNION {ports[a] : a \in In({"up", "serving"})}

Uses(kinds) ==
    /\ used' = [k \in Kinds |-> used[k] + (IF k \in kinds THEN 1 ELSE 0)]
    /\ \E b \in Budgets : \A k \in Kinds : used'[k] <= b[k]
Spend(k) == Uses({k})
Never(kinds) == \A k \in kinds : used[k] = 0
Goto(a, stage) == st' = [st EXCEPT ![a] = stage]

-----------------------------------------------------------------------------
(* planLocally -> getNextFreePorts                                         *)

\* the leader's queue plans one deployment at a time, but a call it has given up
\* on (postToNode times out) goes on scanning
PlanCall(a) ==
    /\ st[a] = "new"
    /\ Uses(IF In({"scanning"}) = {} THEN {"plan"} ELSE {"plan", "overlap"})
    /\ Goto(a, "scanning")
    /\ \E listed \in {Bound, {}} :          \* netstat may fail and list nothing
         scan' = [scan EXCEPT ![a] = FirstScan(listed)]
    /\ UNCHANGED <<ledger, ports>>

\* mutants: the ledger is not consulted, or the pool has one port too many
Skipped_NoLedger(a) == scan[a].at \in Reserved \cup scan[a].seen
InPool_OneMore(port) == port <= MaxPort + 1

Skipped(a) == scan[a].at \in Reserved \cup ledger \cup scan[a].seen
InPool(port) == port <= MaxPort

\* the synchronous checks of one port, up to the probe
CheckPort(a) ==
    LET s == scan[a] IN
    /\ st[a] = "scanning" /\ ~s.probing /\ InPool(s.at)
    /\ scan' = [scan EXCEPT ![a] =
                  IF Skipped(a) THEN [s EXCEPT !.at = @ + 1] ELSE [s EXCEPT !.probing = TRUE]]
    /\ UNCHANGED <<ledger, st, ports, used>>

\* the probe answers; the last port needed is taken and all are reserved in the
\* same step.  A probe that fails counts as "in use".
ProbePort(a) ==
    LET s == scan[a] IN
    /\ st[a] = "scanning" /\ s.probing
    /\ \E free \in BOOLEAN :
         LET got == IF free THEN s.got \cup {s.at} ELSE s.got
             done == Cardinality(got) = Need
         IN  /\ free => s.at \notin Bound
             /\ scan' = [scan EXCEPT ![a] = IF done THEN NoScan
                           ELSE [s EXCEPT !.at = @ + 1, !.got = got, !.probing = FALSE]]
             /\ IF done
                THEN /\ ports' = [ports EXCEPT ![a] = got]
                     /\ ledger' = ledger \cup got
                     /\ Goto(a, "replied")
                ELSE UNCHANGED <<ports, ledger, st>>
    /\ UNCHANGED used

\* the pool is exhausted: nothing is reserved and the deployment fails
PlanNull(a) ==
    /\ st[a] = "scanning" /\ ~scan[a].probing /\ ~InPool(scan[a].at)
    /\ Goto(a, "gone")
    /\ scan' = [scan EXCEPT ![a] = NoScan]
    /\ UNCHANGED <<ledger, ports, used>>

(* The deployment that uses the ports                                      *)

Propose(a) ==
    /\ st[a] = "replied"
    /\ Goto(a, "desired")
    /\ UNCHANGED <<ledger, ports, scan, used>>

\* the reply is lost, planning fails or is cancelled afterwards, or the desired
\* row is cleared before the node gets to it: nobody releases the ports
Abandon(a) ==
    /\ st[a] \in {"replied", "desired"}
    /\ Spend("abandon")
    /\ Goto(a, "gone")
    /\ UNCHANGED <<ledger, ports, scan>>

Free(a) == ports[a] \cap UNION {ports[b] : b \in In({"up", "serving"}) \ {a}} = {}

ComposeUp(a) ==
    /\ st[a] = "desired"
    /\ Free(a)
    /\ Goto(a, "up")
    /\ UNCHANGED <<ledger, ports, scan, used>>

\* mutant: only what was never bound is released
Released_Unbound(a) == ledger \ (ports[a] \ Bound)

\* releasePorts
Released(a) == ledger \ ports[a]

GatePasses(a) ==
    /\ st[a] = "up"
    /\ ledger' = Released(a)
    /\ Goto(a, "serving")
    /\ UNCHANGED <<ports, scan, used>>

\* the failure path of applyDeployment: torn down, then released
Fails(a) ==
    /\ st[a] \in {"desired", "up"}
    /\ ledger' = Released(a)
    /\ Goto(a, "failed")
    /\ UNCHANGED <<ports, scan, used>>

\* the next tick applies the same deployment again, with the same ports
Retry(a) ==
    /\ st[a] = "failed"
    /\ Spend("retry")
    /\ Goto(a, "desired")
    /\ UNCHANGED <<ledger, ports, scan>>

\* superseded after a failure, or drained
Retire(a) ==
    /\ st[a] \in {"failed", "serving"}
    /\ Goto(a, "gone")
    /\ UNCHANGED <<ledger, ports, scan, used>>

\* the node's daemon restarts: the ledger and the calls are gone, containers stay
Restart ==
    /\ Spend("restart")
    /\ ledger' = {}
    /\ st' = [a \in Attempts |-> IF st[a] = "scanning" THEN "gone" ELSE st[a]]
    /\ scan' = [a \in Attempts |-> NoScan]
    /\ UNCHANGED ports

Init ==
    /\ ledger = {}
    /\ st = [a \in Attempts |-> "new"]
    /\ ports = [a \in Attempts |-> {}]
    /\ scan = [a \in Attempts |-> NoScan]
    /\ used = [k \in Kinds |-> 0]

Planning(a) == PlanCall(a) \/ CheckPort(a) \/ ProbePort(a) \/ PlanNull(a)
Deploying(a) == Propose(a) \/ Abandon(a) \/ ComposeUp(a) \/ GatePasses(a) \/ Fails(a)
                \/ Retry(a) \/ Retire(a)

Next == Restart \/ \E a \in Attempts : Planning(a) \/ Deploying(a)

Spec == Init /\ [][Next]_vars

-----------------------------------------------------------------------------
(* Properties                                                              *)

TypeOK ==
    /\ ledger \subseteq Ports
    /\ st \in [Attempts -> Stages]
    /\ ports \in [Attempts -> SUBSET Ports]
    /\ scan \in [Attempts -> Scan]
    /\ used \in [Kinds -> Nat]

\* attempts that were given ports and may still come to use them
Holders == In({"replied", "desired", "up", "serving"})

\* No two deployments on the node hold the same port, from the plan on until the
\* containers are gone: neither can fail to bind, or answer the other's traffic.
PortsAreDisjoint == \A a, b \in Holders : a # b => ports[a] \cap ports[b] = {}

\* That is so until a plan call the leader gave up on overlaps the next one, an
\* attempt whose ports were released is retried, or the daemon restarts.
NoSharedPort == Never({"overlap", "retry", "restart"}) => PortsAreDisjoint

\* Every reservation belongs to a deployment that will bind or release it: no port
\* stays reserved for good.
LedgerIsAlwaysOwned == ledger \subseteq UNION {ports[a] : a \in Holders}

\* That is so until a deployment is abandoned between its plan and its build,
\* whatever overlaps, is retried or restarts.
LedgerIsOwned == Never({"abandon"}) => LedgerIsAlwaysOwned

=============================================================================
