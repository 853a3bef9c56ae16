-------------------------- MODULE HostsProofs --------------------------
(***************************************************************************)
(* What TLAPS proves about the host ports of a node and the ingress of the *)
(* leader, for every pool, every number of attempts, projects, domains and *)
(* passes.                                                                 *)
(*                                                                         *)
(* Ports: types; NoSharedPort, until one of the three events that defeat   *)
(* the ledger happens: a plan call that outlives the leader's patience and *)
(* overlaps the next one, a retry of an attempt whose ports were released, *)
(* and a restart of the node's daemon (HostsBad.cfg and the changes it     *)
(* names show each of them defeat it); and that every reservation has an   *)
(* owner.                                                                  *)
(*                                                                         *)
(* Ingress: the files on disk pass nginx -t, in spite of failing           *)
(* certbot calls, reloads and crashes, until a retirement overlaps another *)
(* pass, takes a domain that is used elsewhere, or can be cut short.       *)
(***************************************************************************)
EXTENDS MCHosts, TLAPS

\* None of the three events has happened.
Unspoiled == used["overlap"] = 0 /\ used["retry"] = 0 /\ used["restart"] = 0

\* Plan calls do not overlap.
OneScan == \A a, b \in In({"scanning"}) : a = b

\* A port that is promised but not bound yet is in the ledger.
PromisedIsReserved == \A a \in In({"replied", "desired"}) : ports[a] \subseteq ledger

\* A port under probe is in the pool and was not in the ledger, and nobody has
\* reserved it since.
ProbedIsUnreserved ==
    \A a \in Attempts :
        scan[a].probing => st[a] = "scanning" /\ InPool(scan[a].at) /\ scan[a].at \notin ledger

\* The ports a call has picked so far are nobody's.
PickedAreFree ==
    \A a \in In({"scanning"}) : \A b \in Holders : scan[a].got \cap ports[b] = {}

\* What holds while none of them has happened.
Clean == /\ TypeOK /\ Unspoiled /\ OneScan /\ PromisedIsReserved /\ ProbedIsUnreserved
         /\ PickedAreFree /\ PortsAreDisjoint

\* A port that is being probed is in the pool.
ProbesInPool == \A a \in Attempts : scan[a].probing => InPool(scan[a].at)

IInv == TypeOK /\ ProbesInPool /\ (Unspoiled => Clean)

\* An idle scan is a scan.
LEMMA NoScanType == NoScan \in Scan
BY MaxPortAssumption DEF FirstScan, NoScan, Scan

\* So is the first one of a plan call.
LEMMA FirstScanType ==
    ASSUME NEW listed \in SUBSET Ports PROVE FirstScan(listed) \in Scan
BY MaxPortAssumption DEF FirstScan, NoScan, Scan

\* The counters only ever go up.
LEMMA CountersGrow ==
    ASSUME TypeOK, [Next]_vars PROVE used' \in [Kinds -> Nat] /\ (Unspoiled' => Unspoiled)
<1>1. ASSUME NEW kinds, Uses(kinds) PROVE used' \in [Kinds -> Nat] /\ (Unspoiled' => Unspoiled)
  BY <1>1 DEF Uses, TypeOK, Unspoiled, Kinds
<1>2. CASE UNCHANGED used
  BY <1>2 DEF TypeOK, Unspoiled
<1>3. UNCHANGED used \/ \E kinds : Uses(kinds)
  <2>1. CASE Restart
    BY <2>1 DEF Restart, Spend
  <2>2. ASSUME NEW a \in Attempts, Planning(a) PROVE UNCHANGED used \/ \E kinds : Uses(kinds)
    BY <2>2 DEF Planning, PlanCall, CheckPort, ProbePort, PlanNull
  <2>3. ASSUME NEW a \in Attempts, Deploying(a) PROVE UNCHANGED used \/ \E kinds : Uses(kinds)
    BY <2>3 DEF Deploying, Propose, Abandon, ComposeUp, GatePasses, Fails, Retry, Retire, Spend
  <2>4. CASE UNCHANGED vars
    BY <2>4 DEF vars
  <2> QED
    BY <2>1, <2>2, <2>3, <2>4 DEF Next
<1> QED
  BY <1>1, <1>2, <1>3

\* A new plan call starts alone and with nothing picked.
LEMMA PlanCallKeeps == ASSUME Clean, Unspoiled', NEW a \in Attempts, PlanCall(a) PROVE Clean'
<1>1. In({"scanning"}) = {} /\ used' \in [Kinds -> Nat]
  BY DEF Clean, PlanCall, TypeOK, Unspoiled, Uses, Kinds
<1>2. PICK seen \in {Bound, {}} : scan' = [scan EXCEPT ![a] = FirstScan(seen)]
  BY DEF PlanCall
<1>3. FirstScan(seen) \in Scan
  <2>1. seen \subseteq Ports
    BY DEF Clean, TypeOK, Bound, In
  <2> QED
    BY <2>1, FirstScanType
<1>4. scan'[a].got = {} /\ ~scan'[a].probing
  BY <1>2 DEF Clean, TypeOK, NoScan, FirstScan
<1>5. \A b \in Attempts \ {a} : scan'[b] = scan[b] /\ st'[b] = st[b]
  BY <1>2 DEF Clean, TypeOK, PlanCall, Goto
<1>6. st'[a] = "scanning" /\ st[a] = "new" /\ UNCHANGED <<ledger, ports>>
  BY DEF Clean, TypeOK, PlanCall, Goto
<1>7. TypeOK' /\ Unspoiled'
  BY <1>1, <1>2, <1>3 DEF Clean, TypeOK, Unspoiled, PlanCall, Goto, Stages
<1>8. Holders' = Holders
  BY <1>5, <1>6 DEF Holders, In
<1>9. OneScan' /\ PromisedIsReserved' /\ ProbedIsUnreserved'
  BY <1>1, <1>4, <1>5, <1>6 DEF Clean, OneScan, PromisedIsReserved, ProbedIsUnreserved, In
<1>10. PickedAreFree' /\ PortsAreDisjoint'
  BY <1>1, <1>4, <1>5, <1>6, <1>8 DEF Clean, PickedAreFree, PortsAreDisjoint, In
<1> QED
  BY <1>7, <1>9, <1>10 DEF Clean

\* The next port is passed over, or is not reserved and gets probed.
LEMMA CheckPortKeeps == ASSUME Clean, Unspoiled', NEW a \in Attempts, CheckPort(a) PROVE Clean'
<1>1. /\ st[a] = "scanning" /\ InPool(scan[a].at) /\ UNCHANGED <<ledger, st, ports, used>>
      /\ scan' = [scan EXCEPT ![a] = IF Skipped(a) THEN [scan[a] EXCEPT !.at = @ + 1]
                                     ELSE [scan[a] EXCEPT !.probing = TRUE]]
  BY DEF CheckPort
<1>2. scan[a] \in Scan
  BY DEF Clean, TypeOK
<1>3. ~scan[a].probing
  BY DEF CheckPort
<1>4. /\ scan'[a] \in Scan /\ scan'[a].got = scan[a].got
      /\ scan'[a].probing => scan'[a].at \notin ledger /\ InPool(scan'[a].at)
      /\ \A b \in Attempts \ {a} : scan'[b] = scan[b]
  <2>1. CASE Skipped(a)
    BY <1>1, <1>2, <1>3, <2>1, MaxPortAssumption DEF Clean, TypeOK, Scan, InPool
  <2>2. CASE ~Skipped(a)
    BY <1>1, <1>2, <2>2 DEF Clean, TypeOK, Scan, Skipped
  <2> QED
    BY <2>1, <2>2
<1>5. TypeOK'
  <2>1. scan' \in [Attempts -> Scan]
    BY <1>1, <1>4 DEF Clean, TypeOK
  <2> QED
    BY <1>1, <2>1 DEF Clean, TypeOK
<1>6. Holders' = Holders /\ In({"scanning"})' = In({"scanning"})
  BY <1>1 DEF Holders, In
<1>7. Unspoiled' /\ OneScan' /\ PromisedIsReserved' /\ PortsAreDisjoint'
  BY <1>1, <1>6 DEF Clean, Unspoiled, OneScan, PromisedIsReserved, PortsAreDisjoint, In
<1>8. ProbedIsUnreserved'
  BY <1>1, <1>4 DEF Clean, ProbedIsUnreserved, InPool
<1>9. PickedAreFree'
  BY <1>1, <1>4, <1>6 DEF Clean, PickedAreFree, In
<1> QED
  BY <1>5, <1>7, <1>8, <1>9 DEF Clean

\* A port that answers the probe as free is bound by nobody and reserved by
\* nobody, so no holder has it.
LEMMA ProbePortKeeps == ASSUME Clean, Unspoiled', NEW a \in Attempts, ProbePort(a) PROVE Clean'
<1> DEFINE got(free) == IF free THEN scan[a].got \cup {scan[a].at} ELSE scan[a].got
           Took(g) == /\ ports' = [ports EXCEPT ![a] = g]
                      /\ ledger' = ledger \cup g
                      /\ st' = [st EXCEPT ![a] = "replied"]
                      /\ scan' = [scan EXCEPT ![a] = NoScan]
           Moved(g) == /\ UNCHANGED <<ports, ledger, st>>
                       /\ scan' = [scan EXCEPT ![a] = [scan[a] EXCEPT !.at = @ + 1, !.got = g,
                                                                   !.probing = FALSE]]
<1>1. st[a] = "scanning" /\ scan[a].probing /\ UNCHANGED used
  BY DEF ProbePort
<1>2. PICK free \in BOOLEAN : /\ free => scan[a].at \notin Bound
                              /\ Took(got(free)) \/ Moved(got(free))
  BY DEF ProbePort, Goto
<1>3. /\ scan[a] \in Scan /\ scan[a].at \in Ports /\ scan[a].at \notin ledger
      /\ scan[a].got \subseteq Ports
  BY <1>1, MaxPortAssumption DEF Clean, TypeOK, ProbedIsUnreserved, Scan, InPool, Ports
<1>4. PICK g \in SUBSET Ports : /\ Took(g) \/ Moved(g)
                                /\ \A b \in Holders : g \cap ports[b] = {}
  <2>1. \A b \in Holders : scan[a].got \cap ports[b] = {}
    BY <1>1 DEF Clean, PickedAreFree, In
  <2>2. CASE free
    <3>1. \A b \in Holders : scan[a].at \notin ports[b]
      BY <1>2, <1>3, <2>2 DEF Clean, PromisedIsReserved, Holders, Bound, In
    <3>2. got(free) \in SUBSET Ports /\ \A b \in Holders : got(free) \cap ports[b] = {}
      BY <1>3, <2>1, <2>2, <3>1
    <3> QED
      BY <1>2, <3>2
  <2>3. CASE ~free
    BY <1>2, <1>3, <2>1, <2>3
  <2> QED
    BY <2>2, <2>3
<1>5. \A b \in In({"scanning"}) : b = a
  BY <1>1 DEF Clean, OneScan, In
<1>6. Unspoiled'
  BY <1>1 DEF Clean, Unspoiled
<1>7. CASE Took(g)
  <2>1. /\ ports'[a] = g /\ st'[a] = "replied" /\ scan'[a] = NoScan
        /\ \A b \in Attempts \ {a} : ports'[b] = ports[b] /\ st'[b] = st[b] /\ scan'[b] = scan[b]
    BY <1>7 DEF Clean, TypeOK
  <2>2. In({"scanning"})' = {}
    BY <1>5, <2>1 DEF In
  <2>3. \A b \in Holders' : b = a \/ b \in Holders
    BY <2>1 DEF Holders, In
  <2>4. a \notin Holders
    BY <1>1 DEF Holders, In
  <2>5. PortsAreDisjoint'
    BY <1>4, <2>1, <2>3, <2>4 DEF Clean, PortsAreDisjoint, Holders, In
  <2>6. PromisedIsReserved'
    BY <1>7, <2>1 DEF Clean, PromisedIsReserved, In
  <2>7. \A b \in Attempts : ~scan'[b].probing
    BY <1>5, <2>1 DEF Clean, ProbedIsUnreserved, In, NoScan, FirstScan
  <2>8. TypeOK'
    BY <1>1, <1>7, NoScanType DEF Clean, TypeOK, Stages
  <2> QED
    BY <1>6, <2>2, <2>5, <2>6, <2>7, <2>8
       DEF Clean, OneScan, ProbedIsUnreserved, PickedAreFree
<1>8. CASE Moved(g)
  <2>1. /\ scan'[a].got = g /\ ~scan'[a].probing /\ scan'[a] \in Scan
        /\ \A b \in Attempts \ {a} : scan'[b] = scan[b]
    <3>1. scan[a].at + 1 \in 1..(MaxPort + 1)
      BY <1>3, MaxPortAssumption DEF Ports
    <3>2. scan'[a] = [at |-> scan[a].at + 1, got |-> g, seen |-> scan[a].seen, probing |-> FALSE]
      BY <1>3, <1>8 DEF Clean, TypeOK, Scan
    <3> QED
      BY <1>3, <1>8, <3>1, <3>2 DEF Clean, TypeOK, Scan
  <2>2. TypeOK'
    <3>1. scan' \in [Attempts -> Scan]
      BY <1>8, <2>1 DEF Clean, TypeOK
    <3> QED
      BY <1>1, <1>8, <3>1 DEF Clean, TypeOK
  <2>3. Holders' = Holders /\ In({"scanning"})' = In({"scanning"})
    BY <1>8 DEF Holders, In
  <2>4. OneScan' /\ PromisedIsReserved' /\ PortsAreDisjoint'
    BY <1>8, <2>3 DEF Clean, OneScan, PromisedIsReserved, PortsAreDisjoint, In
  <2>5. ProbedIsUnreserved'
    BY <1>8, <2>1 DEF Clean, ProbedIsUnreserved, InPool
  <2>6. PickedAreFree'
    BY <1>4, <1>5, <1>8, <2>1, <2>3 DEF Clean, PickedAreFree
  <2> QED
    BY <1>6, <2>2, <2>4, <2>5, <2>6 DEF Clean
<1> QED
  BY <1>4, <1>7, <1>8

\* Whatever happens to one deployment leaves the plan calls alone.  Only a port
\* nobody else holds is released, so what others hold stays visible.
LEMMA DeployingKeeps == ASSUME Clean, Unspoiled', NEW a \in Attempts, Deploying(a) PROVE Clean'
<1> USE DEF Goto
<1>1. /\ UNCHANGED <<ports, scan>> /\ st[a] # "scanning"
      /\ \E stage \in Stages \ {"scanning"} : st' = [st EXCEPT ![a] = stage]
      /\ ledger' \subseteq ledger
  BY DEF Deploying, Propose, Abandon, ComposeUp, GatePasses, Fails, Retry, Retire, Stages, Released
<1>2. \A b \in Attempts \ {a} : st'[b] = st[b]
  BY <1>1 DEF Clean, TypeOK
<1>3. Holders' \subseteq Holders
  <2>1. CASE Retry(a)
    BY <2>1 DEF Clean, Unspoiled, TypeOK, Retry, Spend, Uses, Kinds
  <2>2. CASE Propose(a)
    BY <1>2, <2>2 DEF Clean, TypeOK, Propose, Holders, In
  <2>3. CASE Abandon(a)
    BY <1>2, <2>3 DEF Clean, TypeOK, Abandon, Holders, In
  <2>4. CASE ComposeUp(a)
    BY <1>2, <2>4 DEF Clean, TypeOK, ComposeUp, Holders, In
  <2>5. CASE GatePasses(a)
    BY <1>2, <2>5 DEF Clean, TypeOK, GatePasses, Holders, In
  <2>6. CASE Fails(a)
    BY <1>2, <2>6 DEF Clean, TypeOK, Fails, Holders, In
  <2>7. CASE Retire(a)
    BY <1>2, <2>7 DEF Clean, TypeOK, Retire, Holders, In
  <2> QED
    BY <2>1, <2>2, <2>3, <2>4, <2>5, <2>6, <2>7 DEF Deploying
<1>4. In({"scanning"})' = In({"scanning"})
  BY <1>1, <1>2 DEF Clean, TypeOK, In
<1>5. used' \in [Kinds -> Nat] /\ Unspoiled'
  BY CountersGrow DEF Clean, Next
<1>6. TypeOK'
  BY <1>1, <1>5 DEF Clean, TypeOK
<1>7. OneScan' /\ PickedAreFree' /\ PortsAreDisjoint'
  BY <1>1, <1>3, <1>4 DEF Clean, OneScan, PickedAreFree, PortsAreDisjoint
<1>8. ProbedIsUnreserved'
  BY <1>1, <1>2 DEF Clean, ProbedIsUnreserved
<1>9. PromisedIsReserved'
  <2>1. CASE ledger' = ledger
    <3>1. In({"replied", "desired"})' \subseteq In({"replied", "desired"})
      BY <1>2, <2>1 DEF Clean, TypeOK, Unspoiled, Spend, Uses, Kinds, In, Deploying, Propose, Abandon,
                        ComposeUp, GatePasses, Fails, Retry, Retire
    <3> QED
      BY <1>1, <2>1, <3>1 DEF Clean, PromisedIsReserved
  <2>2. CASE ledger' # ledger
    <3>1. ledger' = ledger \ ports[a] /\ a \in Holders /\ st'[a] \in {"serving", "failed"}
      BY <2>2 DEF Clean, TypeOK, Deploying, Propose, Abandon, ComposeUp, GatePasses, Fails, Retry,
                  Retire, Released, Holders, In
    <3>2. \A b \in In({"replied", "desired"})' : b \in In({"replied", "desired"}) /\ b # a
      BY <1>2, <3>1 DEF In
    <3>3. \A b \in In({"replied", "desired"})' : ports[b] \cap ports[a] = {}
      BY <3>1, <3>2 DEF Clean, PortsAreDisjoint, Holders, In
    <3> QED
      BY <1>1, <3>1, <3>2, <3>3 DEF Clean, PromisedIsReserved
  <2> QED
    BY <2>1, <2>2
<1> QED
  BY <1>5, <1>6, <1>7, <1>8, <1>9 DEF Clean

\* Every step preserves the types, also when the ledger has been defeated.
LEMMA TypePreserved == TypeOK /\ ProbesInPool /\ [Next]_vars => TypeOK' /\ ProbesInPool'
<1> SUFFICES ASSUME TypeOK, ProbesInPool, [Next]_vars PROVE TypeOK' /\ ProbesInPool'
  OBVIOUS
<1>0. used' \in [Kinds -> Nat]
  BY CountersGrow
<1>1. CASE Restart
  BY <1>0, <1>1, NoScanType DEF TypeOK, ProbesInPool, Restart, Stages, NoScan, FirstScan
<1>2. ASSUME NEW a \in Attempts, PlanCall(a) PROVE TypeOK' /\ ProbesInPool'
  <2>1. PICK seen \in {Bound, {}} : scan' = [scan EXCEPT ![a] = FirstScan(seen)]
    BY <1>2 DEF PlanCall
  <2>2. FirstScan(seen) \in Scan
    BY FirstScanType DEF TypeOK, Bound, In
  <2> QED
    BY <1>0, <1>2, <2>1, <2>2 DEF TypeOK, ProbesInPool, PlanCall, Goto, Stages, FirstScan, InPool
<1>3. ASSUME NEW a \in Attempts, CheckPort(a) PROVE TypeOK' /\ ProbesInPool'
  <2>1. scan[a] \in Scan /\ scan[a].at \in Ports
    BY <1>3, MaxPortAssumption DEF TypeOK, CheckPort, InPool, Scan, Ports
  <2>2. [scan[a] EXCEPT !.at = @ + 1] \in Scan /\ [scan[a] EXCEPT !.probing = TRUE] \in Scan
    <3>1. scan[a].at + 1 \in 1..(MaxPort + 1)
      BY <2>1, MaxPortAssumption DEF Ports
    <3> QED
      BY <2>1, <3>1 DEF Scan
  <2> QED
    BY <1>0, <1>3, <2>1, <2>2 DEF TypeOK, ProbesInPool, CheckPort, InPool, Scan
<1>4. ASSUME NEW a \in Attempts, ProbePort(a) PROVE TypeOK' /\ ProbesInPool'
  <2>1. PICK free \in BOOLEAN :
          LET got == IF free THEN scan[a].got \cup {scan[a].at} ELSE scan[a].got
              done == Cardinality(got) = Need
          IN  /\ scan' = [scan EXCEPT ![a] = IF done THEN NoScan
                            ELSE [scan[a] EXCEPT !.at = @ + 1, !.got = got, !.probing = FALSE]]
              /\ IF done
                 THEN /\ ports' = [ports EXCEPT ![a] = got]
                      /\ ledger' = ledger \cup got
                      /\ st' = [st EXCEPT ![a] = "replied"]
                 ELSE UNCHANGED <<ports, ledger, st>>
    BY <1>4 DEF ProbePort, Goto
  <2> DEFINE got == IF free THEN scan[a].got \cup {scan[a].at} ELSE scan[a].got
  <2>2. scan[a] \in Scan /\ scan[a].at \in Ports
    BY <1>4, MaxPortAssumption DEF TypeOK, ProbePort, ProbesInPool, InPool, Scan, Ports
  <2>3. got \in SUBSET Ports
    BY <2>2 DEF Scan
  <2>4. [scan[a] EXCEPT !.at = @ + 1, !.got = got, !.probing = FALSE] \in Scan
    <3>1. scan[a].at + 1 \in 1..(MaxPort + 1)
      BY <2>2, MaxPortAssumption DEF Ports
    <3>2. PICK n \in 1..(MaxPort + 1) : n = scan[a].at + 1
      BY <3>1
    <3>3. PICK g \in SUBSET Ports : g = got
      BY <2>3
    <3>4. [scan[a] EXCEPT !.at = n, !.got = g, !.probing = FALSE] \in Scan
      BY <2>2 DEF Scan
    <3> QED
      BY <2>2, <3>2, <3>3, <3>4 DEF Scan
  <2> QED
    BY <1>0, <2>1, <2>3, <2>4, NoScanType DEF TypeOK, ProbesInPool, InPool, Stages, NoScan, FirstScan
<1>5. ASSUME NEW a \in Attempts, PlanNull(a) PROVE TypeOK' /\ ProbesInPool'
  BY <1>0, <1>5, NoScanType DEF TypeOK, ProbesInPool, PlanNull, Goto, Stages, NoScan, FirstScan, InPool
<1>6. ASSUME NEW a \in Attempts, Deploying(a) PROVE TypeOK' /\ ProbesInPool'
  BY <1>0, <1>6 DEF TypeOK, ProbesInPool, InPool, Deploying, Propose, Abandon, ComposeUp, GatePasses, Fails, Retry,
                    Retire, Goto, Stages, Released
<1>7. CASE UNCHANGED vars
  BY <1>7 DEF vars, TypeOK, ProbesInPool, InPool
<1> QED
  BY <1>1, <1>2, <1>3, <1>4, <1>5, <1>6, <1>7 DEF Next, Planning

\* A call that finds the pool exhausted reserves nothing.
LEMMA PlanNullKeeps == ASSUME Clean, NEW a \in Attempts, PlanNull(a) PROVE Clean'
<1>1. /\ UNCHANGED <<ledger, ports, used>> /\ st' = [st EXCEPT ![a] = "gone"]
      /\ scan' = [scan EXCEPT ![a] = NoScan] /\ st[a] = "scanning"
  BY DEF PlanNull, Goto
<1>2. /\ st'[a] = "gone" /\ scan'[a] = NoScan
      /\ \A b \in Attempts \ {a} : st'[b] = st[b] /\ scan'[b] = scan[b]
  BY <1>1 DEF Clean, TypeOK
<1>3. TypeOK' /\ Unspoiled'
  BY <1>1, NoScanType DEF Clean, TypeOK, Unspoiled, Stages
<1>4. /\ Holders' = Holders /\ In({"replied", "desired"})' = In({"replied", "desired"})
      /\ In({"scanning"})' \subseteq In({"scanning"}) \ {a}
  BY <1>1, <1>2 DEF Holders, In
<1>5. OneScan' /\ PromisedIsReserved' /\ PickedAreFree' /\ PortsAreDisjoint'
  BY <1>1, <1>2, <1>4
     DEF Clean, OneScan, PromisedIsReserved, PickedAreFree, PortsAreDisjoint, In
<1>6. ProbedIsUnreserved'
  BY <1>1, <1>2 DEF Clean, ProbedIsUnreserved, NoScan, FirstScan
<1> QED
  BY <1>3, <1>5, <1>6 DEF Clean

\* Every step preserves the invariant.
LEMMA IInvPreserved == IInv /\ [Next]_vars => IInv'
<1> SUFFICES ASSUME IInv, [Next]_vars PROVE IInv'
  OBVIOUS
<1>1. TypeOK' /\ ProbesInPool'
  BY TypePreserved DEF IInv
<1>2. ASSUME Unspoiled' PROVE Clean'
  <2>1. Clean
    BY <1>2, CountersGrow DEF IInv
  <2>2. CASE Restart
    BY <1>2, <2>2 DEF IInv, Restart, Spend, Uses, Unspoiled, TypeOK, Kinds
  <2>3. ASSUME NEW a \in Attempts, Planning(a) PROVE Clean'
    BY <1>2, <2>1, <2>3, PlanCallKeeps, CheckPortKeeps, ProbePortKeeps, PlanNullKeeps DEF Planning
  <2>4. ASSUME NEW a \in Attempts, Deploying(a) PROVE Clean'
    BY <1>2, <2>1, <2>4, DeployingKeeps
  <2>5. CASE UNCHANGED vars
    BY <2>1, <2>5 DEF vars, Clean, TypeOK, Unspoiled, OneScan, PromisedIsReserved,
                      ProbedIsUnreserved, PickedAreFree, PortsAreDisjoint, Holders, In, InPool
  <2> QED
    BY <2>2, <2>3, <2>4, <2>5 DEF Next
<1> QED
  BY <1>1, <1>2 DEF IInv

\* The ledger starts empty, and nothing has happened to it.
LEMMA IInvInitially == Init => IInv
BY NoScanType
   DEF Init, IInv, Clean, TypeOK, Unspoiled, OneScan, PromisedIsReserved, ProbedIsUnreserved,
       ProbesInPool, PickedAreFree, PortsAreDisjoint, Holders, In, Stages, NoScan, FirstScan, Kinds

\* The ledger, the scans and the ports given stay within the pool, whatever happens.
THEOREM LedgerTypeCorrect == Spec => []TypeOK
<1>1. IInv => TypeOK
  BY DEF IInv
<1> QED
  BY <1>1, IInvInitially, IInvPreserved, PTL DEF Spec

\* getNextFreePorts and the ledger never give one port to two deployments of a
\* node that may still use it, until plan calls overlap, an attempt is retried or
\* the daemon restarts.
THEOREM PortsNeverShared == Spec => []NoSharedPort
<1>1. IInv => NoSharedPort
  BY DEF IInv, Clean, Unspoiled, NoSharedPort, Never
<1> QED
  BY <1>1, IInvInitially, IInvPreserved, PTL DEF Spec

\* Deployments whose reservation applyDeployment has yet to release.
Pending == In({"replied", "desired", "up"})

\* Every reserved port is one of theirs, until one of them is abandoned.
ReservedIsPending == used["abandon"] = 0 => ledger \subseteq UNION {ports[a] : a \in Pending}

\* What is left when applyDeployment releases the ports of one deployment is
\* reserved for another, whichever of them hold a port in common.
LEMMA ReleaseKeepsOwners ==
    ASSUME TypeOK, ledger \subseteq UNION {ports[b] : b \in Pending},
           NEW a \in Attempts, ledger' = Released(a), UNCHANGED ports,
           \A b \in Attempts \ {a} : st'[b] = st[b]
    PROVE  ledger' \subseteq UNION {ports[b] : b \in Pending}'
<1> SUFFICES ASSUME NEW p \in ledger' PROVE \E b \in Pending' : p \in ports[b]
  OBVIOUS
<1>1. PICK b \in Pending : p \in ports[b]
  BY DEF Released
<1>2. b # a /\ b \in Pending'
  BY <1>1 DEF Released, Pending, In
<1> QED
  BY <1>1, <1>2

\* A step leaves the ledger owned: what joins it goes to the deployment just
\* planned, and one that stops being pending takes its ports out first.
LEMMA ReservedIsPendingPreserved ==
    TypeOK /\ ReservedIsPending /\ [Next]_vars => ReservedIsPending'
<1> SUFFICES ASSUME TypeOK, ReservedIsPending, [Next]_vars, used'["abandon"] = 0
             PROVE  ledger' \subseteq UNION {ports[a] : a \in Pending}'
  BY DEF ReservedIsPending
<1> USE DEF Goto
<1>1. ASSUME NEW kinds, Uses(kinds) PROVE used["abandon"] = 0 /\ "abandon" \notin kinds
  BY <1>1 DEF TypeOK, Uses, Kinds
<1>2. used["abandon"] = 0
  <2>1. CASE UNCHANGED used
    BY <2>1
  <2>2. CASE \E kinds : Uses(kinds)
    BY <1>1, <2>2
  <2>3. ASSUME NEW a \in Attempts, Planning(a) PROVE UNCHANGED used \/ \E kinds : Uses(kinds)
    BY <2>3 DEF Planning, PlanCall, CheckPort, ProbePort, PlanNull
  <2>4. ASSUME NEW a \in Attempts, Deploying(a) PROVE UNCHANGED used \/ \E kinds : Uses(kinds)
    BY <2>4 DEF Deploying, Propose, Abandon, ComposeUp, GatePasses, Fails, Retry, Retire, Spend
  <2> QED
    BY <2>1, <2>2, <2>3, <2>4 DEF Next, Restart, Spend, vars
<1>3. ledger \subseteq UNION {ports[a] : a \in Pending}
  BY <1>2 DEF ReservedIsPending
<1>4. CASE Restart
  BY <1>4 DEF Restart
<1>5. ASSUME NEW a \in Attempts, Planning(a)
      PROVE  ledger' \subseteq UNION {ports[b] : b \in Pending}'
  <2>1. CASE UNCHANGED <<ledger, ports>> /\ Pending \subseteq Pending'
    BY <1>3, <2>1
  <2>2. CASE \E g : /\ ledger' = ledger \cup g /\ ports' = [ports EXCEPT ![a] = g]
                    /\ st[a] = "scanning" /\ st' = [st EXCEPT ![a] = "replied"]
    <3>1. PICK g : /\ ledger' = ledger \cup g /\ ports' = [ports EXCEPT ![a] = g]
                   /\ st[a] = "scanning" /\ st' = [st EXCEPT ![a] = "replied"]
      BY <2>2
    <3>2. ports'[a] = g /\ a \in Pending'
      BY <3>1 DEF TypeOK, Pending, In
    <3>3. \A b \in Pending : b \in Pending' /\ ports'[b] = ports[b]
      BY <3>1 DEF TypeOK, Pending, In
    <3> QED
      BY <1>3, <3>1, <3>2, <3>3
  <2>3. CASE PlanCall(a) \/ CheckPort(a) \/ PlanNull(a)
    <3>1. UNCHANGED <<ledger, ports>> /\ Pending \subseteq Pending'
      BY <2>3 DEF PlanCall, CheckPort, PlanNull, TypeOK, Pending, In
    <3> QED
      BY <2>1, <3>1
  <2>4. CASE ProbePort(a)
    <3>1. ASSUME UNCHANGED <<ports, ledger, st>> PROVE Pending \subseteq Pending'
      BY <3>1 DEF Pending, In
    <3>2. \/ UNCHANGED <<ports, ledger, st>>
          \/ \E g : /\ ledger' = ledger \cup g /\ ports' = [ports EXCEPT ![a] = g]
                    /\ st[a] = "scanning" /\ st' = [st EXCEPT ![a] = "replied"]
      BY <2>4 DEF ProbePort
    <3> QED
      BY <2>1, <2>2, <3>1, <3>2
  <2> QED
    BY <1>5, <2>3, <2>4 DEF Planning
<1>6. ASSUME NEW a \in Attempts, Deploying(a)
      PROVE  ledger' \subseteq UNION {ports[b] : b \in Pending}'
  <2>1. CASE Abandon(a)
    BY <1>1, <2>1 DEF Abandon, Spend
  <2>2. CASE Propose(a) \/ ComposeUp(a) \/ Retry(a) \/ Retire(a)
    <3>1. UNCHANGED <<ledger, ports>> /\ Pending \subseteq Pending'
      BY <2>2 DEF Propose, ComposeUp, Retry, Retire, TypeOK, Pending, In
    <3> QED
      BY <1>3, <3>1
  <2>3. CASE GatePasses(a) \/ Fails(a)
    <3>1. ledger' = Released(a) /\ UNCHANGED ports /\ \A b \in Attempts \ {a} : st'[b] = st[b]
      BY <2>3 DEF GatePasses, Fails, TypeOK
    <3> QED
      BY <1>3, <3>1, ReleaseKeepsOwners
  <2> QED
    BY <1>6, <2>1, <2>2, <2>3 DEF Deploying
<1>7. CASE UNCHANGED vars
  BY <1>3, <1>7 DEF vars, Pending, In
<1> QED
  BY <1>4, <1>5, <1>6, <1>7 DEF Next

\* Every reservation belongs to a deployment that will bind or release it, however
\* plan calls overlap, attempts are retried and the daemon restarts, until a
\* deployment is abandoned between its plan and its build.
THEOREM ReservationsAreOwned == Spec => []LedgerIsOwned
<1>1. Init => ReservedIsPending
  BY DEF Init, ReservedIsPending
<1>2. ReservedIsPending => LedgerIsOwned
  BY DEF ReservedIsPending, LedgerIsOwned, LedgerIsAlwaysOwned, Never, Pending, Holders, In
<1>3. IInv => TypeOK
  BY DEF IInv
<1> QED
  BY <1>1, <1>2, <1>3, IInvInitially, IInvPreserved, ReservedIsPendingPreserved, PTL DEF Spec


-----------------------------------------------------------------------------
(* Ingress: how often events have happened.                                *)

\* Counting events keeps the counts natural numbers, and counts those named.
LEMMA IngressEvents ==
    ASSUME iUsed \in [I!Kinds -> Nat], NEW kinds \in SUBSET I!Kinds, I!Uses(kinds)
    PROVE  /\ iUsed' \in [I!Kinds -> Nat]
           /\ \A k \in kinds : iUsed'[k] > 0
           /\ \A k \in I!Kinds : iUsed'[k] = 0 => iUsed[k] = 0
<1>1. iUsed' = [k \in I!Kinds |-> iUsed[k] + (IF k \in kinds THEN 1 ELSE 0)]
  BY DEF I!Uses
<1>2. \A k \in I!Kinds : iUsed'[k] = iUsed[k] + (IF k \in kinds THEN 1 ELSE 0)
  BY <1>1
<1>3. iUsed' \in [I!Kinds -> Nat]
  BY <1>1
<1> QED
  BY <1>2, <1>3

\* Every step of the component counts what happens.
LEMMA IngressCount ==
    ASSUME iUsed \in [I!Kinds -> Nat], I!Next
    PROVE  /\ iUsed' \in [I!Kinds -> Nat]
           /\ \A k \in I!Kinds : iUsed'[k] = 0 => iUsed[k] = 0
<1> USE DEF I!Kinds
<1>1. ASSUME NEW f \in I!Passes, I!Step(f) PROVE UNCHANGED iUsed \/ \E kinds \in SUBSET I!Kinds : I!Uses(kinds)
  <2>1. ASSUME \/ I!ReadDeployments(f) \/ I!ReadCerts(f) \/ I!WriteFiles(f) \/ I!TestConf(f)
               \/ I!ListDomains(f) \/ I!FilterDomains(f) \/ I!StartCertbot(f) \/ I!EnsureDone(f)
               \/ I!Issue(f) \/ I!RecordCert(f) \/ I!DeleteRow(f) \/ I!RemoveDone(f)
        PROVE  UNCHANGED iUsed
    BY <2>1 DEF I!ReadDeployments, I!ReadCerts, I!WriteFiles, I!TestConf, I!ListDomains, I!FilterDomains,
                I!StartCertbot, I!EnsureDone, I!Issue, I!RecordCert, I!DeleteRow, I!RemoveDone
  <2>2. ASSUME I!Reload(f) \/ I!CertbotFails(f) \/ I!DeleteLineage(f)
        PROVE  I!Uses({}) \/ I!Uses({"unloaded"}) \/ I!Uses({"fail"})
    BY <2>2 DEF I!Reload, I!CertbotFails, I!DeleteLineage
  <2>3. ASSUME I!CertbotKilled(f) PROVE I!Uses({"killed"} \cup {"unissued"}) \/ I!Uses({"killed"} \cup {})
    BY <2>3 DEF I!CertbotKilled
  <2> QED
    BY <1>1, <2>1, <2>2, <2>3 DEF I!Step
<1>2. ASSUME I!StartTick \/ I!Crash PROVE \E kinds \in SUBSET I!Kinds : I!Uses(kinds)
  BY <1>2 DEF I!StartTick, I!Overlap, I!Crash
<1>3. ASSUME NEW p \in Projects, I!Deploy(p) \/ I!Promote(p) PROVE \E kinds \in SUBSET I!Kinds : I!Uses(kinds)
  BY <1>3 DEF I!Deploy, I!Promote, I!Overlap
<1>4. ASSUME NEW p \in Projects, I!Retire(p) PROVE \E kinds \in SUBSET I!Kinds : I!Uses(kinds)
  BY <1>4 DEF I!Retire
<1>5. ASSUME NEW d \in Domains, I!Expire(d) \/ I!CooldownEnds(d)
      PROVE  UNCHANGED iUsed \/ \E kinds \in SUBSET I!Kinds : I!Uses(kinds)
  BY <1>5 DEF I!Expire, I!CooldownEnds
<1> HIDE DEF I!Kinds
<1> QED
  BY <1>1, <1>2, <1>3, <1>4, <1>5, IngressEvents DEF I!Next

-----------------------------------------------------------------------------
(* Ingress: the strengthening.                                             *)

PassSteps == {"idle", "read", "certs", "write", "test", "reload", "list", "filter", "obtain", "certbot", "record",
              "delete", "forget"}
DeployedConf == [pending : SUBSET Domains, active : SUBSET Domains]
PassOf == [does : {"nothing", "tick", "ensure", "retire"}, at : PassSteps, deps : [Projects -> DeployedConf],
           goal : [I!Files -> SUBSET Domains], todo : SUBSET Domains, now : SUBSET Domains]
Renders == {"read", "certs", "write", "test", "reload"}
Obtains == {"list", "filter", "obtain", "certbot", "record"}
Removes == {"delete", "forget"}
IngressTyped ==
    /\ dep \in [Projects -> DeployedConf]
    /\ rows \in [Domains -> {"none", "valid", "due"}] /\ live \in [Domains -> Nat]
    /\ old \subseteq {d \in Domains : live[d] > 0} /\ cooldown \subseteq Domains
    /\ disk \in [I!Files -> SUBSET Domains] /\ nginx.files \in [I!Files -> SUBSET Domains]
    /\ flow \in [I!Passes -> PassOf]
    /\ iUsed \in [I!Kinds -> Nat]

\* A pass that retires a project renders and removes, the others render and obtain;
\* who retires has been counted.
Task(f) ==
    /\ flow[f].at = "idle" <=> flow[f] = I!Idle
    /\ flow[f].at \in Renders => flow[f].does \in {"tick", "retire"}
    /\ flow[f].at \in Obtains => flow[f].does \in {"tick", "ensure"}
    /\ flow[f].at \in Removes => flow[f].does = "retire"
    /\ flow[f].does = "tick" <=> f = I!Tick /\ flow[f] # I!Idle
    /\ flow[f].does = "retire" => iUsed["retire"] > 0

\* While no retirement overlaps, it is alone.
RetiresAlone == \A f, g \in I!Passes : f # g /\ flow[f].does = "retire" => flow[g] = I!Idle

\* A domain on record has its lineage, unless its removal is under way.
Forgetting(d) == \E f \in I!Passes : flow[f].at = "forget" /\ d \in flow[f].now
RecordedIsIssued == \A d \in Domains : rows[d] # "none" => live[d] > 0 \/ Forgetting(d)

\* So has every domain that is about to be recorded, or of a file about to be written.
\* What a retirement removes is in no conf that is served, in none it has read, in no
\* file it is to write, and in none it has left.
Unnamed(files, ds) == \A n \in I!Vhosts : files[n] \cap ds = {}
Unserved(deps, ds) == Dash \cap ds = {} /\ \A p \in Projects : deps[p].active \cap ds = {}
Fit(f) ==
    /\ flow[f].at = "certbot" => \E d \in Domains : flow[f].now = {d}
    /\ flow[f].at = "record" => \A d \in flow[f].now : live[d] > 0
    /\ flow[f].at = "write" => \A n \in I!Vhosts : \A d \in flow[f].goal[n] : live[d] > 0
    /\ flow[f].does = "retire" =>
         /\ Unserved(dep, flow[f].todo)
         /\ flow[f].at = "certs" => Unserved(flow[f].deps, flow[f].todo)
         /\ flow[f].at = "write" => Unnamed(flow[f].goal, flow[f].todo)
         /\ flow[f].at \in {"test", "reload", "delete", "forget"} => Unnamed(disk, flow[f].todo)

Undisturbed == I!Never({"overlap", "shared", "unissued"}) /\ (I!Never({"retire"}) \/ I!Never({"crash"}))
Sound == RecordedIsIssued /\ (\A f \in I!Passes : Fit(f)) /\ I!Valid(disk)
IngressInv ==
    /\ IngressTyped /\ \A f \in I!Passes : Task(f)
    /\ I!Never({"overlap"}) => RetiresAlone
    /\ Undisturbed => Sound


-----------------------------------------------------------------------------
(* Ingress: what a step does to its pass.                                  *)

Others(f) == \A g \in I!Passes \ {f} : flow'[g] = flow[g]
Becomes(f, at, deps, goal, todo, now) ==
    /\ flow' \in [I!Passes -> PassOf] /\ Others(f)
    /\ flow'[f].does = flow[f].does /\ flow'[f].at = at /\ flow'[f].deps = deps
    /\ flow'[f].goal = goal /\ flow'[f].todo = todo /\ flow'[f].now = now

\* A pass that goes on is another pass, and no other moves;
LEMMA PassGoesOn ==
    ASSUME IngressTyped, NEW f \in I!Passes, NEW new \in PassOf, I!Goes(f, new)
    PROVE  flow' \in [I!Passes -> PassOf] /\ flow'[f] = new /\ Others(f)
BY DEF IngressTyped, I!Goes, Others

\* one that is over is idle.
LEMMA IdleIsPass ==
    /\ I!Idle \in PassOf /\ I!Idle.does = "nothing" /\ I!Idle.at = "idle"
    /\ I!Nothing \in [Projects -> DeployedConf] /\ I!NoFiles \in [I!Files -> SUBSET Domains]
<1>1. I!Nothing \in [Projects -> DeployedConf] /\ I!NoFiles \in [I!Files -> SUBSET Domains]
  BY DEF I!Nothing, I!NotDeployed, DeployedConf, I!NoFiles
<1> QED
  BY <1>1 DEF I!Idle, I!Pass, PassOf, PassSteps

\* What is rendered is files of domains on record.
LEMMA RenderedFiles ==
    ASSUME IngressTyped, NEW deps \in [Projects -> DeployedConf]
    PROVE  /\ I!Rendered(deps) \in [I!Files -> SUBSET Domains]
           /\ \A n \in I!Vhosts : \A d \in I!Rendered(deps)[n] :
                 d \in I!OnRecord /\ (d \in Dash \/ \E p \in Projects : d \in deps[p].active)
<1>1. \A n \in Projects : n # "dashboard" /\ n # "challenge"
  BY IngressAssumption
<1>2. ASSUME NEW n \in Projects
      PROVE  I!Rendered(deps)[n] = I!Served(deps[n])
  BY <1>1 DEF I!Rendered, I!Files, I!Vhosts
<1>3. I!Rendered(deps)["dashboard"] = Dash \cap I!OnRecord
  BY <1>1 DEF I!Rendered, I!Files, I!Vhosts
<1>4. I!Rendered(deps)["challenge"] = (UNION {deps[p].pending : p \in Projects}) \ I!OnRecord
  BY <1>1 DEF I!Rendered, I!Files, I!Vhosts
<1>5. \A n \in Projects : I!Served(deps[n]) \subseteq deps[n].active /\ I!Served(deps[n]) \subseteq I!OnRecord
  BY DEF I!Served
<1>6. \A p \in Projects : deps[p].pending \in SUBSET Domains /\ deps[p].active \in SUBSET Domains
  BY DEF DeployedConf
<1>7. \A n \in I!Files : I!Rendered(deps)[n] \in SUBSET Domains
  BY <1>2, <1>3, <1>4, <1>5, <1>6, IngressAssumption DEF I!Files, I!Vhosts
<1>8. I!Rendered(deps) \in [I!Files -> SUBSET Domains]
  BY <1>7 DEF I!Rendered
<1> QED
  BY <1>2, <1>3, <1>5, <1>8 DEF I!Vhosts


\* Each step of a pass, by what it does to it.
LEMMA PassSteps1 ==
    ASSUME IngressTyped, NEW f \in I!Passes
    PROVE  /\ I!ReadDeployments(f) =>
                Becomes(f, "certs", dep, flow[f].goal, flow[f].todo, flow[f].now)
           /\ I!ReadCerts(f) =>
                Becomes(f, "write", I!Nothing, I!Rendered(flow[f].deps), flow[f].todo, flow[f].now)
           /\ I!ListDomains(f) =>
                \E todo : Becomes(f, "filter", flow[f].deps, flow[f].goal, todo, flow[f].now)
           /\ I!FilterDomains(f) =>
                \E todo : Becomes(f, "obtain", flow[f].deps, flow[f].goal, todo, flow[f].now)
           /\ I!StartCertbot(f) =>
                \E d \in Domains : Becomes(f, "certbot", flow[f].deps, flow[f].goal, flow[f].todo, {d})
           /\ I!Issue(f) \/ I!CertbotKilled(f) =>
                Becomes(f, "record", flow[f].deps, flow[f].goal, flow[f].todo, flow[f].now)
<1> DEFINE p == flow[f]
<1>1. /\ p \in PassOf /\ p.todo \in SUBSET Domains /\ p.deps \in [Projects -> DeployedConf]
      /\ dep \in [Projects -> DeployedConf] /\ \A q \in Projects : dep[q].pending \in SUBSET Domains
  BY DEF IngressTyped, PassOf, DeployedConf
<1> HIDE DEF p
<1>2. ASSUME I!ReadDeployments(f) PROVE Becomes(f, "certs", dep, p.goal, p.todo, p.now)
  <2> DEFINE new == [p EXCEPT !.at = "certs", !.deps = dep]
  <2>1. /\ new \in PassOf /\ new.does = p.does /\ new.at = "certs" /\ new.deps = dep
        /\ new.goal = p.goal /\ new.todo = p.todo /\ new.now = p.now
    BY <1>1 DEF PassOf, PassSteps
  <2>2. I!Goes(f, new)
    BY <1>2 DEF I!ReadDeployments, p
  <2> HIDE DEF new
  <2> QED
    BY <2>1, <2>2, PassGoesOn DEF Becomes, p
<1>3. ASSUME I!ReadCerts(f) PROVE Becomes(f, "write", I!Nothing, I!Rendered(p.deps), p.todo, p.now)
  <2> DEFINE goal == I!Rendered(p.deps)
             new == [p EXCEPT !.at = "write", !.goal = goal, !.deps = I!Nothing]
  <2>1. goal \in [I!Files -> SUBSET Domains] /\ I!Nothing \in [Projects -> DeployedConf]
    BY <1>1, RenderedFiles, IdleIsPass
  <2>2. I!Goes(f, new)
    BY <1>3 DEF I!ReadCerts, I!On, p
  <2> HIDE DEF goal
  <2>3. /\ new \in PassOf /\ new.does = p.does /\ new.at = "write" /\ new.deps = I!Nothing
        /\ new.goal = goal /\ new.todo = p.todo /\ new.now = p.now
    BY <1>1, <2>1 DEF PassOf, PassSteps
  <2> HIDE DEF new
  <2> QED
    BY <2>2, <2>3, PassGoesOn DEF Becomes, p, goal
<1>4. ASSUME I!ListDomains(f) PROVE \E todo : Becomes(f, "filter", p.deps, p.goal, todo, p.now)
  <2> DEFINE todo == Dash \cup UNION {dep[q].pending : q \in Projects}
             new == [p EXCEPT !.at = "filter", !.todo = todo]
  <2>1. \A d \in todo : d \in Domains
    BY <1>1, IngressAssumption
  <2>2. I!Goes(f, new)
    BY <1>4 DEF I!ListDomains, I!On, p
  <2> HIDE DEF todo
  <2>3. /\ new \in PassOf /\ new.does = p.does /\ new.at = "filter" /\ new.deps = p.deps
        /\ new.goal = p.goal /\ new.todo = todo /\ new.now = p.now
    BY <1>1, <2>1 DEF PassOf, PassSteps
  <2> HIDE DEF new
  <2>4. Becomes(f, "filter", p.deps, p.goal, todo, p.now)
    BY <2>2, <2>3, PassGoesOn DEF Becomes, p
  <2> QED
    BY <2>4
<1>5. ASSUME I!FilterDomains(f) PROVE \E todo : Becomes(f, "obtain", p.deps, p.goal, todo, p.now)
  <2> DEFINE todo == I!Missing(p.todo)
             new == [p EXCEPT !.at = "obtain", !.todo = todo]
  <2>1. todo \in SUBSET Domains
    BY <1>1 DEF I!Missing
  <2>2. I!Goes(f, new)
    BY <1>1, <1>5 DEF I!FilterDomains, I!On, p, PassOf
  <2> HIDE DEF todo
  <2>3. /\ new \in PassOf /\ new.does = p.does /\ new.at = "obtain" /\ new.deps = p.deps
        /\ new.goal = p.goal /\ new.todo = todo /\ new.now = p.now
    BY <1>1, <2>1 DEF PassOf, PassSteps
  <2> HIDE DEF new
  <2>4. Becomes(f, "obtain", p.deps, p.goal, todo, p.now)
    BY <2>2, <2>3, PassGoesOn DEF Becomes, p
  <2> QED
    BY <2>4
<1>6. ASSUME I!StartCertbot(f) PROVE \E d \in Domains : Becomes(f, "certbot", p.deps, p.goal, p.todo, {d})
  <2>1. PICK d \in p.todo : I!Goes(f, [I!On(f, "certbot") EXCEPT !.now = {d}])
    BY <1>6 DEF I!StartCertbot, p
  <2> DEFINE now_ == {d}
             new == [p EXCEPT !.at = "certbot", !.now = now_]
  <2>2. now_ \in SUBSET Domains
    BY <1>1
  <2>3. I!Goes(f, new)
    BY <2>1 DEF I!On, p
  <2> HIDE DEF now_
  <2>4. /\ new \in PassOf /\ new.does = p.does /\ new.at = "certbot" /\ new.deps = p.deps
        /\ new.goal = p.goal /\ new.todo = p.todo /\ new.now = now_
    BY <1>1, <2>2 DEF PassOf, PassSteps
  <2> HIDE DEF new
  <2>5. Becomes(f, "certbot", p.deps, p.goal, p.todo, now_)
    BY <2>3, <2>4, PassGoesOn DEF Becomes, p
  <2> QED
    BY <1>1, <2>1, <2>5 DEF now_
<1>7. ASSUME I!Issue(f) \/ I!CertbotKilled(f) PROVE Becomes(f, "record", p.deps, p.goal, p.todo, p.now)
  <2> DEFINE new == [p EXCEPT !.at = "record"]
  <2>1. I!Goes(f, new)
    BY <1>7 DEF I!Issue, I!CertbotKilled, I!On, p
  <2>2. /\ new \in PassOf /\ new.does = p.does /\ new.at = "record" /\ new.deps = p.deps
        /\ new.goal = p.goal /\ new.todo = p.todo /\ new.now = p.now
    BY <1>1 DEF PassOf, PassSteps
  <2> HIDE DEF new
  <2> QED
    BY <2>1, <2>2, PassGoesOn DEF Becomes, p
<1> QED
  BY <1>2, <1>3, <1>4, <1>5, <1>6, <1>7 DEF p


LEMMA PassSteps2 ==
    ASSUME IngressTyped, NEW f \in I!Passes
    PROVE  /\ I!WriteFiles(f) \/ I!TestConf(f) \/ I!Reload(f) =>
                \E at \in {"test", "reload", IF f = I!Tick THEN "list" ELSE "delete"} : \E goal :
                   Becomes(f, at, flow[f].deps, goal, flow[f].todo, flow[f].now)
           /\ I!EnsureDone(f) \/ I!RemoveDone(f) =>
                flow' \in [I!Passes -> PassOf] /\ flow'[f] = I!Idle /\ Others(f)
           /\ I!CertbotFails(f) \/ I!RecordCert(f) =>
                \E todo : Becomes(f, "obtain", flow[f].deps, flow[f].goal, todo, {})
           /\ I!DeleteRow(f) =>
                Becomes(f, "delete", flow[f].deps, flow[f].goal, flow[f].todo \ flow[f].now, {})
           /\ \A d \in flow[f].todo : I!Goes(f, [I!On(f, "forget") EXCEPT !.now = {d}]) =>
                Becomes(f, "forget", flow[f].deps, flow[f].goal, flow[f].todo, {d})
<1> DEFINE p == flow[f]
<1>1. p \in PassOf /\ p.todo \in SUBSET Domains /\ I!NoFiles \in [I!Files -> SUBSET Domains]
  BY IdleIsPass DEF IngressTyped, PassOf
<1> HIDE DEF p
<1>2. ASSUME NEW at \in PassSteps, I!Goes(f, [p EXCEPT !.at = at, !.goal = I!NoFiles])
      PROVE  Becomes(f, at, p.deps, I!NoFiles, p.todo, p.now)
  <2> DEFINE goal == I!NoFiles
             new == [p EXCEPT !.at = at, !.goal = goal]
  <2> HIDE DEF goal
  <2>1. /\ new \in PassOf /\ new.does = p.does /\ new.at = at /\ new.deps = p.deps
        /\ new.goal = goal /\ new.todo = p.todo /\ new.now = p.now
    BY <1>1 DEF PassOf, goal
  <2>2. I!Goes(f, new)
    BY <1>2 DEF goal
  <2> HIDE DEF new
  <2> QED
    BY <2>1, <2>2, PassGoesOn DEF Becomes, p, goal
<1>3. ASSUME NEW at \in PassSteps, I!Goes(f, [p EXCEPT !.at = at])
      PROVE  Becomes(f, at, p.deps, p.goal, p.todo, p.now)
  <2> DEFINE new == [p EXCEPT !.at = at]
  <2>1. /\ new \in PassOf /\ new.does = p.does /\ new.at = at /\ new.deps = p.deps
        /\ new.goal = p.goal /\ new.todo = p.todo /\ new.now = p.now
    BY <1>1 DEF PassOf
  <2>2. I!Goes(f, new)
    BY <1>3
  <2> HIDE DEF new
  <2> QED
    BY <2>1, <2>2, PassGoesOn DEF Becomes, p
<1> DEFINE rest == IF f = I!Tick THEN "list" ELSE "delete"
<1>4. rest \in PassSteps /\ "test" \in PassSteps /\ "reload" \in PassSteps
  BY DEF PassSteps
<1>5. I!Goes(f, I!Rest(f)) => Becomes(f, rest, p.deps, I!NoFiles, p.todo, p.now)
  BY <1>2, <1>4 DEF I!Rest, p
<1>6. ASSUME I!WriteFiles(f) \/ I!TestConf(f) \/ I!Reload(f)
      PROVE  \E at \in {"test", "reload", rest} : \E goal : Becomes(f, at, p.deps, goal, p.todo, p.now)
  <2>1. \/ I!Goes(f, I!Rest(f)) \/ I!Goes(f, [p EXCEPT !.at = "test", !.goal = I!NoFiles])
        \/ I!Goes(f, [p EXCEPT !.at = "reload"])
    BY <1>6 DEF I!WriteFiles, I!TestConf, I!Reload, I!On, p
  <2> HIDE DEF rest
  <2> QED
    BY <1>2, <1>3, <1>4, <1>5, <2>1
<1>7. ASSUME I!EnsureDone(f) \/ I!RemoveDone(f)
      PROVE  flow' \in [I!Passes -> PassOf] /\ flow'[f] = I!Idle /\ Others(f)
  BY <1>7, PassGoesOn, IdleIsPass DEF I!EnsureDone, I!RemoveDone
<1>8. ASSUME NEW at \in PassSteps, NEW todo \in SUBSET Domains, NEW now_ \in SUBSET Domains,
             I!Goes(f, [p EXCEPT !.at = at, !.now = now_, !.todo = todo])
      PROVE  Becomes(f, at, p.deps, p.goal, todo, now_)
  <2> DEFINE new == [p EXCEPT !.at = at, !.now = now_, !.todo = todo]
  <2>1. /\ new \in PassOf /\ new.does = p.does /\ new.at = at /\ new.deps = p.deps
        /\ new.goal = p.goal /\ new.todo = todo /\ new.now = now_
    BY <1>1 DEF PassOf
  <2>2. I!Goes(f, new)
    BY <1>8
  <2> HIDE DEF new
  <2> QED
    BY <2>1, <2>2, PassGoesOn DEF Becomes, p
<1>9. ASSUME I!CertbotFails(f) \/ I!RecordCert(f) PROVE \E todo : Becomes(f, "obtain", p.deps, p.goal, todo, {})
  <2>1. PICK d : I!Goes(f, [I!On(f, "obtain") EXCEPT !.now = {}, !.todo = @ \ {d}])
    BY <1>9 DEF I!CertbotFails, I!RecordCert
  <2>2. I!Goes(f, [p EXCEPT !.at = "obtain", !.now = {}, !.todo = p.todo \ {d}])
    BY <1>1, <2>1 DEF I!On, p, PassOf
  <2>3. p.todo \ {d} \in SUBSET Domains /\ {} \in SUBSET Domains /\ "obtain" \in PassSteps
    BY <1>1 DEF PassSteps
  <2> QED
    BY <1>8, <2>2, <2>3
<1>10. ASSUME I!DeleteRow(f) PROVE Becomes(f, "delete", p.deps, p.goal, p.todo \ p.now, {})
  <2>1. I!Goes(f, [p EXCEPT !.at = "delete", !.now = {}, !.todo = p.todo \ p.now])
    BY <1>1, <1>10 DEF I!DeleteRow, I!On, p, PassOf
  <2>2. p.todo \ p.now \in SUBSET Domains /\ {} \in SUBSET Domains /\ "delete" \in PassSteps
    BY <1>1 DEF PassSteps
  <2> QED
    BY <1>8, <2>1, <2>2
<1>11. ASSUME NEW d \in p.todo, I!Goes(f, [I!On(f, "forget") EXCEPT !.now = {d}])
       PROVE  Becomes(f, "forget", p.deps, p.goal, p.todo, {d})
  <2> DEFINE now_ == {d}
             new == [p EXCEPT !.at = "forget", !.now = now_]
  <2>1. now_ \in SUBSET Domains /\ I!Goes(f, new)
    BY <1>1, <1>11 DEF I!On, p
  <2> HIDE DEF now_
  <2>2. /\ new \in PassOf /\ new.does = p.does /\ new.at = "forget" /\ new.deps = p.deps
        /\ new.goal = p.goal /\ new.todo = p.todo /\ new.now = now_
    BY <1>1, <2>1 DEF PassOf, PassSteps
  <2> HIDE DEF new
  <2> QED
    BY <2>1, <2>2, PassGoesOn DEF Becomes, p, now_
<1> QED
  BY <1>6, <1>7, <1>9, <1>10, <1>11 DEF p


\* No step of a pass touches another one, and what it was counts on.
LEMMA PassMoves ==
    ASSUME IngressTyped, NEW f \in I!Passes, I!Step(f)
    PROVE  /\ flow' \in [I!Passes -> PassOf] /\ Others(f) /\ UNCHANGED dep
           /\ flow[f].at # "idle" /\ (flow'[f] = I!Idle \/ flow'[f].does = flow[f].does)
<1>1. UNCHANGED dep /\ flow[f].at # "idle"
  BY DEF I!Step, I!ReadDeployments, I!ReadCerts, I!WriteFiles, I!TestConf, I!Reload, I!ListDomains,
         I!FilterDomains, I!StartCertbot, I!EnsureDone, I!Issue, I!CertbotFails, I!CertbotKilled, I!RecordCert,
         I!DeleteLineage, I!DeleteRow, I!RemoveDone
<1>2. CASE \/ I!ReadDeployments(f) \/ I!ReadCerts(f) \/ I!ListDomains(f) \/ I!FilterDomains(f)
           \/ I!StartCertbot(f) \/ I!Issue(f) \/ I!CertbotKilled(f)
  BY <1>1, <1>2, PassSteps1 DEF Becomes
<1>3. CASE \/ I!WriteFiles(f) \/ I!TestConf(f) \/ I!Reload(f) \/ I!EnsureDone(f) \/ I!RemoveDone(f)
           \/ I!CertbotFails(f) \/ I!RecordCert(f) \/ I!DeleteRow(f)
  BY <1>1, <1>3, PassSteps2 DEF Becomes
<1>4. CASE I!DeleteLineage(f)
  <2>1. PICK d \in flow[f].todo : I!Goes(f, [I!On(f, "forget") EXCEPT !.now = {d}])
    BY <1>4 DEF I!DeleteLineage
  <2> QED
    BY <1>1, <2>1, PassSteps2 DEF Becomes
<1> QED
  BY <1>2, <1>3, <1>4 DEF I!Step

\* Every step keeps the types.
LEMMA IngressTypedPreserved ==
    ASSUME IngressTyped, I!Next PROVE IngressTyped'
<1>1. iUsed' \in [I!Kinds -> Nat]
  BY IngressCount DEF IngressTyped
<1> USE DEF IngressTyped
<1>2. ASSUME NEW f \in I!Passes, I!Step(f) PROVE IngressTyped'
  <2>1. flow' \in [I!Passes -> PassOf] /\ UNCHANGED dep /\ flow[f] \in PassOf
    BY <1>2, PassMoves
  <2>2. /\ flow[f].goal \in [I!Files -> SUBSET Domains] /\ flow[f].todo \in SUBSET Domains
        /\ flow[f].now \in SUBSET Domains
    BY <2>1 DEF PassOf
  <2>3. CASE \/ I!ReadDeployments(f) \/ I!ReadCerts(f) \/ I!TestConf(f) \/ I!ListDomains(f)
             \/ I!FilterDomains(f) \/ I!StartCertbot(f) \/ I!EnsureDone(f) \/ I!RemoveDone(f)
    <3>1. UNCHANGED <<rows, live, old, cooldown, disk, nginx>>
      BY <2>3 DEF I!ReadDeployments, I!ReadCerts, I!TestConf, I!ListDomains, I!FilterDomains,
                  I!StartCertbot, I!EnsureDone, I!RemoveDone
    <3> QED
      BY <1>1, <2>1, <3>1
  <2>4. CASE I!WriteFiles(f)
    BY <1>1, <2>1, <2>2, <2>4 DEF I!WriteFiles
  <2>5. CASE I!Reload(f)
    BY <1>1, <2>1, <2>5 DEF I!Reload, I!Load
  <2>6. CASE I!Issue(f)
    <3>1. PICK d \in flow[f].now : /\ live' = IF live[d] = 0 \/ d \in old THEN [live EXCEPT ![d] = @ + 1] ELSE live
                                   /\ old' = old \ {d} /\ cooldown' = cooldown \ {d}
      BY <2>6 DEF I!Issue
    <3>2. UNCHANGED <<rows, disk>> /\ nginx'.files \in [I!Files -> SUBSET Domains]
      BY <2>6 DEF I!Issue, I!Load
    <3>3. live' \in [Domains -> Nat] /\ \A o \in Domains : live[o] > 0 => live'[o] > 0
      BY <2>2, <3>1
    <3>4. old' \subseteq {o \in Domains : live'[o] > 0} /\ cooldown' \subseteq Domains
      BY <3>1, <3>3
    <3> QED
      BY <1>1, <2>1, <3>2, <3>3, <3>4
  <2>7. CASE I!CertbotFails(f) \/ I!CertbotKilled(f)
    BY <1>1, <2>1, <2>2, <2>7 DEF I!CertbotFails, I!CertbotKilled
  <2>8. CASE I!RecordCert(f)
    <3>1. PICK d \in flow[f].now, expiry \in {"valid", "due"} : rows' = [rows EXCEPT ![d] = expiry]
      BY <2>8, Zenon DEF I!RecordCert
    <3>2. UNCHANGED <<live, old, cooldown, disk, nginx>>
      BY <2>8, Zenon DEF I!RecordCert
    <3>3. rows' \in [Domains -> {"none", "valid", "due"}]
      BY <2>2, <3>1
    <3> QED
      BY <1>1, <2>1, <3>2, <3>3
  <2>9. CASE I!DeleteLineage(f)
    <3>1. PICK d \in flow[f].todo : /\ \/ live' = [live EXCEPT ![d] = 0] /\ old' = old \ {d}
                                       \/ UNCHANGED <<live, old>>
                                    /\ cooldown' = cooldown \ {d}
      BY <2>9 DEF I!DeleteLineage
    <3>2. UNCHANGED <<rows, disk, nginx>>
      BY <2>9 DEF I!DeleteLineage
    <3>3. live' \in [Domains -> Nat] /\ old' \subseteq {o \in Domains : live'[o] > 0}
      BY <2>2, <3>1
    <3> QED
      BY <1>1, <2>1, <3>1, <3>2, <3>3
  <2>10. CASE I!DeleteRow(f)
    <3>1. UNCHANGED <<live, old, cooldown, disk, nginx>> /\ rows' \in [Domains -> {"none", "valid", "due"}]
      BY <2>10 DEF I!DeleteRow
    <3> QED
      BY <1>1, <2>1, <3>1
  <2> QED
    BY <1>2, <2>3, <2>4, <2>5, <2>6, <2>7, <2>8, <2>9, <2>10 DEF I!Step
<1>3. ASSUME NEW f \in I!Passes, NEW does \in {"tick", "ensure", "retire"}, NEW at \in {"read", "list"},
             NEW todo \in SUBSET Domains
      PROVE  I!Pass(does, at, todo) \in PassOf
  BY IdleIsPass DEF I!Pass, PassOf, PassSteps
<1>4. I!Tick \in I!Passes /\ Flows \subseteq I!Passes
  BY DEF I!Passes
<1>5. CASE I!StartTick
  <2>1. I!Goes(I!Tick, I!Pass("tick", "read", {})) /\ UNCHANGED <<dep, rows, live, old, cooldown, disk, nginx>>
    BY <1>5 DEF I!StartTick
  <2>2. I!Pass("tick", "read", {}) \in PassOf
    BY <1>3, <1>4
  <2>3. flow' \in [I!Passes -> PassOf]
    BY <1>4, <2>1, <2>2, PassGoesOn
  <2> QED
    BY <1>1, <2>1, <2>3
<1>6. ASSUME NEW p \in Projects, I!Deploy(p) PROVE IngressTyped'
  <2>1. PICK ds \in Wants[p], atOnce \in BOOLEAN, f \in Flows :
           /\ I!Goes(f, I!Pass("ensure", "list", {}))
           /\ dep' = [dep EXCEPT ![p] = [pending |-> ds, active |-> IF atOnce THEN ds ELSE @.active]]
    BY <1>6 DEF I!Deploy
  <2>2. ds \in SUBSET Domains /\ dep[p].active \in SUBSET Domains
    BY IngressAssumption DEF DeployedConf
  <2>3. dep' \in [Projects -> DeployedConf]
    BY <2>1, <2>2 DEF DeployedConf
  <2>4. flow' \in [I!Passes -> PassOf]
    BY <1>3, <1>4, <2>1, PassGoesOn
  <2>5. UNCHANGED <<rows, live, old, cooldown, disk, nginx>>
    BY <1>6 DEF I!Deploy
  <2> QED
    BY <1>1, <2>3, <2>4, <2>5
<1>7. ASSUME NEW p \in Projects, I!Promote(p) PROVE IngressTyped'
  <2>1. PICK f \in Flows : I!Goes(f, I!Pass("ensure", "list", {}))
    BY <1>7 DEF I!Promote
  <2>2. dep' = [dep EXCEPT ![p].active = dep[p].pending] /\ UNCHANGED <<rows, live, old, cooldown, disk, nginx>>
    BY <1>7 DEF I!Promote
  <2>3. dep' \in [Projects -> DeployedConf]
    BY <2>2 DEF DeployedConf
  <2>4. flow' \in [I!Passes -> PassOf]
    BY <1>3, <1>4, <2>1, PassGoesOn
  <2> QED
    BY <1>1, <2>2, <2>3, <2>4
<1>8. ASSUME NEW p \in Projects, I!Retire(p) PROVE IngressTyped'
  <2>1. PICK f \in Flows : I!Goes(f, I!Pass("retire", "read", dep[p].pending))
    BY <1>8 DEF I!Retire
  <2>2. dep' = [dep EXCEPT ![p] = I!NotDeployed] /\ UNCHANGED <<rows, live, old, cooldown, disk, nginx>>
    BY <1>8 DEF I!Retire
  <2>3. dep' \in [Projects -> DeployedConf] /\ dep[p].pending \in SUBSET Domains
    BY <2>2 DEF DeployedConf, I!NotDeployed
  <2>4. flow' \in [I!Passes -> PassOf]
    BY <1>3, <1>4, <2>1, <2>3, PassGoesOn
  <2> QED
    BY <1>1, <2>2, <2>3, <2>4
<1>9. ASSUME NEW d \in Domains, I!Expire(d) PROVE IngressTyped'
  <2>1. /\ UNCHANGED <<dep, live, cooldown, disk, nginx, flow>>
        /\ old' = IF live[d] > 0 THEN old \cup {d} ELSE old
        /\ rows' = [rows EXCEPT ![d] = IF @ = "none" THEN @ ELSE "due"]
    BY <1>9 DEF I!Expire
  <2> QED
    BY <1>1, <2>1
<1>10. ASSUME NEW d \in Domains, I!CooldownEnds(d) PROVE IngressTyped'
  BY <1>1, <1>10 DEF I!CooldownEnds
<1>11. CASE I!Crash
  BY <1>1, <1>11, IdleIsPass DEF I!Crash
<1> QED
  BY <1>2, <1>5, <1>6, <1>7, <1>8, <1>9, <1>10, <1>11 DEF I!Next


\* A pass that begins is a pass, and no other moves.
LEMMA PassBegins ==
    ASSUME IngressTyped, NEW f \in I!Passes, NEW does \in {"tick", "ensure", "retire"},
           NEW at \in {"read", "list"}, NEW todo \in SUBSET Domains, I!Goes(f, I!Pass(does, at, todo))
    PROVE  /\ flow' \in [I!Passes -> PassOf] /\ Others(f) /\ flow'[f] # I!Idle
           /\ flow'[f].does = does /\ flow'[f].at = at /\ flow'[f].todo = todo
<1>1. /\ I!Pass(does, at, todo) \in PassOf /\ I!Pass(does, at, todo).does = does
      /\ I!Pass(does, at, todo).at = at /\ I!Pass(does, at, todo).todo = todo
  BY IdleIsPass DEF I!Pass, PassOf, PassSteps
<1>2. flow' \in [I!Passes -> PassOf] /\ flow'[f] = I!Pass(does, at, todo) /\ Others(f)
  BY <1>1, PassGoesOn
<1> QED
  BY <1>1, <1>2, IdleIsPass

\* Every pass keeps to its task: one that goes on,
LEMMA TaskOfOne ==
    ASSUME IngressTyped, NEW f \in I!Passes, Task(f), NEW at, NEW deps, NEW goal, NEW todo, NEW now_,
           Becomes(f, at, deps, goal, todo, now_), flow[f].at # "idle", at # "idle",
           at \in Renders => flow[f].does \in {"tick", "retire"},
           at \in Obtains => flow[f].does \in {"tick", "ensure"},
           at \in Removes => flow[f].does = "retire",
           iUsed["retire"] > 0 => iUsed'["retire"] > 0
    PROVE  Task(f)'
<1>1. flow[f] # I!Idle /\ flow'[f].at = at /\ flow'[f].does = flow[f].does
  BY IdleIsPass DEF Becomes
<1>2. flow'[f] # I!Idle
  BY <1>1, IdleIsPass
<1> QED
  BY <1>1, <1>2 DEF Task

\* and all, whatever happens.
LEMMA TasksPreserved ==
    ASSUME IngressTyped, \A f \in I!Passes : Task(f), I!Next
    PROVE  \A f \in I!Passes : Task(f)'
<1>1. iUsed["retire"] > 0 => iUsed'["retire"] > 0
  <2>1. iUsed["retire"] \in Nat /\ iUsed'["retire"] \in Nat /\ (iUsed'["retire"] = 0 => iUsed["retire"] = 0)
    BY IngressCount DEF IngressTyped, I!Kinds
  <2> QED
    BY <2>1
<1>2. ASSUME NEW g \in I!Passes, flow'[g] = flow[g] PROVE Task(g)'
  BY <1>1, <1>2 DEF Task
<1>3. ASSUME NEW g \in I!Passes, flow'[g] = I!Idle PROVE Task(g)'
  BY <1>3, IdleIsPass DEF Task, Renders, Obtains, Removes
<1>4. ASSUME NEW f \in I!Passes, I!Step(f) PROVE \A g \in I!Passes : Task(g)'
  <2>1. Others(f)
    BY <1>4, PassMoves
  <2> SUFFICES Task(f)'
    BY <1>2, <2>1 DEF Others
  <2>2. CASE I!ReadDeployments(f) \/ I!ReadCerts(f)
    <3>1. flow[f].at \in {"read", "certs"}
      BY <2>2 DEF I!ReadDeployments, I!ReadCerts
    <3>2. flow[f].does \in {"tick", "retire"}
      BY <3>1 DEF Task, Renders
    <3>3. PICK at \in {"certs", "write"} : \E deps, goal, todo, now_ : Becomes(f, at, deps, goal, todo, now_)
      BY <2>2, PassSteps1
    <3> QED
      BY <1>1, <3>1, <3>2, <3>3, TaskOfOne DEF Obtains, Removes
  <2>3. CASE I!ListDomains(f) \/ I!FilterDomains(f) \/ I!StartCertbot(f) \/ I!Issue(f)
             \/ I!CertbotFails(f) \/ I!CertbotKilled(f) \/ I!RecordCert(f)
    <3>1. flow[f].at \in {"list", "filter", "obtain", "certbot", "record"}
      BY <2>3 DEF I!ListDomains, I!FilterDomains, I!StartCertbot, I!Issue, I!CertbotFails,
                  I!CertbotKilled, I!RecordCert
    <3>2. flow[f].does \in {"tick", "ensure"}
      BY <3>1 DEF Task, Obtains
    <3>3. PICK at \in {"filter", "obtain", "certbot", "record"} :
             \E deps, goal, todo, now_ : Becomes(f, at, deps, goal, todo, now_)
      BY <2>3, PassSteps1, PassSteps2
    <3> QED
      BY <1>1, <3>1, <3>2, <3>3, TaskOfOne DEF Renders, Removes
  <2>4. CASE I!WriteFiles(f) \/ I!TestConf(f) \/ I!Reload(f)
    <3>1. flow[f].at \in {"write", "test", "reload"}
      BY <2>4 DEF I!WriteFiles, I!TestConf, I!Reload
    <3>2. flow[f].does \in {"tick", "retire"} /\ flow[f] # I!Idle
      BY <3>1, IdleIsPass DEF Task, Renders
    <3>3. flow[f].does = (IF f = I!Tick THEN "tick" ELSE "retire")
      BY <3>2 DEF Task
    <3>4. PICK at \in {"test", "reload", IF f = I!Tick THEN "list" ELSE "delete"} :
             \E deps, goal, todo, now_ : Becomes(f, at, deps, goal, todo, now_)
      BY <2>4, PassSteps2
    <3>5. CASE at \in {"test", "reload"}
      BY <1>1, <3>1, <3>2, <3>4, <3>5, TaskOfOne DEF Obtains, Removes
    <3>6. CASE at = (IF f = I!Tick THEN "list" ELSE "delete")
      BY <1>1, <3>1, <3>3, <3>4, <3>6, TaskOfOne DEF Renders, Obtains, Removes
    <3> QED
      BY <3>4, <3>5, <3>6
  <2>5. CASE I!EnsureDone(f) \/ I!RemoveDone(f)
    BY <1>3, <2>5, PassSteps2
  <2>6. CASE I!DeleteLineage(f) \/ I!DeleteRow(f)
    <3>1. flow[f].at \in {"delete", "forget"}
      BY <2>6 DEF I!DeleteLineage, I!DeleteRow
    <3>2. flow[f].does = "retire"
      BY <3>1 DEF Task, Removes
    <3>3. PICK at \in {"delete", "forget"} : \E deps, goal, todo, now_ : Becomes(f, at, deps, goal, todo, now_)
      <4>1. CASE I!DeleteLineage(f)
        <5>1. PICK d \in flow[f].todo : I!Goes(f, [I!On(f, "forget") EXCEPT !.now = {d}])
          BY <4>1 DEF I!DeleteLineage
        <5> QED
          BY <5>1, PassSteps2
      <4> QED
        BY <2>6, <4>1, PassSteps2
    <3> QED
      BY <1>1, <3>1, <3>2, <3>3, TaskOfOne DEF Renders, Obtains
  <2> QED
    BY <1>4, <2>2, <2>3, <2>4, <2>5, <2>6 DEF I!Step
<1>5. I!Tick \in I!Passes /\ (\A f \in Flows : f \in I!Passes /\ f # I!Tick)
  BY IngressAssumption DEF I!Passes, I!Tick
<1>6. ASSUME NEW f \in I!Passes, NEW does \in {"tick", "ensure", "retire"}, NEW at \in {"read", "list"},
             NEW todo \in SUBSET Domains, I!Goes(f, I!Pass(does, at, todo)),
             at = "read" => does # "ensure", at = "list" => does # "retire",
             does = "tick" <=> f = I!Tick, does = "retire" => iUsed'["retire"] > 0
      PROVE  \A g \in I!Passes : Task(g)'
  <2>1. Others(f) /\ flow'[f] # I!Idle /\ flow'[f].does = does /\ flow'[f].at = at
    BY <1>6, PassBegins
  <2>2. Task(f)'
    BY <1>6, <2>1 DEF Task, Renders, Obtains, Removes
  <2> QED
    BY <1>2, <2>1, <2>2 DEF Others
<1>7. CASE I!StartTick
  BY <1>5, <1>6, <1>7 DEF I!StartTick
<1>8. ASSUME NEW p \in Projects, I!Deploy(p) \/ I!Promote(p) PROVE \A g \in I!Passes : Task(g)'
  BY <1>5, <1>6, <1>8 DEF I!Deploy, I!Promote
<1>9. ASSUME NEW p \in Projects, I!Retire(p) PROVE \A g \in I!Passes : Task(g)'
  <2>1. PICK f \in Flows : I!Goes(f, I!Pass("retire", "read", dep[p].pending))
    BY <1>9 DEF I!Retire
  <2>2. dep[p].pending \in SUBSET Domains
    BY DEF IngressTyped, DeployedConf
  <2>3. PICK kinds \in SUBSET I!Kinds : "retire" \in kinds /\ I!Uses(kinds)
    BY <1>9 DEF I!Retire, I!Kinds
  <2>4. iUsed'["retire"] > 0
    BY <2>3, IngressEvents DEF IngressTyped
  <2> QED
    BY <1>5, <1>6, <2>1, <2>2, <2>4
<1>10. CASE I!Crash
  BY <1>3, <1>10 DEF I!Crash
<1>11. ASSUME NEW d \in Domains, I!Expire(d) \/ I!CooldownEnds(d) PROVE \A g \in I!Passes : Task(g)'
  BY <1>2, <1>11 DEF I!Expire, I!CooldownEnds
<1> QED
  BY <1>4, <1>7, <1>8, <1>9, <1>10, <1>11 DEF I!Next

-----------------------------------------------------------------------------
(* Ingress: who runs beside a retirement.                                  *)

\* While no retirement overlaps, what begins beside the tick begins when nobody retires,
LEMMA NobodyRetires ==
    ASSUME IngressTyped, I!StartTick \/ \E p \in Projects : I!Deploy(p) \/ I!Promote(p),
           iUsed'["overlap"] = 0
    PROVE  \A g \in I!Passes : flow[g].does # "retire"
<1>1. PICK kinds \in SUBSET I!Kinds : I!Overlap \subseteq kinds /\ I!Uses(kinds)
  <2>1. I!Overlap \in SUBSET I!Kinds /\ {"deploy"} \cup I!Overlap \in SUBSET I!Kinds
    BY DEF I!Overlap, I!Kinds
  <2> QED
    BY <2>1 DEF I!StartTick, I!Deploy, I!Promote
<1>2. "overlap" \notin kinds
  BY <1>1, IngressEvents DEF IngressTyped
<1> QED
  BY <1>1, <1>2 DEF I!Overlap, I!Busy

\* and a retirement when there is no pass at all.
LEMMA NobodyElse ==
    ASSUME IngressTyped, NEW p \in Projects, I!Retire(p), iUsed'["overlap"] = 0
    PROVE  /\ \A g \in I!Passes : flow[g] = I!Idle
           /\ iUsed'["shared"] = 0 =>
                dep[p].pending \cap (Dash \cup UNION {dep[q].pending \cup dep[q].active : q \in Projects \ {p}}) = {}
<1> DEFINE elsewhere == Dash \cup UNION {dep[q].pending \cup dep[q].active : q \in Projects \ {p}}
           kinds == {"retire"}
                    \cup (IF \A f \in I!Passes : flow[f] = I!Idle THEN {} ELSE {"overlap"})
                    \cup (IF dep[p].pending \cap elsewhere = {} THEN {} ELSE {"shared"})
<1>1. I!Uses(kinds)
  BY DEF I!Retire
<1>2. kinds \in SUBSET I!Kinds
  BY DEF I!Kinds
<1>3. \A k \in kinds : iUsed'[k] > 0
  <2> HIDE DEF kinds
  <2> QED
    BY <1>1, <1>2, IngressEvents DEF IngressTyped
<1>4. "overlap" \notin kinds /\ (iUsed'["shared"] = 0 => "shared" \notin kinds)
  BY <1>3
<1> HIDE DEF elsewhere
<1>5. \A g \in I!Passes : flow[g] = I!Idle
  BY <1>4
<1>6. iUsed'["shared"] = 0 => dep[p].pending \cap elsewhere = {}
  BY <1>4
<1> QED
  BY <1>5, <1>6 DEF elsewhere

\* So a retirement stays alone.
LEMMA RetiresAlonePreserved ==
    ASSUME IngressTyped, \A f \in I!Passes : Task(f), RetiresAlone, I!Next, iUsed'["overlap"] = 0
    PROVE  RetiresAlone'
<1>1. ASSUME NEW f \in I!Passes, I!Step(f) PROVE RetiresAlone'
  <2>1. /\ Others(f) /\ flow[f] # I!Idle
        /\ flow'[f] = I!Idle \/ flow'[f].does = flow[f].does
    BY <1>1, PassMoves, IdleIsPass
  <2>2. \A g \in I!Passes : g # f => flow'[g] = flow[g] /\ flow[g].does # "retire"
    BY <2>1 DEF Others, RetiresAlone
  <2>3. flow'[f].does = "retire" => flow[f].does = "retire"
    BY <2>1, IdleIsPass
  <2> QED
    BY <2>2, <2>3 DEF RetiresAlone
<1>2. ASSUME NEW f \in I!Passes, Others(f), flow'[f].does # "retire", \A g \in I!Passes : flow[g].does # "retire"
      PROVE  RetiresAlone'
  BY <1>2 DEF RetiresAlone, Others
<1>3. I!Tick \in I!Passes /\ Flows \subseteq I!Passes
  BY DEF I!Passes
<1>4. CASE I!StartTick \/ \E p \in Projects : I!Deploy(p) \/ I!Promote(p)
  <2>1. \A g \in I!Passes : flow[g].does # "retire"
    BY <1>4, NobodyRetires
  <2>2. PICK f \in I!Passes, does \in {"tick", "ensure"}, at \in {"read", "list"} : I!Goes(f, I!Pass(does, at, {}))
    BY <1>3, <1>4 DEF I!StartTick, I!Deploy, I!Promote
  <2>3. Others(f) /\ flow'[f].does = does
    BY <2>2, PassBegins
  <2> QED
    BY <1>2, <2>1, <2>3
<1>5. ASSUME NEW p \in Projects, I!Retire(p) PROVE RetiresAlone'
  <2>1. \A g \in I!Passes : flow[g] = I!Idle
    BY <1>5, NobodyElse
  <2>2. PICK f \in I!Passes : I!Goes(f, I!Pass("retire", "read", dep[p].pending))
    BY <1>3, <1>5 DEF I!Retire
  <2>3. dep[p].pending \in SUBSET Domains
    BY DEF IngressTyped, DeployedConf
  <2>4. Others(f)
    BY <2>2, <2>3, PassBegins
  <2> QED
    BY <2>1, <2>4, IdleIsPass DEF RetiresAlone, Others
<1>6. CASE I!Crash
  BY <1>6, IdleIsPass DEF I!Crash, RetiresAlone
<1>7. ASSUME NEW d \in Domains, I!Expire(d) \/ I!CooldownEnds(d) PROVE RetiresAlone'
  BY <1>7 DEF I!Expire, I!CooldownEnds, RetiresAlone
<1> QED
  BY <1>1, <1>4, <1>5, <1>6, <1>7 DEF I!Next

-----------------------------------------------------------------------------
(* Ingress: the files on disk stay valid.                                  *)

\* Where a step of one pass neither issues, removes nor writes, what it leaves its own
\* pass with is all there is to see to.
LEMMA OthersStayFit ==
    ASSUME Sound, NEW f \in I!Passes, Others(f), Fit(f)', flow[f].at # "forget", UNCHANGED <<live, disk>>,
           \A d \in Domains : rows'[d] # "none" => rows[d] # "none" \/ live[d] > 0,
           UNCHANGED dep \/ \A g \in I!Passes : flow[g].does # "retire"
    PROVE  Sound'
<1>1. ASSUME NEW g \in I!Passes, g # f PROVE Fit(g)'
  <2>1. flow'[g] = flow[g] /\ Fit(g)
    BY <1>1 DEF Others, Sound
  <2> QED
    BY <2>1 DEF Fit
<1>2. \A d \in Domains : Forgetting(d) => Forgetting(d)'
  BY DEF Forgetting, Others
<1>3. RecordedIsIssued'
  BY <1>2 DEF Sound, RecordedIsIssued
<1>4. I!Valid(disk)'
  BY DEF Sound, I!Valid
<1> QED
  BY <1>1, <1>3, <1>4 DEF Sound

\* Nobody forgets where nobody retires, so what is on record then is issued.
LEMMA NobodyForgets ==
    ASSUME Sound, \A g \in I!Passes : Task(g), NEW d \in Domains, rows[d] # "none",
           \A g \in I!Passes : flow[g].at = "forget" => flow[g].does # "retire" \/ d \notin flow[g].now
    PROVE  live[d] > 0
BY DEF Sound, RecordedIsIssued, Forgetting, Task, Removes

\* A render keeps that:
LEMMA RenderKeepsSound ==
    ASSUME IngressTyped, \A g \in I!Passes : Task(g), RetiresAlone, Sound, NEW f \in I!Passes,
           \/ I!ReadDeployments(f) \/ I!ReadCerts(f) \/ I!WriteFiles(f) \/ I!TestConf(f) \/ I!Reload(f)
    PROVE  Sound'
<1>1. Fit(f) /\ flow[f] # I!Idle /\ Others(f) /\ UNCHANGED <<dep, rows, live>>
  <2>1. Others(f) /\ flow[f].at # "idle"
    BY PassMoves DEF I!Step
  <2> QED
    BY <2>1, IdleIsPass DEF Sound, I!ReadDeployments, I!ReadCerts, I!WriteFiles, I!TestConf, I!Reload
<1>2. \A g \in I!Passes : g # f => flow[g].does # "retire" /\ flow'[g] = flow[g] /\ Fit(g)
  BY <1>1 DEF RetiresAlone, Others, Sound
<1>3. CASE I!ReadDeployments(f)
  <2>1. Becomes(f, "certs", dep, flow[f].goal, flow[f].todo, flow[f].now) /\ UNCHANGED disk /\ flow[f].at = "read"
    BY <1>3, PassSteps1 DEF I!ReadDeployments
  <2>2. Fit(f)'
    BY <1>1, <2>1 DEF Fit, Becomes
  <2> QED
    BY <1>1, <2>1, <2>2, OthersStayFit
<1>4. CASE I!ReadCerts(f)
  <2>1. /\ Becomes(f, "write", I!Nothing, I!Rendered(flow[f].deps), flow[f].todo, flow[f].now)
        /\ UNCHANGED disk /\ flow[f].at = "certs"
    BY <1>4, PassSteps1 DEF I!ReadCerts
  <2> DEFINE goal == I!Rendered(flow[f].deps)
  <2>2. flow[f].deps \in [Projects -> DeployedConf]
    BY DEF IngressTyped, PassOf
  <2>3. \A n \in I!Vhosts : \A d \in goal[n] :
           d \in Domains /\ rows[d] # "none" /\ (d \in Dash \/ \E p \in Projects : d \in flow[f].deps[p].active)
    BY <2>2, RenderedFiles DEF I!OnRecord
  <2>4. \A g \in I!Passes : flow[g].at = "forget" => flow[g].does # "retire"
    BY <1>2, <2>1
  <2>5. \A n \in I!Vhosts : \A d \in goal[n] : live[d] > 0
    BY <2>3, <2>4, NobodyForgets
  <2>6. flow[f].does = "retire" => Unnamed(goal, flow[f].todo) /\ Unserved(dep, flow[f].todo)
    BY <1>1, <2>1, <2>3 DEF Fit, Unserved, Unnamed
  <2> HIDE DEF goal
  <2>7. Becomes(f, "write", I!Nothing, goal, flow[f].todo, flow[f].now)
    BY <2>1 DEF goal
  <2>8. Fit(f)'
    BY <1>1, <2>5, <2>6, <2>7 DEF Fit, Becomes
  <2> QED
    BY <1>1, <2>1, <2>8, OthersStayFit
<1>5. ASSUME I!WriteFiles(f) \/ I!TestConf(f) \/ I!Reload(f)
      PROVE  \E at \in {"test", "reload", "list", "delete"} : \E goal :
                Becomes(f, at, flow[f].deps, goal, flow[f].todo, flow[f].now)
  BY <1>5, PassSteps2
<1>6. CASE I!TestConf(f) \/ I!Reload(f)
  <2>1. UNCHANGED disk /\ flow[f].at \in {"test", "reload"}
    BY <1>6 DEF I!TestConf, I!Reload
  <2>2. Fit(f)'
    BY <1>1, <1>5, <1>6, <2>1 DEF Fit, Becomes
  <2> QED
    BY <1>1, <2>1, <2>2, OthersStayFit
<1>7. CASE I!WriteFiles(f)
  <2>1. disk' = flow[f].goal /\ flow[f].at = "write"
    BY <1>7 DEF I!WriteFiles
  <2>2. Fit(f)'
    BY <1>1, <1>5, <1>7, <2>1 DEF Fit, Becomes
  <2>3. ASSUME NEW g \in I!Passes, g # f PROVE Fit(g)'
    BY <1>1, <1>2, <2>3 DEF Fit
  <2>4. I!Valid(disk)'
    BY <1>1, <2>1 DEF Fit, I!Valid
  <2>5. \A d \in Domains : Forgetting(d) => Forgetting(d)'
    BY <1>2, <2>1 DEF Forgetting
  <2>6. RecordedIsIssued'
    BY <1>1, <2>5 DEF Sound, RecordedIsIssued
  <2> QED
    BY <2>2, <2>3, <2>4, <2>6 DEF Sound
<1> QED
  BY <1>3, <1>4, <1>6, <1>7

\* obtaining certificates does, and recording them, unless certbot is killed before it
\* has stored the first certificate of a domain;
LEMMA ObtainKeepsSound ==
    ASSUME IngressTyped, \A g \in I!Passes : Task(g), Sound, NEW f \in I!Passes,
           \/ I!ListDomains(f) \/ I!FilterDomains(f) \/ I!StartCertbot(f) \/ I!EnsureDone(f)
           \/ I!Issue(f) \/ I!CertbotFails(f) \/ I!CertbotKilled(f) \/ I!RecordCert(f),
           Undisturbed'
    PROVE  Sound'
<1>1. /\ Fit(f) /\ Others(f) /\ UNCHANGED <<dep, disk>>
      /\ flow[f].at \in Obtains /\ flow[f].does # "retire"
  <2>1. Others(f) /\ UNCHANGED dep
    BY PassMoves DEF I!Step
  <2>2. UNCHANGED disk /\ flow[f].at \in Obtains
    BY DEF Obtains, I!ListDomains, I!FilterDomains, I!StartCertbot, I!EnsureDone, I!Issue, I!CertbotFails,
           I!CertbotKilled, I!RecordCert
  <2> QED
    BY <2>1, <2>2 DEF Sound, Task
<1>2. flow[f].at # "forget"
  BY <1>1 DEF Obtains
<1>3. CASE I!ListDomains(f) \/ I!FilterDomains(f) \/ I!StartCertbot(f) \/ I!EnsureDone(f) \/ I!CertbotFails(f)
  <2>1. UNCHANGED <<rows, live>>
    BY <1>3 DEF I!ListDomains, I!FilterDomains, I!StartCertbot, I!EnsureDone, I!CertbotFails
  <2>2. CASE I!StartCertbot(f)
    <3>1. PICK d \in Domains : Becomes(f, "certbot", flow[f].deps, flow[f].goal, flow[f].todo, {d})
      BY <2>2, PassSteps1
    <3>2. Fit(f)'
      BY <1>1, <3>1 DEF Fit, Becomes
    <3> QED
      BY <1>1, <1>2, <2>1, <3>2, OthersStayFit
  <2>3. CASE I!EnsureDone(f)
    <3>1. Fit(f)'
      BY <2>3, PassSteps2, IdleIsPass DEF Fit
    <3> QED
      BY <1>1, <1>2, <2>1, <3>1, OthersStayFit
  <2>4. CASE I!ListDomains(f) \/ I!FilterDomains(f) \/ I!CertbotFails(f)
    <3>1. \E at \in {"filter", "obtain"} : \E deps, goal, todo, now_ : Becomes(f, at, deps, goal, todo, now_)
      BY <2>4, PassSteps1, PassSteps2
    <3>2. Fit(f)'
      BY <1>1, <3>1 DEF Fit, Becomes
    <3> QED
      BY <1>1, <1>2, <2>1, <3>2, OthersStayFit
  <2> QED
    BY <1>3, <2>2, <2>3, <2>4
<1>4. CASE I!RecordCert(f)
  <2>1. PICK d \in flow[f].now, expiry \in {"valid", "due"} : rows' = [rows EXCEPT ![d] = expiry]
    BY <1>4 DEF I!RecordCert
  <2>2. UNCHANGED live /\ flow[f].at = "record" /\ rows \in [Domains -> {"none", "valid", "due"}]
    BY <1>4 DEF I!RecordCert, IngressTyped
  <2>3. live[d] > 0
    BY <1>1, <2>1, <2>2 DEF Fit
  <2>4. \A o \in Domains : rows'[o] # "none" => rows[o] # "none" \/ live[o] > 0
    BY <2>1, <2>2, <2>3
  <2>5. \E todo : Becomes(f, "obtain", flow[f].deps, flow[f].goal, todo, {})
    BY <1>4, PassSteps2
  <2>6. Fit(f)'
    BY <1>1, <2>5 DEF Fit, Becomes
  <2> QED
    BY <1>1, <1>2, <2>2, <2>4, <2>6, OthersStayFit
<1>5. CASE I!Issue(f)
  <2>1. PICK d \in flow[f].now : live' = IF live[d] = 0 \/ d \in old THEN [live EXCEPT ![d] = @ + 1] ELSE live
    BY <1>5 DEF I!Issue
  <2>2. UNCHANGED rows /\ flow[f].at = "certbot" /\ live \in [Domains -> Nat]
    BY <1>5 DEF I!Issue, IngressTyped
  <2>3. flow[f].now = {d} /\ d \in Domains
    BY <1>1, <2>1, <2>2 DEF Fit
  <2>4. live'[d] > 0 /\ \A o \in Domains : live[o] > 0 => live'[o] > 0
    BY <2>1, <2>2, <2>3
  <2>5. Becomes(f, "record", flow[f].deps, flow[f].goal, flow[f].todo, flow[f].now)
    BY <1>5, PassSteps1
  <2>6. Fit(f)'
    BY <1>1, <2>3, <2>4, <2>5 DEF Fit, Becomes
  <2>7. ASSUME NEW g \in I!Passes, g # f PROVE Fit(g)'
    <3>1. flow'[g] = flow[g] /\ Fit(g) /\ flow[g] \in PassOf
      BY <1>1, <2>7 DEF Others, Sound, IngressTyped
    <3>2. flow[g].now \subseteq Domains /\ flow[g].goal \in [I!Files -> SUBSET Domains]
      BY <3>1 DEF PassOf
    <3>3. \A n \in I!Vhosts : flow[g].goal[n] \subseteq Domains
      BY <3>2 DEF I!Files
    <3> QED
      BY <1>1, <2>4, <3>1, <3>2, <3>3 DEF Fit
  <2>8. \A o \in Domains : Forgetting(o) => Forgetting(o)'
    BY <1>1, <1>2 DEF Forgetting, Others
  <2>9. RecordedIsIssued'
    BY <2>2, <2>4, <2>8 DEF Sound, RecordedIsIssued
  <2>10. I!Valid(disk)'
    <3>1. \A n \in I!Vhosts : disk[n] \subseteq Domains
      BY DEF IngressTyped, I!Files
    <3> QED
      BY <1>1, <2>4, <3>1 DEF Sound, I!Valid
  <2> QED
    BY <2>6, <2>7, <2>9, <2>10 DEF Sound
<1>6. CASE I!CertbotKilled(f)
  <2>1. UNCHANGED <<rows, live>> /\ flow[f].at = "certbot"
    BY <1>6 DEF I!CertbotKilled
  <2>2. PICK d \in Domains : flow[f].now = {d}
    BY <1>1, <2>1 DEF Fit
  <2>3. live[d] > 0
    <3>1. ASSUME live[d] = 0 PROVE FALSE
      <4>1. I!Uses({"killed", "unissued"})
        BY <1>6, <2>2, <3>1 DEF I!CertbotKilled
      <4>2. {"killed", "unissued"} \in SUBSET I!Kinds
        BY DEF I!Kinds
      <4>3. iUsed'["unissued"] > 0
        BY <4>1, <4>2, IngressEvents DEF IngressTyped
      <4> QED
        BY <4>3 DEF Undisturbed, I!Never
    <3> QED
      BY <3>1 DEF IngressTyped
  <2>4. Becomes(f, "record", flow[f].deps, flow[f].goal, flow[f].todo, flow[f].now)
    BY <1>6, PassSteps1
  <2>5. Fit(f)'
    BY <1>1, <2>1, <2>2, <2>3, <2>4 DEF Fit, Becomes
  <2> QED
    BY <1>1, <1>2, <2>1, <2>5, OthersStayFit
<1> QED
  BY <1>3, <1>4, <1>5, <1>6

\* removing those of a project that is retired does, since no file names them any more;
LEMMA RemoveKeepsSound ==
    ASSUME IngressTyped, \A g \in I!Passes : Task(g), RetiresAlone, Sound, NEW f \in I!Passes,
           I!DeleteLineage(f) \/ I!DeleteRow(f) \/ I!RemoveDone(f)
    PROVE  Sound'
<1>1. Fit(f) /\ Others(f) /\ UNCHANGED <<dep, disk>> /\ flow[f].at \in {"delete", "forget"} /\ flow[f].does = "retire"
  <2>1. Others(f) /\ UNCHANGED dep
    BY PassMoves DEF I!Step
  <2>2. UNCHANGED disk /\ flow[f].at \in {"delete", "forget"}
    BY DEF I!DeleteLineage, I!DeleteRow, I!RemoveDone
  <2> QED
    BY <2>1, <2>2 DEF Sound, Task, Removes
<1>2. \A g \in I!Passes : g # f => flow[g] = I!Idle /\ flow'[g] = I!Idle
  BY <1>1 DEF RetiresAlone, Others
<1>3. \A g \in I!Passes : g # f => Fit(g)'
  BY <1>2, IdleIsPass DEF Fit
<1>4. Unserved(dep, flow[f].todo) /\ Unnamed(disk, flow[f].todo)
  BY <1>1 DEF Fit
<1>5. CASE I!RemoveDone(f)
  <2>1. UNCHANGED <<rows, live>> /\ flow[f].at = "delete"
    BY <1>5 DEF I!RemoveDone
  <2>2. Fit(f)'
    BY <1>5, PassSteps2, IdleIsPass DEF Fit
  <2> QED
    BY <1>1, <2>1, <2>2, OthersStayFit
<1>6. CASE I!DeleteLineage(f)
  <2>1. PICK d \in flow[f].todo : /\ live' = [live EXCEPT ![d] = 0] \/ UNCHANGED live
                                  /\ I!Goes(f, [I!On(f, "forget") EXCEPT !.now = {d}])
    BY <1>6 DEF I!DeleteLineage
  <2>2. UNCHANGED rows /\ flow[f].at = "delete" /\ live \in [Domains -> Nat]
    BY <1>6 DEF I!DeleteLineage, IngressTyped
  <2>3. \A o \in Domains : o # d => live'[o] = live[o]
    BY <2>1, <2>2
  <2>4. Becomes(f, "forget", flow[f].deps, flow[f].goal, flow[f].todo, {d})
    BY <2>1, PassSteps2
  <2>5. Fit(f)'
    BY <1>1, <1>4, <2>4 DEF Fit, Becomes
  <2>6. \A o \in Domains : rows[o] # "none" => live[o] > 0
    BY <1>2, <2>2, IdleIsPass DEF Sound, RecordedIsIssued, Forgetting
  <2>7. Forgetting(d)'
    BY <2>4 DEF Forgetting, Becomes
  <2>8. RecordedIsIssued'
    BY <2>2, <2>3, <2>6, <2>7 DEF RecordedIsIssued
  <2>9. \A n \in I!Vhosts : d \notin disk[n] /\ disk[n] \subseteq Domains
    BY <1>4, <2>1 DEF Unnamed, IngressTyped, I!Files
  <2>10. I!Valid(disk)'
    BY <1>1, <2>3, <2>9 DEF Sound, I!Valid
  <2> QED
    BY <1>3, <2>5, <2>8, <2>10 DEF Sound
<1>7. CASE I!DeleteRow(f)
  <2>1. /\ rows' = [d \in Domains |-> IF d \in flow[f].now THEN "none" ELSE rows[d]]
        /\ UNCHANGED live /\ flow[f].at = "forget"
    BY <1>7 DEF I!DeleteRow
  <2>2. Becomes(f, "delete", flow[f].deps, flow[f].goal, flow[f].todo \ flow[f].now, {})
    BY <1>7, PassSteps2
  <2>3. Unserved(dep, flow[f].todo \ flow[f].now) /\ Unnamed(disk, flow[f].todo \ flow[f].now)
    BY <1>4 DEF Unserved, Unnamed
  <2>4. Fit(f)'
    BY <1>1, <2>2, <2>3 DEF Fit, Becomes
  <2>5. \A d \in Domains : rows'[d] # "none" => live[d] > 0
    BY <1>2, <2>1, IdleIsPass DEF Sound, RecordedIsIssued, Forgetting
  <2>6. RecordedIsIssued'
    BY <2>1, <2>5 DEF RecordedIsIssued
  <2>7. I!Valid(disk)'
    BY <1>1, <2>1 DEF Sound, I!Valid
  <2> QED
    BY <1>3, <2>4, <2>6, <2>7 DEF Sound
<1> QED
  BY <1>5, <1>6, <1>7

\* and so does what begins a pass, and what happens to certificates meanwhile.
LEMMA SoundPreserved ==
    ASSUME IngressTyped, \A g \in I!Passes : Task(g), RetiresAlone, Sound, I!Next,
           Undisturbed', \A g \in I!Passes : Task(g)'
    PROVE  Sound'
<1>1. iUsed'["overlap"] = 0 /\ iUsed'["shared"] = 0 /\ (iUsed'["retire"] = 0 \/ iUsed'["crash"] = 0)
  BY DEF Undisturbed, I!Never
<1>2. ASSUME NEW f \in I!Passes, I!Step(f) PROVE Sound'
  BY <1>2, RenderKeepsSound, ObtainKeepsSound, RemoveKeepsSound DEF I!Step
<1>3. I!Tick \in I!Passes /\ Flows \subseteq I!Passes
  BY DEF I!Passes
<1>4. CASE I!StartTick \/ \E p \in Projects : I!Deploy(p) \/ I!Promote(p)
  <2>1. \A g \in I!Passes : flow[g].does # "retire"
    BY <1>1, <1>4, NobodyRetires
  <2>2. PICK f \in I!Passes, does \in {"tick", "ensure"}, at \in {"read", "list"} :
           flow[f] = I!Idle /\ I!Goes(f, I!Pass(does, at, {}))
    BY <1>3, <1>4 DEF I!StartTick, I!Deploy, I!Promote
  <2>3. Others(f) /\ flow'[f].does = does /\ flow'[f].at = at
    BY <2>2, PassBegins
  <2>4. Fit(f)'
    BY <2>3 DEF Fit
  <2>5. UNCHANGED <<rows, live, disk>>
    BY <1>4 DEF I!StartTick, I!Deploy, I!Promote
  <2> QED
    BY <2>1, <2>2, <2>3, <2>4, <2>5, IdleIsPass, OthersStayFit
<1>5. ASSUME NEW p \in Projects, I!Retire(p) PROVE Sound'
  <2> DEFINE elsewhere == Dash \cup UNION {dep[q].pending \cup dep[q].active : q \in Projects \ {p}}
  <2>1. (\A g \in I!Passes : flow[g] = I!Idle) /\ dep[p].pending \cap elsewhere = {}
    BY <1>1, <1>5, NobodyElse
  <2>2. PICK f \in I!Passes : I!Goes(f, I!Pass("retire", "read", dep[p].pending))
    BY <1>3, <1>5 DEF I!Retire
  <2>3. dep[p].pending \in SUBSET Domains /\ dep \in [Projects -> DeployedConf]
    BY DEF IngressTyped, DeployedConf
  <2>4. Others(f) /\ flow'[f].at = "read" /\ flow'[f].does = "retire" /\ flow'[f].todo = dep[p].pending
    BY <2>2, <2>3, PassBegins
  <2>5. UNCHANGED <<rows, live, disk>> /\ dep' = [dep EXCEPT ![p] = I!NotDeployed]
    BY <1>5 DEF I!Retire
  <2>6. dep'[p].active = {} /\ \A q \in Projects \ {p} : dep'[q].active \subseteq elsewhere
    BY <2>3, <2>5 DEF I!NotDeployed
  <2>7. Dash \subseteq elsewhere
    OBVIOUS
  <2> HIDE DEF elsewhere
  <2>8. Unserved(dep', dep[p].pending)
    BY <2>1, <2>6, <2>7 DEF Unserved
  <2>9. Fit(f)'
    BY <2>4, <2>8 DEF Fit
  <2>10. \A g \in I!Passes : flow[g].does # "retire" /\ flow[g].at # "forget"
    BY <2>1, IdleIsPass
  <2> QED
    BY <2>4, <2>5, <2>9, <2>10, OthersStayFit
<1>6. CASE I!Crash
  <2>1. flow' = [g \in I!Passes |-> I!Idle] /\ UNCHANGED <<dep, rows, live, disk>> /\ I!Uses({"crash"})
    BY <1>6 DEF I!Crash
  <2>2. iUsed'["crash"] > 0 /\ iUsed["retire"] = 0
    <3>1. {"crash"} \in SUBSET I!Kinds /\ "retire" \in I!Kinds /\ "crash" \in I!Kinds
      BY DEF I!Kinds
    <3>2. iUsed'["crash"] > 0 /\ iUsed'["crash"] \in Nat
      BY <2>1, <3>1, IngressEvents DEF IngressTyped
    <3> QED
      BY <1>1, <3>1, <3>2, IngressCount DEF IngressTyped
  <2>3. \A g \in I!Passes : flow[g].at # "forget"
    BY <2>2 DEF Task, Removes
  <2>4. RecordedIsIssued'
    BY <2>1, <2>3 DEF Sound, RecordedIsIssued, Forgetting
  <2>5. \A g \in I!Passes : Fit(g)'
    BY <2>1, IdleIsPass DEF Fit
  <2>6. I!Valid(disk)'
    BY <2>1 DEF Sound, I!Valid
  <2> QED
    BY <2>4, <2>5, <2>6 DEF Sound
<1>7. ASSUME NEW d \in Domains, I!Expire(d) \/ I!CooldownEnds(d) PROVE Sound'
  <2>1. UNCHANGED <<dep, live, disk, flow>>
    BY <1>7 DEF I!Expire, I!CooldownEnds
  <2>2. \A o \in Domains : rows'[o] # "none" => rows[o] # "none"
    BY <1>7 DEF I!Expire, I!CooldownEnds, IngressTyped
  <2>3. RecordedIsIssued'
    BY <2>1, <2>2 DEF Sound, RecordedIsIssued, Forgetting
  <2>4. (\A g \in I!Passes : Fit(g)') /\ I!Valid(disk)'
    BY <2>1 DEF Sound, Fit, I!Valid
  <2> QED
    BY <2>3, <2>4 DEF Sound
<1> QED
  BY <1>2, <1>4, <1>5, <1>6, <1>7 DEF I!Next

\* The invariant of Ingress is inductive,
LEMMA IngressInvPreserved == IngressInv /\ [HostsNext]_<<part, vars, iVars>> => IngressInv'
<1> SUFFICES ASSUME IngressInv, [HostsNext]_<<part, vars, iVars>> PROVE IngressInv'
  OBVIOUS
<1>1. CASE UNCHANGED iVars
  BY <1>1 DEF iVars, IngressInv, IngressTyped, Task, RetiresAlone, Undisturbed, Sound, RecordedIsIssued, Forgetting,
              Fit, I!Never, I!Valid
<1>2. CASE I!Next
  <2>1. IngressTyped' /\ \A f \in I!Passes : Task(f)'
    BY <1>2, IngressTypedPreserved, TasksPreserved DEF IngressInv
  <2>2. \A k \in I!Kinds : iUsed'[k] = 0 => iUsed[k] = 0
    BY <1>2, IngressCount DEF IngressInv, IngressTyped
  <2>3. {"overlap", "shared", "unissued", "retire", "crash"} \subseteq I!Kinds
    BY DEF I!Kinds
  <2>4. I!Never({"overlap"})' => iUsed'["overlap"] = 0 /\ I!Never({"overlap"})
    BY <2>2, <2>3 DEF I!Never
  <2>5. I!Never({"overlap"})' => RetiresAlone'
    BY <1>2, <2>4, RetiresAlonePreserved DEF IngressInv
  <2>6. Undisturbed' => Undisturbed /\ I!Never({"overlap"})
    BY <2>2, <2>3 DEF Undisturbed, I!Never
  <2>7. Undisturbed' => Sound'
    BY <1>2, <2>1, <2>6, SoundPreserved DEF IngressInv
  <2> QED
    BY <2>1, <2>5, <2>7 DEF IngressInv
<1> QED
  BY <1>1, <1>2 DEF HostsNext, iVars

\* and holds at first.
LEMMA IngressInvInitially == HostsInit => IngressInv
<1> SUFFICES ASSUME I!Init PROVE IngressInv
  BY DEF HostsInit
<1>1. /\ dep = I!Nothing /\ disk = I!NoFiles /\ old = {} /\ cooldown = {}
      /\ rows = [d \in Domains |-> "none"] /\ live = [d \in Domains |-> 0]
      /\ nginx.files = I!NoFiles /\ flow = [f \in I!Passes |-> I!Idle]
      /\ iUsed = [k \in I!Kinds |-> 0]
  BY DEF I!Init
<1>2. IngressTyped
  BY <1>1, IdleIsPass DEF IngressTyped
<1>3. \A f \in I!Passes : flow[f] = I!Idle
  BY <1>1
<1>4. (\A f \in I!Passes : Task(f) /\ Fit(f)) /\ RetiresAlone
  BY <1>3, IdleIsPass DEF Task, Fit, RetiresAlone, Renders, Obtains, Removes
<1>5. RecordedIsIssued
  BY <1>1 DEF RecordedIsIssued
<1>6. I!Valid(disk)
  <2>1. \A n \in I!Vhosts : disk[n] = {}
    BY <1>1 DEF I!NoFiles, I!Files
  <2> QED
    BY <2>1 DEF I!Valid
<1> QED
  BY <1>2, <1>4, <1>5, <1>6 DEF IngressInv, Sound

\* The files on disk pass nginx -t, for every number of passes at the same time, every
\* choice of domains and every number of failures, expiries, killed renewals, reloads
\* that do not happen and restarts: until a certbot is killed that was to store the first
\* certificate of a domain (execStream takes that for a success), or a retirement runs beside another pass, takes a domain that is in
\* use elsewhere or, as a certificate is removed, may be cut short (renderAllNginx,
\* removeCertsForDomains).
THEOREM VhostsNameCertificates == HostsSpec => []ConfsStayValid
<1>1. IngressInv => ConfsStayValid
  <2> SUFFICES ASSUME IngressInv PROVE I!TypeOK /\ I!ConfsStayValid
    BY DEF ConfsStayValid
  <2>1. \A f \in I!Passes : flow[f].does \in {"nothing", "tick", "ensure", "retire"}
    BY DEF IngressInv, IngressTyped, PassOf
  <2>2. I!TypeOK
    BY <2>1 DEF IngressInv, IngressTyped, DeployedConf, I!TypeOK
  <2> QED
    BY <2>2 DEF IngressInv, Undisturbed, Sound, I!ConfsStayValid
<1> QED
  BY <1>1, IngressInvInitially, IngressInvPreserved, PTL DEF HostsSpec

=============================================================================
