------------------------- MODULE ClusterNodesProofs -------------------------
(***************************************************************************)
(* What TLAPS proves about ClusterNodes for every number of followers,     *)
(* versions, upgrades at once and events: the types; who is told that a    *)
(* node restarted can rely on it; the leader upgrades last.                *)
(***************************************************************************)
EXTENDS MCClusterNodes, FiniteSetTheorems, SequenceTheorems, TLAPS

Rows == [node : Nodes, at : Nat]
Host == [up : BOOLEAN, at : Nat, ver : Versions, head : Versions,
         deps : Versions \union {Partial}, env : Nat, loadedEnv : Nat, restarts : BOOLEAN]
Job == [art : Versions, step : {"fetch", "install"}]
Watch == [on : BOOLEAN, wants : Nat, down : BOOLEAN, base : {"none", "infinite", "old", "new"},
          said : {"nothing", "restarted", "may have failed"}]

\* No node has two rows.
Distinct(rows) == \A i, j \in DOMAIN rows : rows[i].node = rows[j].node => i = j

-----------------------------------------------------------------------------
(* Sequences *)

\* What is left of a sequence when one entry is taken out: the others, in order.
LEMMA RemoveFacts ==
    ASSUME NEW S, NEW q \in Seq(S), NEW n \in DOMAIN q
    PROVE  /\ RemoveAt(q, n) \in Seq(S)
           /\ DOMAIN RemoveAt(q, n) = 1..(Len(q) - 1)
           /\ \A k \in 1..(Len(q) - 1) :
                 RemoveAt(q, n)[k] = q[IF k < n THEN k ELSE k + 1]
<1> DEFINE a == SubSeq(q, 1, n - 1)
           b == SubSeq(q, n + 1, Len(q))
           r == RemoveAt(q, n)
<1>1. Len(q) \in Nat /\ DOMAIN q = 1..Len(q) /\ n \in 1..Len(q)
  OBVIOUS
<1>2. a \in Seq(S) /\ Len(a) = n - 1 /\ \A k \in 1..(n - 1) : a[k] = q[k]
  BY <1>1
<1>3. b \in Seq(S) /\ Len(b) = Len(q) - n /\ \A k \in 1..(Len(q) - n) : b[k] = q[k + n]
  BY <1>1
<1>4. r = a \o b
  BY DEF RemoveAt
<1> HIDE DEF a, b, r
<1>5. /\ r \in Seq(S) /\ Len(r) = Len(a) + Len(b)
      /\ \A k \in 1..Len(r) : r[k] = IF k <= Len(a) THEN a[k] ELSE b[k - Len(a)]
  <2>1. a \in Seq(S) /\ b \in Seq(S)
    BY <1>2, <1>3
  <2> QED BY <1>4, <2>1, ConcatProperties
<1>6. Len(r) = Len(q) - 1 /\ DOMAIN r = 1..(Len(q) - 1)
  BY <1>1, <1>2, <1>3, <1>5
<1>7. ASSUME NEW k \in 1..(Len(q) - 1) PROVE r[k] = q[IF k < n THEN k ELSE k + 1]
  <2>1. CASE k < n
    BY <1>1, <1>2, <1>5, <1>6, <2>1
  <2>2. CASE ~(k < n)
    <3>1. k - (n - 1) \in 1..(Len(q) - n) /\ (k - (n - 1)) + n = k + 1
      BY <1>1, <2>2
    <3>2. r[k] = b[k - (n - 1)]
      BY <1>1, <1>2, <1>5, <1>6, <2>2
    <3> QED BY <1>3, <2>2, <3>1, <3>2
  <2> QED BY <2>1, <2>2
<1> QED BY <1>5, <1>6, <1>7 DEF r

\* touchNodeModel keeps one row per node.
LEMMA TouchFacts ==
    ASSUME NEW rows \in Seq(Rows), Distinct(rows), NEW n \in Nodes, NEW at \in Nat
    PROVE  Touch(rows, n, at) \in Seq(Rows) /\ Distinct(Touch(rows, n, at))
<1>1. Row(n, at) \in Rows /\ Row(n, at).node = n
  BY DEF Row, Rows
<1>2. CASE n \in Registered(rows)
  <2> DEFINE t == [i \in DOMAIN rows |-> IF rows[i].node = n THEN Row(n, at) ELSE rows[i]]
  <2>1. t \in Seq(Rows) /\ DOMAIN t = DOMAIN rows
    BY <1>1
  <2>2. \A i \in DOMAIN rows : t[i].node = rows[i].node
    BY <1>1
  <2>3. Touch(rows, n, at) = t
    BY <1>2 DEF Touch
  <2> HIDE DEF t
  <2> QED BY <2>1, <2>2, <2>3 DEF Distinct
<1>3. CASE n \notin Registered(rows)
  <2> DEFINE t == Append(rows, Row(n, at))
  <2>1. Touch(rows, n, at) = t
    BY <1>3 DEF Touch
  <2>2. /\ t \in Seq(Rows) /\ Len(t) = Len(rows) + 1 /\ DOMAIN t = 1..(Len(rows) + 1)
        /\ t[Len(rows) + 1] = Row(n, at) /\ \A i \in 1..Len(rows) : t[i] = rows[i]
    BY <1>1
  <2>3. \A i \in 1..Len(rows) : rows[i].node # n
    BY <1>3 DEF Registered
  <2> HIDE DEF t
  <2>4. ASSUME NEW i \in DOMAIN t, NEW j \in DOMAIN t, t[i].node = t[j].node PROVE i = j
    <3>1. CASE i = Len(rows) + 1 /\ j # Len(rows) + 1
      BY <1>1, <2>2, <2>3, <2>4, <3>1
    <3>2. CASE j = Len(rows) + 1 /\ i # Len(rows) + 1
      BY <1>1, <2>2, <2>3, <2>4, <3>2
    <3>3. CASE i # Len(rows) + 1 /\ j # Len(rows) + 1
      <4>1. i \in DOMAIN rows /\ j \in DOMAIN rows /\ rows[i].node = rows[j].node
        BY <2>2, <2>4, <3>3
      <4> QED BY <4>1 DEF Distinct
    <3> QED BY <3>1, <3>2, <3>3
  <2> QED BY <2>1, <2>2, <2>4 DEF Distinct
<1> QED BY <1>2, <1>3

\* Deregistering takes out one row and leaves the others.
LEMMA RowsWithout ==
    ASSUME NEW rows \in Seq(Rows), Distinct(rows), NEW n \in DOMAIN rows
    PROVE  RemoveAt(rows, n) \in Seq(Rows) /\ Distinct(RemoveAt(rows, n))
<1> DEFINE r == RemoveAt(rows, n)
           g(k) == IF k < n THEN k ELSE k + 1
<1>1. /\ r \in Seq(Rows) /\ DOMAIN r = 1..(Len(rows) - 1)
      /\ \A k \in 1..(Len(rows) - 1) : r[k] = rows[g(k)]
  BY RemoveFacts
<1>2. \A k \in 1..(Len(rows) - 1) : g(k) \in DOMAIN rows
  OBVIOUS
<1>3. \A i, j \in 1..(Len(rows) - 1) : g(i) = g(j) => i = j
  OBVIOUS
<1> HIDE DEF r, g
<1>4. ASSUME NEW i \in DOMAIN r, NEW j \in DOMAIN r, r[i].node = r[j].node PROVE i = j
  <2>1. rows[g(i)].node = rows[g(j)].node /\ g(i) \in DOMAIN rows /\ g(j) \in DOMAIN rows
    BY <1>1, <1>2, <1>4
  <2>2. g(i) = g(j)
    BY <2>1 DEF Distinct
  <2> QED BY <1>1, <1>3, <1>4, <2>2
<1> QED BY <1>1, <1>4 DEF r, Distinct

-----------------------------------------------------------------------------
(* Types *)

\* What an event leaves of the counters: they are numbers and never go back.
LEMMA EventsCount ==
    ASSUME TypeOK, NEW kinds, Uses(kinds)
    PROVE  /\ used' \in [Kinds -> Nat]
           /\ \A k \in Kinds : used'[k] = 0 => used[k] = 0 /\ k \notin kinds
<1>1. used \in [Kinds -> Nat]
  BY DEF TypeOK
<1>2. used' = [k \in Kinds |-> used[k] + (IF k \in kinds THEN 1 ELSE 0)]
  BY DEF Uses, Count
<1> QED BY <1>1, <1>2

\* The process of a node ends: it is down, without upgrades, and otherwise as it was.
LEMMA HaltFacts ==
    ASSUME TypeOK, NEW n \in Nodes, Halt(n)
    PROVE  /\ host' \in [Nodes -> Host] /\ jobs' \in [Nodes -> Seq(Job)]
           /\ reports' \in [Nodes -> Versions \union {Unknown}]
           /\ rolling' \in {"no", "pause", "self"}
           /\ watch' \in [Followers -> Watch]
<1>1. host' \in [Nodes -> Host]
  <2>1. PICK h : h = [host EXCEPT ![n].up = FALSE]
    OBVIOUS
  <2>2. host \in [Nodes -> Host]
    BY DEF TypeOK, Host
  <2>3. h \in [Nodes -> Host]
    BY <2>1, <2>2 DEF Host
  <2>4. host' = [h EXCEPT ![n].restarts = FALSE]
    BY <2>1 DEF Halt
  <2> QED BY <2>3, <2>4 DEF Host
<1>2. jobs' \in [Nodes -> Seq(Job)]
  <2>1. jobs \in [Nodes -> Seq(Job)]
    BY DEF TypeOK, Job
  <2>2. jobs' = [jobs EXCEPT ![n] = <<>>]
    BY DEF Halt
  <2> QED BY <2>1, <2>2
<1>3. reports' \in [Nodes -> Versions \union {Unknown}] /\ rolling' \in {"no", "pause", "self"}
  BY DEF Halt, TypeOK
<1>4. watch' \in [Followers -> Watch]
  <2>1. watch \in [Followers -> Watch]
    BY DEF TypeOK, Watch
  <2>2. \A f \in Followers : [watch[f] EXCEPT !.on = FALSE] \in Watch
    BY <2>1 DEF Watch
  <2>3. watch' = watch \/ watch' = [f \in Followers |-> [watch[f] EXCEPT !.on = FALSE]]
    BY DEF Halt
  <2> QED BY <2>1, <2>2, <2>3
<1> QED BY <1>1, <1>2, <1>3, <1>4

\* A report moves the row of its node and no other.
LEMMA IngestFacts ==
    ASSUME TypeOK, NEW n \in Nodes, NEW at \in Nat, NEW v \in Versions, NEW r,
           r.node = n, r.at = at, r.ver = v, Ingest(r)
    PROVE  /\ members' \in Seq(Rows) /\ Distinct(members')
           /\ reports' \in [Nodes -> Versions \union {Unknown}]
<1>1. members \in Seq(Rows) /\ Distinct(members)
  BY DEF TypeOK, Rows, Distinct
<1>2. members' = Touch(members, n, at)
  BY DEF Ingest
<1>3. reports' \in [Nodes -> Versions \union {Unknown}]
  BY DEF Ingest, TypeOK
<1> QED BY <1>1, <1>2, <1>3, TouchFacts

\* The type invariant, by the sets named above.
Types ==
    /\ members \in Seq(Rows) /\ Distinct(members) /\ hosts \in Seq(Rows)
    /\ loaded \in Seq(Rows) /\ targets \subseteq Nodes
    /\ desired \in Versions \union {NoWish}
    /\ reports \in [Nodes -> Versions \union {Unknown}]
    /\ rolling \in {"no", "pause", "self"}
    /\ host \in [Nodes -> Host]
    /\ jobs \in [Nodes -> Seq(Job)]
    /\ mail \subseteq [node : Followers, at : Nat, ver : Versions]
    /\ watch \in [Followers -> Watch]
    /\ used \in [Kinds -> Nat]

\* Types and TypeOK are the same.
LEMMA TypesAreTypeOK == (Types <=> TypeOK) /\ (Types' <=> TypeOK')
BY DEF Types, TypeOK, Rows, Distinct, Host, Job, Watch

\* Registry and gossip keep the types.
LEMMA RegistryTypes ==
    ASSUME TypeOK, NEW n \in Nodes, Report(n) \/ SendLate(n) \/ Deregister(n) \/ Move(n)
    PROVE  TypeOK'
<1> USE TypesAreTypeOK
<1>0. Types /\ host[n] \in Host
  BY DEF Types
<1>1. host[n].at \in Nat /\ host[n].ver \in Versions
  BY <1>0 DEF Host
<1>2. CASE Report(n)
  <2>1. Ingest(ReportOf(n)) /\ UNCHANGED <<desired, rolling, host, jobs, mail, hosts, loaded, targets, watch, used>>
    BY <1>2 DEF Report
  <2>2. members' \in Seq(Rows) /\ Distinct(members') /\ reports' \in [Nodes -> Versions \union {Unknown}]
    BY <1>1, <2>1, IngestFacts DEF ReportOf
  <2> QED BY <1>0, <2>1, <2>2 DEF Types
<1>3. CASE SendLate(n)
  <2>1. used' \in [Kinds -> Nat]
    BY <1>3, EventsCount DEF SendLate
  <2>2. ReportOf(n) \in [node : Followers, at : Nat, ver : Versions]
    BY <1>1, <1>3 DEF SendLate, ReportOf, Nodes
  <2>3. mail' \subseteq [node : Followers, at : Nat, ver : Versions]
    BY <1>0, <1>3, <2>2 DEF Types, SendLate
  <2> QED BY <1>0, <1>3, <2>1, <2>3 DEF Types, SendLate, rollout
<1>4. CASE Deregister(n)
  <2>1. used' \in [Kinds -> Nat]
    BY <1>4, EventsCount DEF Deregister
  <2>2. PICK i \in DOMAIN members : members' = RemoveAt(members, i)
    BY <1>4 DEF Deregister
  <2>3. members' \in Seq(Rows) /\ Distinct(members')
    BY <1>0, <2>2, RowsWithout DEF Types
  <2> QED BY <1>0, <1>4, <2>1, <2>3 DEF Types, Deregister, rollout
<1>5. CASE Move(n)
  <2>1. used' \in [Kinds -> Nat]
    BY <1>5, EventsCount DEF Move
  <2>2. [host[n] EXCEPT !.at = @ + 1] \in Host
    BY <1>0, <1>1 DEF Host
  <2>3. host' = [host EXCEPT ![n] = [host[n] EXCEPT !.at = @ + 1]]
    BY <1>5 DEF Move
  <2>4. host' \in [Nodes -> Host]
    BY <1>0, <2>2, <2>3 DEF Types
  <2> QED BY <1>0, <1>5, <2>1, <2>4 DEF Types, Move, registry, rollout
<1> QED BY <1>2, <1>3, <1>4, <1>5

\* So do a report that arrives late and the rendering of the routes.
LEMMA RouteTypes ==
    ASSUME TypeOK, (\E r \in mail : DeliverLate(r)) \/ Refresh PROVE TypeOK'
<1> USE TypesAreTypeOK
<1>0. Types
  OBVIOUS
<1>1. ASSUME NEW r \in mail, DeliverLate(r) PROVE TypeOK'
  <2>1. r.node \in Nodes /\ r.at \in Nat /\ r.ver \in Versions
    BY <1>0 DEF Types, Nodes
  <2>2. CASE Ingest(r)
    <3>1. members' \in Seq(Rows) /\ Distinct(members') /\ reports' \in [Nodes -> Versions \union {Unknown}]
      BY <2>1, <2>2, IngestFacts
    <3> QED BY <1>0, <1>1, <3>1 DEF Types, DeliverLate
  <2>3. CASE UNCHANGED <<members, reports>>
    BY <1>0, <1>1, <2>3 DEF Types, DeliverLate
  <2> QED BY <1>1, <2>2, <2>3 DEF DeliverLate
<1>2. CASE Refresh
  <2>1. used' \in [Kinds -> Nat]
    <3>1. UNCHANGED used \/ Uses({"unloaded"}) \/ Uses({"unwritten"})
      BY <1>2 DEF Refresh
    <3> QED BY <1>0, <3>1, EventsCount DEF Types
  <2>2. hosts' \in Seq(Rows) /\ loaded' \in Seq(Rows)
    BY <1>0, <1>2 DEF Types, Refresh
  <2>3. targets' \subseteq Nodes
    <3>1. \A i \in DOMAIN members : members[i] \in Rows
      BY <1>0 DEF Types
    <3> QED BY <1>2, <3>1 DEF Refresh, Registered, Rows
  <2> QED BY <1>0, <1>2, <2>1, <2>2, <2>3 DEF Types, Refresh, rollout
<1> QED BY <1>1, <1>2

\* Daemons that end and start keep the types.
LEMMA DaemonTypes ==
    ASSUME TypeOK, NEW n \in Nodes, Crash(n) \/ Boot(n) \/ Restart(n) PROVE TypeOK'
<1> USE TypesAreTypeOK
<1>0. Types /\ host[n] \in Host
  BY DEF Types
<1>1. CASE Crash(n)
  <2>1. used' \in [Kinds -> Nat]
    BY <1>1, EventsCount DEF Crash
  <2> QED BY <1>0, <1>1, <2>1, HaltFacts DEF Types, Crash, registry
<1>2. CASE Boot(n)
  <2>1. host' \in [Nodes -> Host]
    <3>1. PICK g : g = [host EXCEPT ![n].up = TRUE]
      OBVIOUS
    <3>2. PICK h : h = [g EXCEPT ![n].ver = host[n].head]
      OBVIOUS
    <3>3. host[n].head \in Versions /\ host[n].env \in Nat
      BY <1>0 DEF Host
    <3>4. g \in [Nodes -> Host]
      BY <1>0, <3>1 DEF Types, Host
    <3>5. h \in [Nodes -> Host]
      BY <3>2, <3>3, <3>4 DEF Host
    <3>6. host' = [h EXCEPT ![n].loadedEnv = host[n].env]
      BY <1>2, <3>1, <3>2 DEF Boot
    <3> QED BY <3>3, <3>5, <3>6 DEF Host
  <2>2. members' \in Seq(Rows) /\ Distinct(members')
    <3>1. host[n].at \in Nat
      BY <1>0 DEF Host
    <3>2. members' = members \/ members' = Touch(members, n, host[n].at)
      BY <1>2 DEF Boot
    <3>3. members \in Seq(Rows) /\ Distinct(members)
      BY <1>0 DEF Types
    <3>4. Touch(members, n, host[n].at) \in Seq(Rows) /\ Distinct(Touch(members, n, host[n].at))
      BY <3>1, <3>3, TouchFacts
    <3> QED BY <3>2, <3>3, <3>4
  <2> QED BY <1>0, <1>2, <2>1, <2>2 DEF Types, Boot, rollout
<1>3. CASE Restart(n)
  <2>1. CASE Halt(n) /\ UNCHANGED used
    BY <1>0, <1>3, <2>1, HaltFacts DEF Types, Restart, registry
  <2>2. CASE Uses({"stuck"}) /\ host' = [host EXCEPT ![n].restarts = FALSE]
             /\ UNCHANGED <<jobs, reports, rolling, watch>>
    <3>1. used' \in [Kinds -> Nat]
      BY <2>2, EventsCount
    <3>2. host' \in [Nodes -> Host]
      BY <1>0, <2>2 DEF Types, Host
    <3> QED BY <1>0, <1>3, <2>2, <3>1, <3>2 DEF Types, Restart, registry
  <2> QED BY <1>3, <2>1, <2>2 DEF Restart
<1> QED BY <1>1, <1>2, <1>3

\* The steps of an upgrade keep the types.
LEMMA UpgradeTypes ==
    ASSUME TypeOK, NEW n \in Nodes, NEW i \in 1..MaxJobs,
           Checkout(n, i) \/ Installed(n, i) \/ InstallFails(n, i)
    PROVE  TypeOK'
<1> USE TypesAreTypeOK
<1>0. Types /\ host[n] \in Host /\ jobs[n] \in Seq(Job) /\ i \in DOMAIN jobs[n] /\ jobs[n][i] \in Job
  BY DEF Types, Checkout, Installed, InstallFails
<1>1. [jobs EXCEPT ![n] = RemoveAt(@, i)] \in [Nodes -> Seq(Job)]
  BY <1>0, RemoveFacts DEF Types
<1>2. ASSUME Uses({FailKind(n)}) PROVE used' \in [Kinds -> Nat]
  BY <1>2, EventsCount
<1>3. CASE Checkout(n, i)
  <2>1. CASE /\ host' = [host EXCEPT ![n].head = jobs[n][i].art, ![n].deps = Partial]
             /\ jobs' = [jobs EXCEPT ![n][i].step = "install"]
             /\ UNCHANGED used
    <3>1. jobs[n][i].art \in Versions
      BY <1>0 DEF Job
    <3>2. PICK h : h = [host EXCEPT ![n].head = jobs[n][i].art]
      OBVIOUS
    <3>3. h \in [Nodes -> Host]
      BY <1>0, <3>1, <3>2 DEF Types, Host
    <3>4. host' = [h EXCEPT ![n].deps = Partial]
      BY <2>1, <3>2
    <3>5. host' \in [Nodes -> Host]
      BY <3>3, <3>4 DEF Host
    <3>6. [jobs[n][i] EXCEPT !.step = "install"] \in Job
      BY <1>0 DEF Job
    <3>7. [jobs[n] EXCEPT ![i] = [jobs[n][i] EXCEPT !.step = "install"]] \in Seq(Job)
      BY <1>0, <3>6
    <3>8. jobs' = [jobs EXCEPT ![n] = [jobs[n] EXCEPT ![i] = [jobs[n][i] EXCEPT !.step = "install"]]]
      BY <2>1
    <3>9. jobs' \in [Nodes -> Seq(Job)]
      BY <1>0, <3>7, <3>8 DEF Types
    <3> QED BY <1>0, <1>3, <2>1, <3>5, <3>9 DEF Types, Checkout, registry, rollout
  <2>2. CASE /\ Uses({FailKind(n)})
             /\ jobs' = [jobs EXCEPT ![n] = RemoveAt(@, i)]
             /\ UNCHANGED host
    BY <1>0, <1>1, <1>2, <1>3, <2>2 DEF Types, Checkout, registry, rollout
  <2> QED BY <1>3, <2>1, <2>2 DEF Checkout
<1>4. CASE Installed(n, i)
  <2>1. host' \in [Nodes -> Host]
    <3>1. PICK d : d = IF OthersInstall(n, i) THEN Partial ELSE host[n].head
      OBVIOUS
    <3>2. d \in Versions \union {Partial}
      BY <1>0, <3>1 DEF Host
    <3>3. PICK g : g = [host EXCEPT ![n].up = FALSE]
      OBVIOUS
    <3>4. PICK h : h = [g EXCEPT ![n].restarts = FALSE]
      OBVIOUS
    <3>5. g \in [Nodes -> Host]
      BY <1>0, <3>3 DEF Types, Host
    <3>6. h \in [Nodes -> Host]
      BY <3>4, <3>5 DEF Host
    <3>7. host' = [h EXCEPT ![n].deps = d]
      BY <1>4, <3>1, <3>3, <3>4 DEF Installed
    <3> QED BY <3>2, <3>6, <3>7 DEF Host
  <2>2. jobs' \in [Nodes -> Seq(Job)]
    BY <1>0, <1>4 DEF Types, Installed
  <2>3. reports' \in [Nodes -> Versions \union {Unknown}] /\ rolling' \in {"no", "pause", "self"}
    BY <1>0, <1>4 DEF Types, Installed
  <2>4. watch' \in [Followers -> Watch]
    <3>1. watch \in [Followers -> Watch]
      BY <1>0 DEF Types
    <3>2. \A f \in Followers : [watch[f] EXCEPT !.on = FALSE] \in Watch
      BY <3>1 DEF Watch
    <3>3. watch' = watch \/ watch' = [f \in Followers |-> [watch[f] EXCEPT !.on = FALSE]]
      BY <1>4 DEF Installed
    <3> QED BY <3>1, <3>2, <3>3
  <2> QED BY <1>0, <1>4, <2>1, <2>2, <2>3, <2>4 DEF Types, Installed, registry
<1>5. CASE InstallFails(n, i)
  <2>1. PICK d \in Versions \union {Partial} : host' = host \/ host' = [host EXCEPT ![n].deps = d]
    BY <1>0, <1>5 DEF Types, Host, InstallFails
  <2>2. host' \in [Nodes -> Host]
    <3>1. host \in [Nodes -> Host] /\ n \in Nodes /\ host[n] \in Host
      BY <1>0 DEF Types
    <3>2. [host[n] EXCEPT !.deps = d] \in Host
      BY <3>1 DEF Host
    <3> QED BY <2>1, <3>1, <3>2
  <2> QED BY <1>0, <1>1, <1>2, <1>5, <2>2 DEF Types, InstallFails, registry, rollout
<1> QED BY <1>3, <1>4, <1>5

\* The leader's cron job and the wishes of CI keep the types.
LEMMA RolloutTypes ==
    ASSUME TypeOK,
           \/ \E v \in Versions : SetDesiredNsmVersion(v)
           \/ InstructFollower \/ UpgradeLeader \/ PauseEnds
    PROVE  TypeOK'
<1> USE TypesAreTypeOK
<1>0. Types
  OBVIOUS
<1>1. ASSUME NEW m, desired # NoWish, Start(m, desired) PROVE jobs' \in [Nodes -> Seq(Job)]
  <2>1. [art |-> desired, step |-> "fetch"] \in Job
    BY <1>0, <1>1 DEF Types, Job
  <2>2. \A q \in Seq(Job) : Append(q, [art |-> desired, step |-> "fetch"]) \in Seq(Job)
    BY <2>1
  <2> QED BY <1>0, <1>1, <2>2 DEF Types, Start
<1>2. ASSUME NEW v \in Versions, SetDesiredNsmVersion(v) PROVE TypeOK'
  <2>1. used' \in [Kinds -> Nat]
    BY <1>2, EventsCount DEF SetDesiredNsmVersion
  <2> QED BY <1>0, <1>2, <2>1 DEF Types, SetDesiredNsmVersion, registry
<1>3. CASE InstructFollower
  <2>1. jobs' \in [Nodes -> Seq(Job)]
    <3>1. UNCHANGED jobs \/ \E m : desired # NoWish /\ Start(m, desired)
      BY <1>3 DEF InstructFollower
    <3> QED BY <1>0, <1>1, <3>1 DEF Types
  <2> QED BY <1>0, <1>3, <2>1 DEF Types, InstructFollower, registry
<1>4. CASE UpgradeLeader
  <2>1. jobs' \in [Nodes -> Seq(Job)]
    BY <1>1, <1>4 DEF UpgradeLeader
  <2> QED BY <1>0, <1>4, <2>1 DEF Types, UpgradeLeader, registry
<1>5. CASE PauseEnds
  <2>1. used' \in [Kinds -> Nat]
    <3>1. UNCHANGED used \/ Uses({"slow"})
      BY <1>5 DEF PauseEnds
    <3> QED BY <1>0, <3>1, EventsCount DEF Types
  <2> QED BY <1>0, <1>5, <2>1 DEF Types, PauseEnds, registry
<1> QED BY <1>2, <1>3, <1>4, <1>5

\* So do the editor of the node configuration and its watch.
LEMMA ConfigTypes ==
    ASSUME TypeOK, (\E f \in Followers : WatchNext(f)) \/ ApplyLocalConfig PROVE TypeOK'
<1> USE TypesAreTypeOK
<1>0. Types /\ Leader \in Nodes /\ Followers \subseteq Nodes
  BY DEF Nodes
<1>1. ASSUME NEW n \in Nodes, host' = [host EXCEPT ![n].env = @ + 1, ![n].restarts = TRUE]
      PROVE  host' \in [Nodes -> Host]
  <2>1. host[n] \in Host /\ host[n].env \in Nat
    BY <1>0 DEF Types, Host
  <2>2. PICK e : e = host[n].env + 1
    OBVIOUS
  <2>3. PICK h : h = [host EXCEPT ![n].env = e]
    OBVIOUS
  <2>4. h \in [Nodes -> Host]
    <3>1. e \in Nat
      BY <2>1, <2>2
    <3>2. host \in [Nodes -> Host]
      BY <1>0 DEF Types
    <3> QED BY <2>3, <3>1, <3>2 DEF Host
  <2>5. host' = [h EXCEPT ![n].restarts = TRUE]
    BY <1>0, <1>1, <2>2, <2>3 DEF Types
  <2> QED BY <2>4, <2>5 DEF Host
<1>2. ASSUME NEW f \in Followers, WatchNext(f) PROVE TypeOK'
  <2>0. watch[f] \in Watch /\ NoWatch \in Watch
    BY <1>0 DEF Types, Watch, NoWatch
  <2>1. CASE ApplyNodeConfig(f)
    <3>1. used' \in [Kinds -> Nat]
      BY <2>1, EventsCount DEF ApplyNodeConfig
    <3>2. host' \in [Nodes -> Host]
      BY <1>0, <1>1, <2>1 DEF ApplyNodeConfig
    <3>3. \/ watch' = [watch EXCEPT ![f] = [NoWatch EXCEPT !.on = TRUE, !.wants = host[f].env + 1]]
          \/ watch' = watch
      BY <2>1 DEF ApplyNodeConfig
    <3>4. [NoWatch EXCEPT !.on = TRUE, !.wants = host[f].env + 1] \in Watch
      <4>1. host[f].env \in Nat
        BY <1>0 DEF Types, Host
      <4>2. host[f].env + 1 \in Nat
        BY <4>1
      <4> QED BY <2>0, <4>2 DEF Watch
    <3>5. watch' \in [Followers -> Watch]
      BY <1>0, <3>3, <3>4 DEF Types
    <3> QED BY <1>0, <2>1, <3>1, <3>2, <3>5 DEF Types, ApplyNodeConfig, registry, rollout
  <2>2. CASE Baseline(f)
    <3>1. used' \in [Kinds -> Nat]
      <4>1. UNCHANGED used \/ Uses({"lostPing"})
        BY <2>2 DEF Baseline
      <4> QED BY <1>0, <4>1, EventsCount DEF Types
    <3>2. PICK b \in {"infinite", "none", "old", "new"} : watch' = [watch EXCEPT ![f].base = b]
      BY <2>2 DEF Baseline, Ping
    <3>3. watch' \in [Followers -> Watch]
      BY <1>0, <3>2 DEF Types, Watch
    <3> QED BY <1>0, <2>2, <3>1, <3>3 DEF Types, Baseline, registry, rollout
  <2>3. CASE Poll(f)
    <3>1. used' \in [Kinds -> Nat]
      <4>1. UNCHANGED used \/ Uses({"lostPing"})
        BY <2>3 DEF Poll
      <4> QED BY <1>0, <4>1, EventsCount DEF Types
    <3>2. \A p : Watched(f, p) \in Watch
      <4>1. [watch[f] EXCEPT !.down = TRUE] \in Watch
        BY <2>0 DEF Watch
      <4>2. [watch[f] EXCEPT !.on = FALSE, !.said = "restarted"] \in Watch
        BY <2>0 DEF Watch
      <4> QED BY <2>0, <4>1, <4>2 DEF Watched
    <3>3. \E p : watch' = [watch EXCEPT ![f] = Watched(f, p)]
      BY <2>3 DEF Poll
    <3>4. watch' \in [Followers -> Watch]
      BY <1>0, <3>2, <3>3 DEF Types
    <3> QED BY <1>0, <2>3, <3>1, <3>4 DEF Types, Poll, registry, rollout
  <2>4. CASE GiveUp(f)
    <3>1. [watch[f] EXCEPT !.on = FALSE, !.said = "may have failed"] \in Watch
      BY <2>0 DEF Watch
    <3>2. watch' = [watch EXCEPT ![f] = [watch[f] EXCEPT !.on = FALSE, !.said = "may have failed"]]
      BY <1>0, <2>4 DEF GiveUp, Types
    <3>3. watch' \in [Followers -> Watch]
      BY <1>0, <3>1, <3>2 DEF Types
    <3> QED BY <1>0, <2>4, <3>3 DEF Types, GiveUp, registry, rollout
  <2> QED BY <1>2, <2>1, <2>2, <2>3, <2>4 DEF WatchNext
<1>3. CASE ApplyLocalConfig
  <2>1. used' \in [Kinds -> Nat]
    BY <1>3, EventsCount DEF ApplyLocalConfig
  <2>2. host' \in [Nodes -> Host]
    BY <1>0, <1>1, <1>3 DEF ApplyLocalConfig
  <2> QED BY <1>0, <1>3, <2>1, <2>2 DEF Types, ApplyLocalConfig, registry, rollout
<1> QED BY <1>2, <1>3

\* Every step keeps the types.
LEMMA TypesPreserved == TypeOK /\ [Next]_vars => TypeOK'
<1> SUFFICES ASSUME TypeOK, [Next]_vars PROVE TypeOK'
  OBVIOUS
<1>1. ASSUME NEW n \in Nodes, NodeNext(n) PROVE TypeOK'
  BY <1>1, RegistryTypes, DaemonTypes, UpgradeTypes DEF NodeNext
<1>2. CASE (\E f \in Followers : WatchNext(f)) \/ ApplyLocalConfig
  BY <1>2, ConfigTypes
<1>3. CASE (\E r \in mail : DeliverLate(r)) \/ Refresh
  BY <1>3, RouteTypes
<1>4. CASE \/ \E v \in Versions : SetDesiredNsmVersion(v)
           \/ InstructFollower \/ UpgradeLeader \/ PauseEnds
  BY <1>4, RolloutTypes
<1>5. CASE UNCHANGED vars
  BY <1>5, TypesAreTypeOK DEF vars, Types
<1> QED BY <1>1, <1>2, <1>3, <1>4, <1>5 DEF Next

\* The cluster begins with one row per node.
LEMMA TypesInitially == Init => TypeOK
<1> SUFFICES ASSUME Init PROVE Types
  BY TypesAreTypeOK
<1>0. Followers \subseteq Nodes /\ Leader \in Nodes /\ Leader \notin Followers /\ 0 \in Versions
  BY ClusterAssumption DEF Nodes
<1>1. PICK joined \in SetToSeqs(Followers) :
        members = <<Row(Leader, 0)>> \o [i \in DOMAIN joined |-> Row(joined[i], 0)]
  BY DEF Init
<1> DEFINE N == Cardinality(Followers)
<1>2. N \in Nat
  BY ClusterAssumption, FS_CardinalityType
<1>3. joined \in [1..N -> Followers] /\ \A i, j \in 1..N : i # j => joined[i] # joined[j]
  BY DEF SetToSeqs
<1> DEFINE a == <<Row(Leader, 0)>>
           b == [i \in 1..N |-> Row(joined[i], 0)]
<1> HIDE DEF N
<1>4. a \in Seq(Rows) /\ Len(a) = 1 /\ a[1].node = Leader
  BY <1>0 DEF Row, Rows
<1>5. b \in [1..N -> Rows] /\ \A i \in 1..N : b[i].node = joined[i]
  BY <1>0, <1>3 DEF Row, Rows
<1>6. b \in Seq(Rows) /\ Len(b) = N
  BY <1>2, <1>5
<1>7. members = a \o b
  BY <1>1, <1>3
<1> HIDE DEF a, b
<1>8. /\ members \in Seq(Rows) /\ Len(members) = N + 1 /\ DOMAIN members = 1..(N + 1)
      /\ \A k \in 1..(N + 1) : members[k] = IF k <= 1 THEN a[k] ELSE b[k - 1]
  <2>1. /\ members \in Seq(Rows) /\ Len(members) = 1 + N
        /\ \A k \in 1..Len(members) : members[k] = IF k <= 1 THEN a[k] ELSE b[k - 1]
    <3>1. /\ a \o b \in Seq(Rows) /\ Len(a \o b) = Len(a) + Len(b)
          /\ \A k \in 1..Len(a \o b) : (a \o b)[k] = IF k <= Len(a) THEN a[k] ELSE b[k - Len(a)]
      BY <1>4, <1>6, ConcatProperties
    <3> QED BY <1>4, <1>6, <1>7, <3>1
  <2> QED BY <1>2, <2>1
<1>9. Distinct(members)
  <2>1. \A k \in 1..(N + 1) : members[k].node = IF k = 1 THEN Leader ELSE joined[k - 1]
    <3> SUFFICES ASSUME NEW k \in 1..(N + 1)
                 PROVE  members[k].node = IF k = 1 THEN Leader ELSE joined[k - 1]
      OBVIOUS
    <3>1. CASE k = 1
      BY <1>4, <1>8, <3>1
    <3>2. CASE k # 1
      <4>1. k - 1 \in 1..N /\ ~(k <= 1)
        BY <1>2, <3>2
      <4>2. members[k] = b[k - 1]
        BY <1>8, <4>1
      <4> QED BY <1>5, <3>2, <4>1, <4>2
    <3> QED BY <3>1, <3>2
  <2>2. ASSUME NEW i \in 1..(N + 1), NEW j \in 1..(N + 1), members[i].node = members[j].node PROVE i = j
    <3>1. \A k \in 1..(N + 1) : k # 1 => k - 1 \in 1..N /\ joined[k - 1] # Leader
      <4>1. \A k \in 1..N : joined[k] # Leader
        BY <1>0, <1>3
      <4> QED BY <1>2, <4>1
    <3>2. CASE i = 1 \/ j = 1
      BY <2>1, <2>2, <3>1, <3>2
    <3>3. CASE i # 1 /\ j # 1
      <4>1. joined[i - 1] = joined[j - 1] /\ i - 1 \in 1..N /\ j - 1 \in 1..N
        BY <2>1, <2>2, <3>1, <3>3
      <4>2. i - 1 = j - 1
        BY <1>3, <4>1
      <4> QED BY <1>2, <4>2
    <3> QED BY <3>2, <3>3
  <2> QED BY <1>8, <2>2 DEF Distinct
<1>10. /\ hosts \in Seq(Rows) /\ loaded \in Seq(Rows) /\ targets \subseteq Nodes
  BY <1>8 DEF Init
<1>11. host \in [Nodes -> Host] /\ jobs \in [Nodes -> Seq(Job)] /\ watch \in [Followers -> Watch]
  BY <1>0 DEF Init, Host, Watch, NoWatch
<1> QED BY <1>0, <1>8, <1>9, <1>10, <1>11 DEF Init, Types

\* A counter that is zero after a step was zero before it.
LEMMA CountersGrow ==
    ASSUME TypeOK, [Next]_vars, NEW k \in Kinds, used'[k] = 0 PROVE used[k] = 0
<1>1. UNCHANGED used \/ \E kinds : Uses(kinds)
  <2>1. ASSUME NEW n \in Nodes, NodeNext(n) PROVE UNCHANGED used \/ \E kinds : Uses(kinds)
    <3>1. CASE Report(n) \/ SendLate(n) \/ Deregister(n) \/ Move(n)
      BY <3>1 DEF Report, SendLate, Deregister, Move
    <3>2. CASE Crash(n) \/ Boot(n) \/ Restart(n)
      BY <3>2 DEF Crash, Boot, Restart
    <3>3. ASSUME NEW i \in 1..MaxJobs, Checkout(n, i) \/ Installed(n, i) \/ InstallFails(n, i)
          PROVE  UNCHANGED used \/ \E kinds : Uses(kinds)
      BY <3>3 DEF Checkout, Installed, InstallFails
    <3> QED BY <2>1, <3>1, <3>2, <3>3 DEF NodeNext
  <2>2. ASSUME NEW f \in Followers, WatchNext(f) PROVE UNCHANGED used \/ \E kinds : Uses(kinds)
    BY <2>2 DEF WatchNext, ApplyNodeConfig, Baseline, Poll, GiveUp
  <2>3. ASSUME NEW r \in mail, DeliverLate(r) PROVE UNCHANGED used
    BY <2>3 DEF DeliverLate
  <2>4. ASSUME NEW v \in Versions, SetDesiredNsmVersion(v) PROVE \E kinds : Uses(kinds)
    BY <2>4 DEF SetDesiredNsmVersion
  <2>5. CASE InstructFollower \/ UpgradeLeader \/ PauseEnds
    BY <2>5 DEF InstructFollower, UpgradeLeader, PauseEnds
  <2>6. CASE Refresh \/ ApplyLocalConfig
    BY <2>6 DEF Refresh, ApplyLocalConfig
  <2>7. CASE UNCHANGED vars
    BY <2>7 DEF vars
  <2> QED BY <2>1, <2>2, <2>3, <2>4, <2>5, <2>6, <2>7 DEF Next
<1> QED BY <1>1, EventsCount

-----------------------------------------------------------------------------
(* Who is told of a restart can rely on it. *)

\* The process of f has read what the watched edit wrote, or it will when it starts.
Fresh(f) == ~Up(f) \/ Loaded(f)

\* What the watch of f knows: its edit has been written; it has said nothing yet while it goes on; when it
\* has no baseline to compare with, or has seen f down, f was down at a moment
\* after the edit; and what it said of a restart is true.
WatchIsRight(f) ==
    /\ watch[f].wants <= host[f].env /\ host[f].loadedEnv <= host[f].env
    /\ watch[f].on => watch[f].said = "nothing"
    /\ watch[f].on /\ (watch[f].base = "infinite" \/ watch[f].down) => Fresh(f)
    /\ ~watch[f].on /\ watch[f].said = "restarted" => Loaded(f)

WatchInv == Never({"lostPing"}) => \A f \in Followers : WatchIsRight(f)

\* What the watch of a follower knows stays right when the leader ends, which
\* ends the watch, and when the configuration of the node is left alone or read.
LEMMA WatchKept ==
    ASSUME NEW f \in Followers, WatchIsRight(f), TypeOK,
           watch'[f] = watch[f] \/ watch'[f] = [watch[f] EXCEPT !.on = FALSE],
           \/ host'[f].loadedEnv = host[f].loadedEnv /\ host'[f].env = host[f].env
                /\ (host'[f].up => host[f].up)
           \/ host'[f].loadedEnv = host'[f].env /\ host'[f].env = host[f].env
    PROVE  WatchIsRight(f)'
<1>1. watch[f] \in Watch /\ host[f].env \in Nat /\ host[f].loadedEnv \in Nat /\ watch[f].wants \in Nat
  BY TypesAreTypeOK DEF Types, Watch, Nodes, Host
<1>2. watch'[f].wants = watch[f].wants /\ watch'[f].said = watch[f].said /\ (watch'[f].on => watch'[f] = watch[f])
  BY <1>1 DEF Watch
<1>3. CASE host'[f].loadedEnv = host[f].loadedEnv /\ host'[f].env = host[f].env /\ (host'[f].up => host[f].up)
  <2>1. Loaded(f)' <=> Loaded(f)
    BY <1>2, <1>3 DEF Loaded
  <2>2. Fresh(f) => Fresh(f)'
    BY <1>3, <2>1 DEF Fresh, Up
  <2>3. watch'[f].on => watch'[f] = watch[f] /\ watch[f].on
    BY <1>2
  <2>4. ~watch'[f].on /\ watch'[f].said = "restarted" => ~watch[f].on /\ watch[f].said = "restarted"
    BY <1>2 DEF WatchIsRight
  <2>5. watch'[f].wants <= host'[f].env /\ host'[f].loadedEnv <= host'[f].env
    BY <1>2, <1>3 DEF WatchIsRight
  <2> QED BY <2>1, <2>2, <2>3, <2>4, <2>5 DEF WatchIsRight
<1>4. CASE host'[f].loadedEnv = host'[f].env /\ host'[f].env = host[f].env
  <2>1. /\ watch'[f].wants <= host'[f].env /\ host'[f].loadedEnv <= host'[f].env
        /\ host'[f].loadedEnv >= watch'[f].wants
    BY <1>1, <1>2, <1>4 DEF WatchIsRight
  <2> QED BY <1>2, <2>1 DEF WatchIsRight, Fresh, Loaded
<1> QED BY <1>3, <1>4

\* Steps of the daemons keep it.
LEMMA WatchKeptByNodes ==
    ASSUME TypeOK, NEW f \in Followers, WatchIsRight(f), NEW n \in Nodes, NodeNext(n)
    PROVE  WatchIsRight(f)'
<1>0. /\ host \in [Nodes -> Host] /\ f \in Nodes /\ watch \in [Followers -> Watch]
  BY TypesAreTypeOK DEF Types, Nodes
<1>1. CASE Report(n) \/ SendLate(n) \/ Deregister(n)
  BY <1>1, WatchKept DEF Report, SendLate, Deregister, rollout
<1>2. CASE Move(n)
  <2>1. host'[f].loadedEnv = host[f].loadedEnv /\ host'[f].env = host[f].env /\ host'[f].up = host[f].up
    BY <1>0, <1>2 DEF Move, Host
  <2> QED BY <1>2, <2>1, WatchKept DEF Move
<1>3. ASSUME Halt(n) PROVE WatchIsRight(f)'
  <2>1. host'[f].loadedEnv = host[f].loadedEnv /\ host'[f].env = host[f].env /\ (host'[f].up => host[f].up)
    BY <1>0, <1>3 DEF Halt, Host
  <2>2. watch'[f] = watch[f] \/ watch'[f] = [watch[f] EXCEPT !.on = FALSE]
    BY <1>3 DEF Halt
  <2> QED BY <2>1, <2>2, WatchKept
<1>4. CASE Crash(n)
  BY <1>3, <1>4 DEF Crash
<1>5. CASE Boot(n)
  <2>1. \/ host'[f] = host[f]
        \/ host'[f].loadedEnv = host'[f].env /\ host'[f].env = host[f].env
    BY <1>0, <1>5 DEF Boot, Host
  <2> QED BY <1>5, <2>1, WatchKept DEF Boot
<1>6. CASE Restart(n)
  <2>1. CASE host' = [host EXCEPT ![n].restarts = FALSE] /\ UNCHANGED watch
    <3>1. host'[f].loadedEnv = host[f].loadedEnv /\ host'[f].env = host[f].env /\ host'[f].up = host[f].up
      BY <1>0, <2>1 DEF Host
    <3> QED BY <2>1, <3>1, WatchKept
  <2> QED BY <1>3, <1>6, <2>1 DEF Restart
<1>7. ASSUME NEW i \in 1..MaxJobs, Checkout(n, i) \/ Installed(n, i) \/ InstallFails(n, i)
      PROVE  WatchIsRight(f)'
  <2>1. CASE Checkout(n, i)
    <3>1. host'[f].loadedEnv = host[f].loadedEnv /\ host'[f].env = host[f].env /\ host'[f].up = host[f].up
      BY <1>0, <2>1 DEF Checkout, Host
    <3> QED BY <2>1, <3>1, WatchKept DEF Checkout
  <2>2. CASE Installed(n, i)
    <3>1. host'[f].loadedEnv = host[f].loadedEnv /\ host'[f].env = host[f].env /\ (host'[f].up => host[f].up)
      BY <1>0, <2>2 DEF Installed, Host
    <3>2. watch'[f] = watch[f] \/ watch'[f] = [watch[f] EXCEPT !.on = FALSE]
      BY <2>2 DEF Installed
    <3> QED BY <3>1, <3>2, WatchKept
  <2>3. CASE InstallFails(n, i)
    <3>1. host'[f].loadedEnv = host[f].loadedEnv /\ host'[f].env = host[f].env /\ host'[f].up = host[f].up
      BY <1>0, <2>3 DEF InstallFails, Host
    <3> QED BY <2>3, <3>1, WatchKept DEF InstallFails
  <2> QED BY <1>7, <2>1, <2>2, <2>3
<1> QED BY <1>1, <1>2, <1>4, <1>5, <1>6, <1>7 DEF NodeNext

\* Steps of the watches keep it, unless a ping is lost.
LEMMA WatchKeptByWatches ==
    ASSUME TypeOK, NEW f \in Followers, WatchIsRight(f), NEW g \in Followers, WatchNext(g),
           ~Uses({"lostPing"})
    PROVE  WatchIsRight(f)'
<1>0. /\ host \in [Nodes -> Host] /\ f \in Nodes /\ g \in Nodes /\ watch \in [Followers -> Watch]
  BY TypesAreTypeOK DEF Types, Nodes
<1>1. CASE ApplyNodeConfig(g)
  <2>1. CASE f = g
    <3>0. /\ watch[f] \in Watch /\ watch[f].wants \in Nat
          /\ host[f] \in Host /\ host[f].env \in Nat /\ host[f].loadedEnv \in Nat
      BY <1>0 DEF Host, Watch
    <3>1. host'[f].env = host[f].env + 1 /\ host'[f].loadedEnv = host[f].loadedEnv /\ host'[f].up = host[f].up
      BY <1>0, <1>1, <2>1, <3>0 DEF ApplyNodeConfig, Host
    <3>2. CASE watch' = [watch EXCEPT ![f] = [NoWatch EXCEPT !.on = TRUE, !.wants = host[f].env + 1]]
      <4>1. watch'[f] = [NoWatch EXCEPT !.on = TRUE, !.wants = host[f].env + 1]
        BY <1>0, <3>2
      <4>2. /\ watch'[f].said = "nothing" /\ watch'[f].base = "none" /\ ~watch'[f].down
            /\ watch'[f].wants = host[f].env + 1
        BY <4>1 DEF NoWatch
      <4>3. watch'[f].wants <= host'[f].env /\ host'[f].loadedEnv <= host'[f].env
        BY <3>0, <3>1, <4>2 DEF WatchIsRight
      <4> QED BY <4>2, <4>3 DEF WatchIsRight
    <3>3. CASE watch' = watch
      <4>1. watch'[f].wants <= host'[f].env /\ host'[f].loadedEnv <= host'[f].env
        BY <3>0, <3>1, <3>3 DEF WatchIsRight
      <4> QED BY <3>1, <3>3, <4>1 DEF WatchIsRight, Fresh, Loaded, Up
    <3> QED BY <1>1, <2>1, <3>2, <3>3 DEF ApplyNodeConfig
  <2>2. CASE f # g
    <3>1. host'[f] = host[f] /\ watch'[f] = watch[f]
      BY <1>0, <1>1, <2>2 DEF ApplyNodeConfig
    <3> QED BY <3>1, WatchKept
  <2> QED BY <2>1, <2>2
<1>2. CASE Baseline(g)
  <2>1. watch' = [watch EXCEPT ![g].base = IF Up(g) THEN Ping(g) ELSE "infinite"] /\ UNCHANGED host
    BY <1>2 DEF Baseline
  <2>2. CASE f = g
    <3>1. watch'[f] = [watch[f] EXCEPT !.base = IF Up(f) THEN Ping(f) ELSE "infinite"]
      BY <1>0, <2>1, <2>2
    <3>2. watch[f] \in Watch /\ Ping(f) # "infinite"
      BY <1>0 DEF Ping
    <3>3. /\ watch'[f].on = watch[f].on /\ watch'[f].said = watch[f].said /\ watch'[f].down = watch[f].down
          /\ watch'[f].base = "infinite" => ~Up(f)
          /\ watch'[f].wants = watch[f].wants
      BY <3>1, <3>2 DEF Watch
    <3> QED BY <2>1, <3>3 DEF WatchIsRight, Fresh, Loaded, Up
  <2>3. CASE f # g
    <3>1. watch'[f] = watch[f]
      BY <1>0, <2>1, <2>3
    <3> QED BY <2>1, <3>1, WatchKept
  <2> QED BY <2>2, <2>3
<1>3. CASE Poll(g)
  <2>1. watch' = [watch EXCEPT ![g] = Watched(g, Ping(g))] /\ UNCHANGED host /\ watch[g].on
    BY <1>3 DEF Poll
  <2>2. CASE f = g
    <3>0. watch[f] \in Watch /\ watch[f].on
      BY <1>0, <2>1, <2>2
    <3>1. watch'[f] = Watched(f, Ping(f))
      BY <1>0, <2>1, <2>2
    <3>2. CASE Ping(f) = "none"
      <4>1. watch'[f] = [watch[f] EXCEPT !.down = TRUE] /\ ~Up(f)
        BY <3>1, <3>2 DEF Watched, Ping
      <4>2. watch'[f].on = watch[f].on /\ watch'[f].said = watch[f].said /\ watch'[f].wants = watch[f].wants
        BY <3>0, <4>1 DEF Watch
      <4> QED BY <2>1, <4>1, <4>2, <3>0 DEF WatchIsRight, Fresh, Up
    <3>3. CASE Ping(f) # "none" /\ (watch[f].down \/ Younger(watch[f].base, Ping(f)))
      <4>1. watch'[f] = [watch[f] EXCEPT !.on = FALSE, !.said = "restarted"]
        BY <3>1, <3>3 DEF Watched
      <4>2. ~watch'[f].on /\ watch'[f].wants = watch[f].wants
        BY <3>0, <4>1 DEF Watch
      <4>3. Loaded(f)
        BY <3>0, <3>3 DEF WatchIsRight, Fresh, Younger, Ping
      <4> QED BY <2>1, <4>2, <4>3 DEF WatchIsRight, Loaded
    <3>4. CASE Ping(f) # "none" /\ ~(watch[f].down \/ Younger(watch[f].base, Ping(f)))
      <4>1. watch'[f] = watch[f]
        BY <3>1, <3>4 DEF Watched
      <4> QED BY <2>1, <4>1, WatchKept
    <3> QED BY <3>2, <3>3, <3>4
  <2>3. CASE f # g
    <3>1. watch'[f] = watch[f]
      BY <1>0, <2>1, <2>3
    <3> QED BY <2>1, <3>1, WatchKept
  <2> QED BY <2>2, <2>3
<1>4. CASE GiveUp(g)
  <2>1. CASE f = g
    <3>1. watch'[f] = [watch[f] EXCEPT !.on = FALSE, !.said = "may have failed"] /\ watch[f] \in Watch
      BY <1>0, <1>4, <2>1 DEF GiveUp
    <3>2. ~watch'[f].on /\ watch'[f].said = "may have failed" /\ watch'[f].wants = watch[f].wants
      BY <3>1 DEF Watch
    <3> QED BY <1>4, <3>2 DEF WatchIsRight, GiveUp
  <2>2. CASE f # g
    <3>1. watch'[f] = watch[f] /\ UNCHANGED host
      BY <1>0, <1>4, <2>2 DEF GiveUp
    <3> QED BY <3>1, WatchKept
  <2> QED BY <2>1, <2>2
<1> QED BY <1>1, <1>2, <1>3, <1>4 DEF WatchNext

\* Every step keeps what the watches know.
LEMMA WatchInvPreserved == TypeOK /\ WatchInv /\ [Next]_vars => WatchInv'
<1> SUFFICES ASSUME TypeOK, WatchInv, [Next]_vars, used'["lostPing"] = 0, NEW f \in Followers
             PROVE  WatchIsRight(f)'
  BY DEF WatchInv, Never
<1>0. "lostPing" \in Kinds
  BY DEF Kinds
<1>1. WatchIsRight(f)
  BY <1>0, CountersGrow DEF WatchInv, Never
<1>2. ~Uses({"lostPing"})
  BY <1>0, EventsCount
<1>3. ASSUME NEW n \in Nodes, NodeNext(n) PROVE WatchIsRight(f)'
  BY <1>1, <1>3, WatchKeptByNodes
<1>4. ASSUME NEW g \in Followers, WatchNext(g) PROVE WatchIsRight(f)'
  BY <1>1, <1>2, <1>4, WatchKeptByWatches
<1>5. CASE ApplyLocalConfig
  <2>1. f # Leader /\ f \in Nodes /\ host \in [Nodes -> Host]
    BY ClusterAssumption, TypesAreTypeOK DEF Nodes, Types
  <2>2. host'[f] = host[f] /\ UNCHANGED watch
    BY <1>5, <2>1 DEF ApplyLocalConfig
  <2> QED BY <1>1, <2>2, WatchKept
<1>6. ASSUME UNCHANGED <<host, watch>> PROVE WatchIsRight(f)'
  BY <1>1, <1>6, WatchKept
<1>7. ASSUME NEW r \in mail, DeliverLate(r) PROVE UNCHANGED <<host, watch>>
  BY <1>7 DEF DeliverLate
<1>8. ASSUME NEW v \in Versions, SetDesiredNsmVersion(v) PROVE UNCHANGED <<host, watch>>
  BY <1>8 DEF SetDesiredNsmVersion
<1>9. CASE InstructFollower \/ UpgradeLeader \/ PauseEnds \/ Refresh
  BY <1>6, <1>9 DEF InstructFollower, UpgradeLeader, PauseEnds, Refresh
<1>10. CASE UNCHANGED vars
  BY <1>6, <1>10 DEF vars
<1> QED BY <1>3, <1>4, <1>5, <1>6, <1>7, <1>8, <1>9, <1>10 DEF Next

\* For any followers, edits and restarts at once: administrators who are told
\* that a node restarted (watchFollowerRestart, nodeConfigController.ts:113) can
\* rely on it that the node runs with what they have written, until a ping is lost.
THEOREM ToldRestartsAreTrue == Spec => []RestartsAreTold
<1>1. Init => WatchInv
  BY DEF Init, WatchInv, WatchIsRight, NoWatch, Nodes
<1>2. TypeOK /\ WatchInv => RestartsAreTold
  BY DEF RestartsAreTold, ToldRestartedIsRestarted, WatchInv, WatchIsRight
<1> QED BY <1>1, <1>2, TypesInitially, TypesPreserved, WatchInvPreserved, PTL DEF Spec

-----------------------------------------------------------------------------
(* The leader upgrades last. *)

\* No version newer than this one has been asked for.
Top == IF desired = NoWish THEN 0 ELSE desired

\* A node that runs the version asked for stays on it: its checkout is at it, and
\* the upgrades still running on it are to the same version.
StaysAt(n) ==
    host[n].ver = desired =>
        host[n].head = desired /\ \A i \in DOMAIN jobs[n] : jobs[n][i].art = desired

\* Nothing of a node is newer than what was asked for.
NoneNewer(n) ==
    /\ host[n].ver <= Top /\ host[n].head <= Top /\ reports[n] <= Top
    /\ \A i \in DOMAIN jobs[n] : jobs[n][i].art <= Top

\* What the leader knows of a node's version is not ahead of the node.
ReportHolds(n) == reports[n] = desired /\ desired # NoWish => host[n].ver = desired
MailHolds(r) == r.ver <= Top /\ (r.ver = desired => host[r.node].ver = desired)

\* A daemon that is down runs no upgrade.
DownIsIdle == \A n \in Nodes : ~Up(n) => jobs[n] = <<>>
RolloutIsRight ==
    /\ desired # NoWish => desired > 0
    /\ \A n \in Nodes : NoneNewer(n) /\ StaysAt(n) /\ ReportHolds(n)
    /\ \A r \in mail : MailHolds(r)

RolloutInv == Never({"back"}) => RolloutIsRight

\* An upgrade runs only on a daemon that is up.
LEMMA IdlePreserved == TypeOK /\ DownIsIdle /\ [Next]_vars => DownIsIdle'
<1> SUFFICES ASSUME TypeOK, DownIsIdle, [Next]_vars PROVE DownIsIdle'
  OBVIOUS
<1>0. host \in [Nodes -> Host] /\ jobs \in [Nodes -> Seq(Job)]
  BY TypesAreTypeOK DEF Types
<1>1. ASSUME \A n \in Nodes : host'[n].up = host[n].up, UNCHANGED jobs PROVE DownIsIdle'
  BY <1>1 DEF DownIsIdle, Up
<1>2. ASSUME NEW n \in Nodes, NodeNext(n) PROVE DownIsIdle'
  <2>1. CASE Report(n) \/ SendLate(n) \/ Deregister(n)
    BY <1>1, <2>1 DEF Report, SendLate, Deregister, rollout
  <2>2. CASE Move(n)
    <3>1. \A m \in Nodes : host'[m].up = host[m].up
      BY <1>0, <2>2 DEF Move, Host
    <3> QED BY <1>1, <2>2, <3>1 DEF Move
  <2>3. ASSUME Halt(n) PROVE DownIsIdle'
    BY <1>0, <2>3 DEF Halt, DownIsIdle, Up
  <2>4. CASE Boot(n)
    <3>1. host'[n].up /\ \A m \in Nodes : m # n => host'[m] = host[m]
      BY <1>0, <2>4 DEF Boot, Host
    <3> QED BY <2>4, <3>1 DEF Boot, DownIsIdle, Up
  <2>5. CASE Restart(n)
    <3>1. CASE host' = [host EXCEPT ![n].restarts = FALSE] /\ UNCHANGED jobs
      <4>1. \A m \in Nodes : host'[m].up = host[m].up
        BY <1>0, <3>1 DEF Host
      <4> QED BY <1>1, <3>1, <4>1
    <3> QED BY <2>3, <2>5, <3>1 DEF Restart
  <2>6. ASSUME NEW i \in 1..MaxJobs, Checkout(n, i) \/ InstallFails(n, i) PROVE DownIsIdle'
    <3>1. Up(n)
      BY <2>6 DEF Checkout, InstallFails, DownIsIdle
    <3>2. \A m \in Nodes : host'[m].up = host[m].up
      <4>1. \/ UNCHANGED host
            \/ \E v : host' = [host EXCEPT ![n].head = v, ![n].deps = Partial]
            \/ \E d : host' = [host EXCEPT ![n].deps = d]
        <5>1. CASE Checkout(n, i)
          BY <5>1 DEF Checkout
        <5>2. CASE InstallFails(n, i)
          BY <5>2 DEF InstallFails
        <5> QED BY <2>6, <5>1, <5>2
      <4> SUFFICES ASSUME NEW m \in Nodes PROVE host'[m].up = host[m].up
        OBVIOUS
      <4>2. CASE UNCHANGED host
        BY <4>2
      <4>3. ASSUME NEW v, host' = [host EXCEPT ![n].head = v, ![n].deps = Partial]
            PROVE  host'[m].up = host[m].up
        <5>1. host[n] \in Host /\ host'[n] = [host[n] EXCEPT !.head = v, !.deps = Partial]
          BY <1>0, <4>3
        <5>2. host'[n].up = host[n].up
          BY <5>1 DEF Host
        <5> QED BY <1>0, <4>3, <5>2
      <4>4. ASSUME NEW d, host' = [host EXCEPT ![n].deps = d] PROVE host'[m].up = host[m].up
        <5>1. host[n] \in Host /\ host'[n] = [host[n] EXCEPT !.deps = d]
          BY <1>0, <4>4
        <5>2. host'[n].up = host[n].up
          BY <5>1 DEF Host
        <5> QED BY <1>0, <4>4, <5>2
      <4> QED BY <4>1, <4>2, <4>3, <4>4
    <3>3. \A m \in Nodes : m # n => jobs'[m] = jobs[m]
      BY <1>0, <2>6 DEF Checkout, InstallFails
    <3> QED BY <3>1, <3>2, <3>3 DEF DownIsIdle, Up
  <2>7. ASSUME NEW i \in 1..MaxJobs, Installed(n, i) PROVE DownIsIdle'
    <3>1. \A m \in Nodes : m # n => host'[m] = host[m] /\ jobs'[m] = jobs[m]
      BY <1>0, <2>7 DEF Installed
    <3>2. jobs'[n] = <<>>
      BY <1>0, <2>7 DEF Installed
    <3> QED BY <3>1, <3>2 DEF DownIsIdle, Up
  <2> QED BY <1>2, <2>1, <2>2, <2>3, <2>4, <2>5, <2>6, <2>7 DEF NodeNext, Crash
<1>3. ASSUME NEW n \in Nodes, Up(n), Start(n, desired), UNCHANGED host PROVE DownIsIdle'
  <2>1. \A m \in Nodes : m # n => jobs'[m] = jobs[m]
    BY <1>0, <1>3 DEF Start
  <2> QED BY <1>3, <2>1 DEF DownIsIdle, Up
<1>4. CASE InstructFollower
  <2>1. PICK i \in DOMAIN members :
          IF Up(members[i].node) /\ members[i].at = host[members[i].node].at
          THEN Len(jobs[members[i].node]) < MaxJobs /\ Start(members[i].node, desired)
          ELSE UNCHANGED jobs
    BY <1>4 DEF InstructFollower
  <2>2. members[i].node \in Nodes
    <3>1. members \in Seq(Rows)
      BY TypesAreTypeOK DEF Types
    <3>2. members[i] \in Rows
      BY <3>1
    <3> QED BY <3>2 DEF Rows
  <2> QED BY <1>1, <1>3, <1>4, <2>1, <2>2 DEF InstructFollower
<1>5. CASE UpgradeLeader
  BY <1>3, <1>5 DEF UpgradeLeader, Nodes
<1>6. CASE PauseEnds \/ Refresh
  BY <1>1, <1>6 DEF PauseEnds, Refresh
<1>7. ASSUME NEW f \in Followers, WatchNext(f) PROVE DownIsIdle'
  <2>1. \A n \in Nodes : host'[n].up = host[n].up
    <3>1. UNCHANGED host \/ \E e : host' = [host EXCEPT ![f].env = e, ![f].restarts = TRUE]
      <4>1. CASE ApplyNodeConfig(f)
        <5>1. PICK e : e = host[f].env + 1
          OBVIOUS
        <5>2. f \in Nodes
          BY DEF Nodes
        <5> QED BY <1>0, <4>1, <5>1, <5>2 DEF ApplyNodeConfig
      <4> QED BY <1>7, <4>1 DEF WatchNext, Baseline, Poll, GiveUp
    <3> SUFFICES ASSUME NEW m \in Nodes PROVE host'[m].up = host[m].up
      OBVIOUS
    <3>2. CASE UNCHANGED host
      BY <3>2
    <3>3. ASSUME NEW e, host' = [host EXCEPT ![f].env = e, ![f].restarts = TRUE]
          PROVE  host'[m].up = host[m].up
      <4>1. f \in Nodes
        BY DEF Nodes
      <4>2. host[f] \in Host /\ host'[f] = [host[f] EXCEPT !.env = e, !.restarts = TRUE]
        BY <1>0, <3>3, <4>1
      <4>3. host'[f].up = host[f].up
        BY <4>2 DEF Host
      <4> QED BY <1>0, <3>3, <4>3
    <3> QED BY <3>1, <3>2, <3>3
  <2>2. UNCHANGED jobs
    BY <1>7 DEF WatchNext, ApplyNodeConfig, Baseline, Poll, GiveUp
  <2> QED BY <1>1, <2>1, <2>2
<1>8. ASSUME NEW r \in mail, DeliverLate(r) PROVE DownIsIdle'
  BY <1>1, <1>8 DEF DeliverLate
<1>9. ASSUME NEW v \in Versions, SetDesiredNsmVersion(v) PROVE DownIsIdle'
  BY <1>1, <1>9 DEF SetDesiredNsmVersion
<1>10. CASE ApplyLocalConfig
  <2>1. \A n \in Nodes : host'[n].up = host[n].up
    BY <1>0, <1>10 DEF ApplyLocalConfig, Host
  <2> QED BY <1>1, <1>10, <2>1 DEF ApplyLocalConfig
<1>11. CASE UNCHANGED vars
  BY <1>1, <1>11 DEF vars
<1> QED BY <1>2, <1>4, <1>5, <1>6, <1>7, <1>8, <1>9, <1>10, <1>11 DEF Next

\* The version asked for is a number, and so is its absence.
LEMMA WishIsNumber == TypeOK => desired \in Int /\ NoWish = -1 /\ Unknown = -1
<1> SUFFICES ASSUME TypeOK PROVE desired \in Int /\ NoWish = -1 /\ Unknown = -1
  OBVIOUS
<1>1. desired \in Versions \union {NoWish} /\ Versions \subseteq Nat
  BY ClusterAssumption DEF TypeOK
<1> QED BY <1>1 DEF NoWish, Unknown

\* The version a node is known to run is a number, and so is the lack of a report.
LEMMA ReportsAreNumbers == TypeOK => \A n \in Nodes : reports[n] \in Int
<1> SUFFICES ASSUME TypeOK, NEW n \in Nodes PROVE reports[n] \in Int
  OBVIOUS
<1>1. reports[n] \in Versions \union {Unknown}
  BY TypesAreTypeOK DEF Types
<1>2. Versions \subseteq Nat
  BY ClusterAssumption
<1>3. CASE reports[n] \in Versions
  <2>1. reports[n] \in Nat
    BY <1>2, <1>3
  <2> QED BY <2>1
<1>4. CASE reports[n] = Unknown
  BY <1>4 DEF Unknown
<1> QED BY <1>1, <1>3, <1>4

\* What holds of a node keeps holding while it runs the same version from the
\* same checkout, is given no upgrade but to the version asked for, and nothing
\* is reported of it that is not so.
LEMMA NodeKept ==
    ASSUME TypeOK, RolloutIsRight, NEW n \in Nodes, desired' = desired,
           host'[n].ver = host[n].ver, host'[n].head = host[n].head,
           \A i \in DOMAIN jobs'[n] :
              \/ jobs'[n][i].art = desired
              \/ \E j \in DOMAIN jobs[n] : jobs'[n][i].art = jobs[n][j].art,
           \/ reports'[n] = reports[n] \/ reports'[n] = Unknown \/ reports'[n] = host[n].ver
           \/ reports'[n] <= Top /\ (reports'[n] = desired => host[n].ver = desired)
    PROVE  (NoneNewer(n) /\ StaysAt(n) /\ ReportHolds(n))'
<1>1. NoneNewer(n) /\ StaysAt(n) /\ ReportHolds(n)
  BY DEF RolloutIsRight
<1>2. desired \in Int /\ (desired # NoWish => desired > 0) /\ NoWish = -1 /\ Unknown = -1
  BY WishIsNumber DEF RolloutIsRight
<1>3. Top \in Nat /\ Top' = Top /\ desired <= Top
  BY <1>2 DEF Top
<1>4. host[n].ver \in Nat
  BY ClusterAssumption, TypesAreTypeOK DEF Types, Host
<1>5. reports'[n] <= Top /\ (reports'[n] = desired /\ desired # NoWish => host[n].ver = desired)
  BY <1>1, <1>2, <1>3, <1>4 DEF NoneNewer, ReportHolds
<1>6. \A i \in DOMAIN jobs'[n] : jobs'[n][i].art <= Top
  BY <1>1, <1>3 DEF NoneNewer
<1>7. NoneNewer(n)'
  BY <1>1, <1>3, <1>5, <1>6 DEF NoneNewer
<1>8. StaysAt(n)'
  BY <1>1 DEF StaysAt
<1>9. ReportHolds(n)'
  BY <1>5 DEF ReportHolds
<1> QED BY <1>7, <1>8, <1>9

\* A step in which that is so of every node, and no report is sent late, keeps
\* what the rollout relies on.
LEMMA RolloutKept ==
    ASSUME TypeOK, RolloutIsRight, desired' = desired, mail' \subseteq mail,
           \A n \in Nodes :
              /\ host'[n].ver = host[n].ver /\ host'[n].head = host[n].head
              /\ \A i \in DOMAIN jobs'[n] :
                    \/ jobs'[n][i].art = desired
                    \/ \E j \in DOMAIN jobs[n] : jobs'[n][i].art = jobs[n][j].art
              /\ \/ reports'[n] = reports[n] \/ reports'[n] = Unknown \/ reports'[n] = host[n].ver
                 \/ reports'[n] <= Top /\ (reports'[n] = desired => host[n].ver = desired)
    PROVE  RolloutIsRight'
<1>1. \A n \in Nodes : (NoneNewer(n) /\ StaysAt(n) /\ ReportHolds(n))'
  BY NodeKept
<1>2. ASSUME NEW r \in mail' PROVE MailHolds(r)'
  <2>1. MailHolds(r) /\ r.node \in Nodes
    BY TypesAreTypeOK DEF RolloutIsRight, Types, Nodes
  <2> QED BY <2>1 DEF MailHolds, Top
<1>3. desired' # NoWish => desired' > 0
  BY DEF RolloutIsRight
<1> QED BY <1>1, <1>2, <1>3 DEF RolloutIsRight

\* The steps of a node keep it: what it reports is what it runs, and it starts
\* with the version of its checkout.
LEMMA RolloutKeptByNodes ==
    ASSUME TypeOK, DownIsIdle, RolloutIsRight, NEW n \in Nodes, NodeNext(n)
    PROVE  RolloutIsRight'
<1>0. /\ host \in [Nodes -> Host] /\ jobs \in [Nodes -> Seq(Job)]
      /\ reports \in [Nodes -> Versions \union {Unknown}]
  BY TypesAreTypeOK DEF Types
<1>1. /\ desired \in Int /\ Top \in Nat /\ (desired # NoWish => Top = desired) /\ NoWish = -1
      /\ \A m \in Nodes : host[m].ver \in Nat /\ host[m].head \in Nat /\ host[m] \in Host
  <2>1. \A m \in Nodes : host[m].ver \in Nat /\ host[m].head \in Nat /\ host[m] \in Host
    <3>1. Versions \subseteq Nat
      BY ClusterAssumption
    <3> QED BY <1>0, <3>1 DEF Host
  <2> QED BY <2>1, WishIsNumber DEF RolloutIsRight, Top
<1>2. CASE Report(n)
  <2>1. reports' = [reports EXCEPT ![n] = host[n].ver]
    BY <1>2 DEF Report, Ingest, ReportOf
  <2>2. \A m \in Nodes : reports'[m] = reports[m] \/ reports'[m] = host[m].ver
    BY <1>0, <2>1
  <2> QED BY <1>2, <2>2, RolloutKept DEF Report
<1>3. CASE SendLate(n)
  <2>1. \A m \in Nodes : (NoneNewer(m) /\ StaysAt(m) /\ ReportHolds(m))'
    BY <1>3 DEF SendLate, rollout, RolloutIsRight, NoneNewer, StaysAt, ReportHolds, Top
  <2>2. MailHolds(ReportOf(n))
    BY <1>1 DEF RolloutIsRight, NoneNewer, MailHolds, ReportOf
  <2>3. \A r \in mail' : MailHolds(r)
    BY <1>3, <2>2 DEF SendLate, RolloutIsRight
  <2>4. \A r \in mail' : MailHolds(r)'
    BY <1>3, <2>3 DEF SendLate, rollout, MailHolds, Top
  <2> QED BY <1>3, <2>1, <2>4 DEF SendLate, rollout, RolloutIsRight
<1>4. CASE Deregister(n)
  BY <1>4, RolloutKept DEF Deregister, rollout
<1>5. CASE Move(n)
  <2>1. \A m \in Nodes : host'[m].ver = host[m].ver /\ host'[m].head = host[m].head
    BY <1>0, <1>5 DEF Move, Host
  <2> QED BY <1>5, <2>1, RolloutKept DEF Move, rollout, registry
<1>6. ASSUME Halt(n), UNCHANGED <<registry, desired>> PROVE RolloutIsRight'
  <2>1. \A m \in Nodes : host'[m].ver = host[m].ver /\ host'[m].head = host[m].head
    <3> SUFFICES ASSUME NEW m \in Nodes PROVE host'[m].ver = host[m].ver /\ host'[m].head = host[m].head
      OBVIOUS
    <3>1. CASE m = n
      BY <1>0, <1>1, <1>6, <3>1 DEF Halt, Host
    <3>2. CASE m # n
      BY <1>0, <1>6, <3>2 DEF Halt
    <3> QED BY <3>1, <3>2
  <2>2. \A m \in Nodes : \A i \in DOMAIN jobs'[m] : \E j \in DOMAIN jobs[m] : jobs'[m][i].art = jobs[m][j].art
    BY <1>0, <1>6 DEF Halt
  <2>3. \A m \in Nodes : reports'[m] = reports[m] \/ reports'[m] = Unknown
    BY <1>6 DEF Halt
  <2> QED BY <1>6, <2>1, <2>2, <2>3, RolloutKept DEF registry
<1>7. CASE Crash(n)
  BY <1>6, <1>7 DEF Crash
<1>8. CASE Restart(n)
  <2>1. CASE host' = [host EXCEPT ![n].restarts = FALSE] /\ UNCHANGED <<jobs, reports, rolling, watch>>
    <3>1. \A m \in Nodes : host'[m].ver = host[m].ver /\ host'[m].head = host[m].head
      BY <1>0, <2>1 DEF Host
    <3> QED BY <1>8, <2>1, <3>1, RolloutKept DEF Restart, registry
  <2> QED BY <1>6, <1>8, <2>1 DEF Restart
<1>9. CASE Boot(n)
  <2>0. UNCHANGED <<desired, reports, jobs, mail>> /\ jobs[n] = <<>>
    BY <1>9 DEF Boot, rollout, DownIsIdle
  <2>1. host'[n].ver = host[n].head /\ host'[n].head = host[n].head
    BY <1>0, <1>1, <1>9 DEF Boot, Host
  <2>2. \A m \in Nodes : m # n => host'[m] = host[m]
    BY <1>0, <1>9 DEF Boot
  <2>3. NoneNewer(n) /\ StaysAt(n) /\ ReportHolds(n)
    BY DEF RolloutIsRight
  <2>4. (NoneNewer(n) /\ StaysAt(n) /\ ReportHolds(n))'
    BY <2>0, <2>1, <2>3 DEF NoneNewer, StaysAt, ReportHolds, Top
  <2>5. \A m \in Nodes : m # n => (NoneNewer(m) /\ StaysAt(m) /\ ReportHolds(m))'
    BY <2>0, <2>2 DEF RolloutIsRight, NoneNewer, StaysAt, ReportHolds, Top
  <2>6. ASSUME NEW r \in mail PROVE MailHolds(r)'
    <3>1. MailHolds(r) /\ r.node \in Nodes
      BY TypesAreTypeOK DEF RolloutIsRight, Types, Nodes
    <3>2. host[r.node].ver = desired => host'[r.node].ver = desired
      BY <2>1, <2>2, <2>3, <3>1 DEF StaysAt
    <3> QED BY <2>0, <3>1, <3>2 DEF MailHolds, Top
  <2> QED BY <2>0, <2>4, <2>5, <2>6 DEF RolloutIsRight
<1>10. ASSUME NEW i \in DOMAIN jobs[n], jobs' = [jobs EXCEPT ![n] = RemoveAt(@, i)],
              \A m \in Nodes : host'[m].ver = host[m].ver /\ host'[m].head = host[m].head,
              UNCHANGED <<desired, reports, mail>>
       PROVE  RolloutIsRight'
  <2>1. \A k \in DOMAIN jobs'[n] : \E j \in DOMAIN jobs[n] : jobs'[n][k].art = jobs[n][j].art
    <3>1. jobs[n] \in Seq(Job) /\ jobs'[n] = RemoveAt(jobs[n], i)
      BY <1>0, <1>10
    <3>2. /\ DOMAIN jobs'[n] = 1..(Len(jobs[n]) - 1)
          /\ \A k \in 1..(Len(jobs[n]) - 1) : jobs'[n][k] = jobs[n][IF k < i THEN k ELSE k + 1]
      BY <3>1, RemoveFacts
    <3>3. \A k \in 1..(Len(jobs[n]) - 1) : (IF k < i THEN k ELSE k + 1) \in DOMAIN jobs[n]
      BY <3>1
    <3> QED BY <3>2, <3>3
  <2>2. \A m \in Nodes : m # n => jobs'[m] = jobs[m]
    BY <1>0, <1>10
  <2>3. \A m \in Nodes : \A k \in DOMAIN jobs'[m] : \E j \in DOMAIN jobs[m] : jobs'[m][k].art = jobs[m][j].art
    BY <2>1, <2>2
  <2> QED BY <1>10, <2>3, RolloutKept
<1>11. ASSUME NEW i \in 1..MaxJobs, InstallFails(n, i) PROVE RolloutIsRight'
  <2>1. \A m \in Nodes : host'[m].ver = host[m].ver /\ host'[m].head = host[m].head
    <3>1. UNCHANGED host \/ \E d : host' = [host EXCEPT ![n].deps = d]
      BY <1>11 DEF InstallFails
    <3>2. ASSUME NEW d, host' = [host EXCEPT ![n].deps = d], NEW m \in Nodes
          PROVE  host'[m].ver = host[m].ver /\ host'[m].head = host[m].head
      <4>1. host[m] \in Host /\ (host'[m] = host[m] \/ host'[m] = [host[m] EXCEPT !.deps = d])
        BY <1>0, <3>2
      <4> QED BY <4>1 DEF Host
    <3> QED BY <3>1, <3>2
  <2> QED BY <1>10, <1>11, <2>1 DEF InstallFails, rollout, registry
<1>12. ASSUME NEW i \in 1..MaxJobs, Installed(n, i) PROVE RolloutIsRight'
  <2>1. \A m \in Nodes : host'[m].ver = host[m].ver /\ host'[m].head = host[m].head
    <3> SUFFICES ASSUME NEW m \in Nodes PROVE host'[m].ver = host[m].ver /\ host'[m].head = host[m].head
      OBVIOUS
    <3>1. CASE m = n
      <4>1. PICK d : host' = [host EXCEPT ![n].up = FALSE, ![n].restarts = FALSE, ![n].deps = d]
        BY <1>12 DEF Installed
      <4> QED BY <1>0, <1>1, <3>1, <4>1 DEF Host
    <3>2. CASE m # n
      BY <1>0, <1>12, <3>2 DEF Installed
    <3> QED BY <3>1, <3>2
  <2>2. \A m \in Nodes : \A i2 \in DOMAIN jobs'[m] : \E j \in DOMAIN jobs[m] : jobs'[m][i2].art = jobs[m][j].art
    BY <1>0, <1>12 DEF Installed
  <2>3. \A m \in Nodes : reports'[m] = reports[m] \/ reports'[m] = Unknown
    BY <1>12 DEF Installed
  <2> QED BY <1>12, <2>1, <2>2, <2>3, RolloutKept DEF Installed, registry
<1>13. ASSUME NEW i \in 1..MaxJobs, Checkout(n, i) PROVE RolloutIsRight'
  <2>0. i \in DOMAIN jobs[n] /\ jobs[n][i] \in Job
    BY <1>0, <1>13 DEF Checkout
  <2>1. CASE /\ host' = [host EXCEPT ![n].head = jobs[n][i].art, ![n].deps = Partial]
             /\ jobs' = [jobs EXCEPT ![n][i].step = "install"]
    <3>1. host'[n].ver = host[n].ver /\ host'[n].head = jobs[n][i].art
      BY <1>0, <1>1, <2>1 DEF Host
    <3>2. \A m \in Nodes : m # n => host'[m] = host[m] /\ jobs'[m] = jobs[m]
      BY <1>0, <2>1
    <3>3. DOMAIN jobs'[n] = DOMAIN jobs[n] /\ \A k \in DOMAIN jobs[n] : jobs'[n][k].art = jobs[n][k].art
      <4>1. jobs'[n] = [jobs[n] EXCEPT ![i] = [jobs[n][i] EXCEPT !.step = "install"]]
        BY <1>0, <2>1
      <4>2. [jobs[n][i] EXCEPT !.step = "install"].art = jobs[n][i].art
        BY <2>0 DEF Job
      <4>3. jobs[n] \in Seq(Job)
        BY <1>0
      <4> QED BY <2>0, <4>1, <4>2, <4>3
    <3>4. UNCHANGED <<desired, reports, mail>>
      BY <1>13 DEF Checkout, rollout, registry
    <3>5. NoneNewer(n) /\ StaysAt(n) /\ ReportHolds(n)
      BY DEF RolloutIsRight
    <3>6. (NoneNewer(n) /\ StaysAt(n) /\ ReportHolds(n))'
      BY <2>0, <3>1, <3>3, <3>4, <3>5 DEF NoneNewer, StaysAt, ReportHolds, Top
    <3>7. \A m \in Nodes : m # n => (NoneNewer(m) /\ StaysAt(m) /\ ReportHolds(m))'
      BY <3>2, <3>4 DEF RolloutIsRight, NoneNewer, StaysAt, ReportHolds, Top
    <3>8. ASSUME NEW r \in mail PROVE MailHolds(r)'
      <4>1. MailHolds(r) /\ r.node \in Nodes
        BY TypesAreTypeOK DEF RolloutIsRight, Types, Nodes
      <4>2. host'[r.node].ver = host[r.node].ver
        BY <3>1, <3>2, <4>1
      <4> QED BY <3>4, <4>1, <4>2 DEF MailHolds, Top
    <3> QED BY <3>4, <3>6, <3>7, <3>8 DEF RolloutIsRight
  <2>2. CASE jobs' = [jobs EXCEPT ![n] = RemoveAt(@, i)] /\ UNCHANGED host
    BY <1>10, <1>13, <2>0, <2>2 DEF Checkout, rollout, registry
  <2> QED BY <1>13, <2>1, <2>2 DEF Checkout
<1> QED BY <1>2, <1>3, <1>4, <1>5, <1>7, <1>8, <1>9, <1>11, <1>12, <1>13 DEF NodeNext

\* So do the leader's instructions, which are to the version asked for.
LEMMA RolloutKeptByLeader ==
    ASSUME TypeOK, RolloutIsRight, InstructFollower \/ UpgradeLeader PROVE RolloutIsRight'
<1>0. jobs \in [Nodes -> Seq(Job)] /\ UNCHANGED <<desired, host, reports, mail>>
  BY TypesAreTypeOK DEF Types, InstructFollower, UpgradeLeader, registry
<1>1. ASSUME NEW m \in Nodes, Start(m, desired) PROVE RolloutIsRight'
  <2>1. \A n \in Nodes : n # m => jobs'[n] = jobs[n]
    BY <1>0, <1>1 DEF Start
  <2>2. jobs'[m] = Append(jobs[m], [art |-> desired, step |-> "fetch"])
    BY <1>0, <1>1 DEF Start
  <2>3. \A i \in DOMAIN jobs'[m] :
           \/ jobs'[m][i].art = desired
           \/ \E j \in DOMAIN jobs[m] : jobs'[m][i].art = jobs[m][j].art
    <3> DEFINE q == jobs[m]
               e == [art |-> desired, step |-> "fetch"]
               t == Append(q, e)
    <3>1. q \in Seq(Job)
      BY <1>0
    <3>2. /\ DOMAIN t = 1..(Len(q) + 1) /\ t[Len(q) + 1] = e
          /\ \A i \in 1..Len(q) : t[i] = q[i]
      BY <3>1
    <3>3. DOMAIN q = 1..Len(q) /\ Len(q) \in Nat
      BY <3>1
    <3>4. jobs'[m] = t /\ e.art = desired
      BY <2>2
    <3> HIDE DEF q, e, t
    <3>5. \A i \in DOMAIN t : t[i].art = desired \/ \E j \in DOMAIN q : t[i].art = q[j].art
      BY <3>2, <3>3, <3>4
    <3> QED BY <3>4, <3>5 DEF q
  <2>4. \A n \in Nodes : \A i \in DOMAIN jobs'[n] :
           \/ jobs'[n][i].art = desired
           \/ \E j \in DOMAIN jobs[n] : jobs'[n][i].art = jobs[n][j].art
    BY <2>1, <2>3
  <2> QED BY <1>0, <2>4, RolloutKept
<1>2. ASSUME UNCHANGED jobs PROVE RolloutIsRight'
  BY <1>0, <1>2, RolloutKept
<1>3. CASE InstructFollower
  <2>1. PICK i \in DOMAIN members : UNCHANGED jobs \/ Start(members[i].node, desired)
    BY <1>3 DEF InstructFollower
  <2>2. members[i].node \in Nodes
    <3>1. members \in Seq(Rows)
      BY TypesAreTypeOK DEF Types
    <3>2. members[i] \in Rows
      BY <3>1
    <3> QED BY <3>2 DEF Rows
  <2> QED BY <1>1, <1>2, <2>1, <2>2
<1>4. CASE UpgradeLeader
  BY <1>1, <1>4 DEF UpgradeLeader, Nodes
<1> QED BY <1>3, <1>4

\* A wish for a newer version finds nothing that has that version already.
LEMMA RolloutKeptByWish ==
    ASSUME TypeOK, RolloutIsRight, NEW v \in Versions, v > desired, v > 0, desired' = v,
           UNCHANGED <<host, jobs, reports, mail>>
    PROVE  RolloutIsRight'
<1>1. /\ desired \in Int /\ v \in Nat /\ Top < v /\ Top \in Nat /\ Top' = v /\ NoWish = -1 /\ Unknown = -1
  BY ClusterAssumption, WishIsNumber DEF Top, RolloutIsRight
<1>2. ASSUME NEW n \in Nodes PROVE (NoneNewer(n) /\ StaysAt(n) /\ ReportHolds(n))'
  <2>1. host[n] \in Host /\ jobs[n] \in Seq(Job) /\ reports[n] \in Versions \union {Unknown}
    BY TypesAreTypeOK DEF Types
  <2>2. host[n].ver \in Nat /\ host[n].head \in Nat /\ reports[n] \in Int
    <3>1. Versions \subseteq Nat
      BY ClusterAssumption
    <3>2. host[n].ver \in Versions /\ host[n].head \in Versions
      BY <2>1 DEF Host
    <3>3. reports[n] \in Int
      BY ReportsAreNumbers
    <3> QED BY <3>1, <3>2, <3>3
  <2>3. \A i \in DOMAIN jobs[n] : jobs[n][i].art \in Nat
    <3>1. Versions \subseteq Nat
      BY ClusterAssumption
    <3>2. \A i \in DOMAIN jobs[n] : jobs[n][i] \in Job
      BY <2>1
    <3> QED BY <3>1, <3>2 DEF Job
  <2>4. NoneNewer(n)
    BY DEF RolloutIsRight
  <2>5. NoneNewer(n)'
    BY <1>1, <2>2, <2>3, <2>4 DEF NoneNewer
  <2>6. host[n].ver # v /\ reports[n] # v
    BY <1>1, <2>2, <2>4 DEF NoneNewer
  <2> QED BY <2>5, <2>6 DEF StaysAt, ReportHolds
<1>3. ASSUME NEW r \in mail PROVE MailHolds(r)'
  <2>1. r.ver \in Nat /\ MailHolds(r)
    BY TypesAreTypeOK, ClusterAssumption DEF Types, RolloutIsRight
  <2> QED BY <1>1, <2>1 DEF MailHolds
<1> QED BY <1>2, <1>3 DEF RolloutIsRight

\* Every step keeps what the rollout relies on, until an older version is asked for.
LEMMA RolloutPreserved == TypeOK /\ DownIsIdle /\ RolloutInv /\ [Next]_vars => RolloutInv'
<1> SUFFICES ASSUME TypeOK, DownIsIdle, RolloutInv, [Next]_vars, used'["back"] = 0
             PROVE  RolloutIsRight'
  BY DEF RolloutInv, Never
<1>0. "back" \in Kinds
  BY DEF Kinds
<1>1. RolloutIsRight
  BY <1>0, CountersGrow DEF RolloutInv, Never
<1>2. host \in [Nodes -> Host]
  BY TypesAreTypeOK DEF Types
<1>3. ASSUME NEW n \in Nodes, NodeNext(n) PROVE RolloutIsRight'
  BY <1>1, <1>3, RolloutKeptByNodes
<1>4. CASE InstructFollower \/ UpgradeLeader
  BY <1>1, <1>4, RolloutKeptByLeader
<1>5. ASSUME NEW v \in Versions, SetDesiredNsmVersion(v) PROVE RolloutIsRight'
  <2>1. v > desired /\ v > 0
    BY <1>0, <1>5, EventsCount DEF SetDesiredNsmVersion
  <2> QED BY <1>1, <1>5, <2>1, RolloutKeptByWish DEF SetDesiredNsmVersion, registry
<1>6. ASSUME NEW r \in mail, DeliverLate(r) PROVE RolloutIsRight'
  <2>1. MailHolds(r) /\ r.node \in Nodes /\ reports \in [Nodes -> Versions \union {Unknown}]
    BY <1>1, TypesAreTypeOK DEF RolloutIsRight, Types, Nodes
  <2>2. UNCHANGED reports \/ reports' = [reports EXCEPT ![r.node] = r.ver]
    BY <1>6 DEF DeliverLate, Ingest
  <2>3. \A n \in Nodes : reports'[n] = reports[n] \/ (reports'[n] <= Top /\ (reports'[n] = desired => host[n].ver = desired))
    BY <2>1, <2>2 DEF MailHolds
  <2> QED BY <1>1, <1>6, <2>3, RolloutKept DEF DeliverLate
<1>7. ASSUME UNCHANGED <<jobs, desired, reports, mail>>,
             \A n \in Nodes : host'[n].ver = host[n].ver /\ host'[n].head = host[n].head
      PROVE  RolloutIsRight'
  BY <1>1, <1>7, RolloutKept
<1>8. CASE PauseEnds \/ Refresh
  BY <1>7, <1>8 DEF PauseEnds, Refresh, registry, rollout
<1>9. ASSUME NEW m \in Nodes, NEW e, host' = [host EXCEPT ![m].env = e, ![m].restarts = TRUE]
      PROVE  \A n \in Nodes : host'[n].ver = host[n].ver /\ host'[n].head = host[n].head
  <2> SUFFICES ASSUME NEW n \in Nodes PROVE host'[n].ver = host[n].ver /\ host'[n].head = host[n].head
    OBVIOUS
  <2>1. CASE n = m
    <3>1. host[n] \in Host /\ host'[n] = [host[n] EXCEPT !.env = e, !.restarts = TRUE]
      BY <1>2, <1>9, <2>1
    <3> QED BY <3>1 DEF Host
  <2>2. CASE n # m
    BY <1>2, <1>9, <2>2
  <2> QED BY <2>1, <2>2
<1>10. ASSUME NEW f \in Followers, WatchNext(f) PROVE RolloutIsRight'
  <2>1. CASE ApplyNodeConfig(f)
    <3>1. PICK e : e = host[f].env + 1
      OBVIOUS
    <3>2. host' = [host EXCEPT ![f].env = e, ![f].restarts = TRUE] /\ f \in Nodes
      BY <1>2, <2>1, <3>1 DEF ApplyNodeConfig, Nodes
    <3> QED BY <1>7, <1>9, <2>1, <3>2 DEF ApplyNodeConfig, registry, rollout
  <2>2. CASE Baseline(f) \/ Poll(f) \/ GiveUp(f)
    BY <1>7, <2>2 DEF Baseline, Poll, GiveUp, registry, rollout
  <2> QED BY <1>10, <2>1, <2>2 DEF WatchNext
<1>11. CASE ApplyLocalConfig
  <2>1. PICK e : e = host[Leader].env + 1
    OBVIOUS
  <2>2. host' = [host EXCEPT ![Leader].env = e, ![Leader].restarts = TRUE] /\ Leader \in Nodes
    BY <1>2, <1>11, <2>1 DEF ApplyLocalConfig, Nodes
  <2> QED BY <1>7, <1>9, <1>11, <2>2 DEF ApplyLocalConfig, registry, rollout
<1>12. CASE UNCHANGED vars
  BY <1>7, <1>12 DEF vars
<1> QED BY <1>3, <1>4, <1>5, <1>6, <1>8, <1>10, <1>11, <1>12 DEF Next

\* An upgrade of the leader begins only with UpgradeLeader, when no follower in
\* the registry is reported with another version.
LEMMA LeaderBegins ==
    ASSUME TypeOK, [Next]_vars, jobs'[Leader] # <<>>, jobs[Leader] = <<>> PROVE UpgradeLeader
<1>0. jobs \in [Nodes -> Seq(Job)] /\ Leader \in Nodes
  BY TypesAreTypeOK DEF Types, Nodes
<1>1. ASSUME NEW n \in Nodes, NodeNext(n) PROVE FALSE
  <2>1. CASE Report(n) \/ SendLate(n) \/ Deregister(n) \/ Move(n) \/ Boot(n)
    BY <2>1 DEF Report, SendLate, Deregister, Move, Boot
  <2>2. CASE Crash(n) \/ Restart(n)
    BY <1>0, <2>2 DEF Crash, Restart, Halt
  <2>3. ASSUME NEW i \in 1..MaxJobs, Checkout(n, i) \/ Installed(n, i) \/ InstallFails(n, i) PROVE FALSE
    <3>1. n # Leader
      BY <2>3 DEF Checkout, Installed, InstallFails
    <3>2. jobs'[Leader] = jobs[Leader]
      BY <1>0, <2>3, <3>1 DEF Checkout, Installed, InstallFails
    <3> QED BY <3>2
  <2> QED BY <1>1, <2>1, <2>2, <2>3 DEF NodeNext
<1>2. CASE InstructFollower
  <2>1. PICK i \in DOMAIN members : Stale(members[i]) /\ (UNCHANGED jobs \/ Start(members[i].node, desired))
    BY <1>2 DEF InstructFollower, FirstStale
  <2>2. jobs'[Leader] = jobs[Leader]
    BY <1>0, <2>1 DEF Start, Stale
  <2> QED BY <2>2
<1>3. ASSUME NEW f \in Followers, WatchNext(f) PROVE UNCHANGED jobs
  BY <1>3 DEF WatchNext, ApplyNodeConfig, Baseline, Poll, GiveUp
<1>4. ASSUME NEW r \in mail, DeliverLate(r) PROVE UNCHANGED jobs
  BY <1>4 DEF DeliverLate
<1>5. ASSUME NEW v \in Versions, SetDesiredNsmVersion(v) PROVE UNCHANGED jobs
  BY <1>5 DEF SetDesiredNsmVersion
<1>6. CASE PauseEnds \/ Refresh \/ ApplyLocalConfig \/ UNCHANGED vars
  BY <1>6 DEF PauseEnds, Refresh, ApplyLocalConfig, vars
<1> QED BY <1>1, <1>2, <1>3, <1>4, <1>5, <1>6 DEF Next

\* A rollout as CI asks for it, one version after the other, through crashes,
\* failing installs and reports that are lost or late: the leader begins to
\* upgrade (runSelfUpdateRolloutIfLeader, selfUpdate.ts:71) only when every
\* follower in the registry runs the version it is going to.
THEOREM LeaderGoesLast == Spec => LeaderLast
<1> DEFINE Begun == jobs'[Leader] # <<>> /\ jobs[Leader] = <<>> /\ Never({"back"})
                    => \A n \in Registered(members) \ {Leader} : host[n].ver = desired
<1>1. Init => DownIsIdle /\ RolloutInv
  <2> SUFFICES ASSUME Init PROVE DownIsIdle /\ RolloutInv
    OBVIOUS
  <2>1. DownIsIdle
    BY DEF Init, DownIsIdle, Up
  <2>2. Top = 0 /\ desired = -1 /\ Unknown = -1 /\ NoWish = -1
    BY DEF Init, Top, NoWish, Unknown
  <2>3. \A n \in Nodes : NoneNewer(n) /\ StaysAt(n) /\ ReportHolds(n)
    BY <2>2 DEF Init, NoneNewer, StaysAt, ReportHolds
  <2> QED BY <2>1, <2>2, <2>3 DEF Init, RolloutInv, RolloutIsRight
<1>2. TypeOK /\ RolloutInv /\ [Next]_vars => Begun
  <2> SUFFICES ASSUME TypeOK, RolloutInv, [Next]_vars, jobs'[Leader] # <<>>, jobs[Leader] = <<>>,
                      Never({"back"}), NEW n \in Registered(members) \ {Leader}
               PROVE  host[n].ver = desired
    OBVIOUS
  <2>1. UpgradeLeader
    BY LeaderBegins
  <2>2. PICK i \in DOMAIN members : members[i].node = n
    BY DEF Registered
  <2>3. n \in Nodes
    <3>1. members \in Seq(Rows)
      BY TypesAreTypeOK DEF Types
    <3>2. members[i] \in Rows
      BY <3>1
    <3> QED BY <2>2, <3>2 DEF Rows
  <2>4. reports[n] = desired /\ desired # NoWish
    BY <2>1, <2>2 DEF UpgradeLeader, AllCurrent, Stale
  <2> QED BY <2>3, <2>4 DEF RolloutInv, RolloutIsRight, ReportHolds
<1>3. TypeOK /\ RolloutInv /\ [Next]_vars => [Begun]_vars
  BY <1>2
<1> QED BY <1>1, <1>3, TypesInitially, TypesPreserved, IdlePreserved, RolloutPreserved, PTL DEF Spec, LeaderLast

=============================================================================
