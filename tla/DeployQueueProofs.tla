-------------------------- MODULE DeployQueueProofs --------------------------
(***************************************************************************)
(* What TLAPS proves about DeployQueue for every number of projects,       *)
(* instances and events: the queue always has a drain loop; queue, slot    *)
(* and rows agree; a settled deployment frees the slot; deployments start  *)
(* in the order of their requests.                                         *)
(***************************************************************************)
EXTENDS DeployQueue, FiniteSetTheorems, SequenceTheorems, WellFoundedInduction, TLAPS

-----------------------------------------------------------------------------
(* The drain loop.                                                         *)

\* One turn of the drain loop goes on to a deployment, to the settle delay, or
\* stops, and it stops only with nothing left to deploy.
LEMMA TakeDrains ==
    ASSUME NEW q, Take(q) PROVE BacklogIsDrained'
  BY DEF Take, Loop, BacklogIsDrained

\* Calling drainQueue is safe whether or not a drain loop is running already.
LEMMA KickDrains ==
    ASSUME NEW q, Kick(q) PROVE BacklogIsDrained'
  BY TakeDrains DEF Kick, BacklogIsDrained

\* No step leaves entries waiting without a drain loop.
LEMMA BacklogPreserved == BacklogIsDrained /\ [Next]_vars => BacklogIsDrained'
<1> SUFFICES ASSUME BacklogIsDrained, [Next]_vars PROVE BacklogIsDrained'
  OBVIOUS
<1>1. ASSUME NEW p \in Projects, Enqueue(p) PROVE BacklogIsDrained'
  BY <1>1 DEF Enqueue, drainVars, BacklogIsDrained
<1>2. ASSUME NEW i \in fresh, Push(i) PROVE BacklogIsDrained'
  BY <1>2, KickDrains DEF Push
<1>3. CASE Wake
  BY <1>3, TakeDrains DEF Wake, BacklogIsDrained
<1>4. CASE RegisterWaiter \/ Begin \/ PlanFails \/ Plan \/ Propose
  BY <1>4 DEF RegisterWaiter, Begin, PlanFails, Plan, Propose, BacklogIsDrained
<1>5. CASE Complete
  BY <1>5 DEF Complete, Loop, BacklogIsDrained
<1>6. CASE QueueTimeout \/ Sweep
  BY <1>6 DEF QueueTimeout, Sweep, drainVars, BacklogIsDrained
<1>7. CASE Crash
  BY <1>7 DEF Crash, BacklogIsDrained
<1>8. CASE Recover
  BY <1>8, KickDrains DEF Recover
<1>9. ASSUME NEW p \in Projects, Cancel(p) PROVE BacklogIsDrained'
  <2>1. UNCHANGED pc /\ (Entries(p) = {} => UNCHANGED queue)
    BY <1>9 DEF Cancel
  <2>2. queue = <<>> => Entries(p) = {}
    BY DEF Entries
  <2> QED
    BY <2>1, <2>2 DEF BacklogIsDrained
<1>10. ASSUME NEW p \in Projects, CancelStep(p) PROVE BacklogIsDrained'
  BY <1>10 DEF CancelStep, CancelMark, CancelDesired, CancelNode, CancelRows, drainVars,
               BacklogIsDrained
<1>11. ASSUME NEW p \in Projects, TeardownStep(p) PROVE BacklogIsDrained'
  BY <1>11 DEF TeardownStep, TeardownClear, DeleteRows, DeleteProject, drainVars, BacklogIsDrained
<1>12. ASSUME NEW p \in Projects, NEW why, Teardown(p, why) PROVE BacklogIsDrained'
  BY <1>12 DEF Teardown, drainVars, BacklogIsDrained
<1>13. ASSUME NEW p \in Projects, NodeStep(p) PROVE BacklogIsDrained'
  BY <1>13 DEF NodeStep, NodeStart, NodeProgress, NodeDone, NodeFails, drainVars, BacklogIsDrained
<1>14. CASE UNCHANGED vars
  BY <1>14 DEF vars, drainVars, BacklogIsDrained
<1> QED
  BY <1>1, <1>2, <1>3, <1>4, <1>5, <1>6, <1>7, <1>8, <1>9, <1>10, <1>11, <1>12, <1>13, <1>14
     DEF Next, Enqueues, Drain

\* Whatever pushes, cancels, times out, deletes or crashes, waiting entries always
\* have a drain loop: enqueueDeploy and recoverDeployQueue may rely on `draining'.
THEOREM BacklogAlwaysDrained == Spec => []BacklogIsDrained
<1>1. Init => BacklogIsDrained
  BY DEF Init, BacklogIsDrained
<1> QED
  BY <1>1, BacklogPreserved, PTL DEF Spec

-----------------------------------------------------------------------------
(* Queues and what is taken from them.                                     *)

\* The instances of q are in the order of creation.
Ascending(q) == \A k, l \in DOMAIN q : k < l => q[k] < q[l]

\* What is left after the first entry of a queue without repetitions (queue.shift).
LEMMA TailFacts ==
    ASSUME NEW q \in Seq(Instances), q # <<>>, IsInjective(q)
    PROVE  /\ Tail(q) \in Seq(Instances) /\ Head(q) \in Instances
           /\ ToSet(q) = ToSet(Tail(q)) \cup {Head(q)}
           /\ Head(q) \notin ToSet(Tail(q))
           /\ IsInjective(Tail(q))
           /\ Ascending(q) => Ascending(Tail(q)) /\ \A x \in ToSet(q) : Head(q) <= x
<1>1. /\ Tail(q) \in Seq(Instances) /\ Head(q) = q[1] /\ Len(q) \in Nat \ {0}
      /\ DOMAIN q = 1..Len(q) /\ DOMAIN Tail(q) = 1..(Len(q) - 1)
      /\ \A k \in 1..(Len(q) - 1) : Tail(q)[k] = q[k + 1]
      /\ \A k \in 1..Len(q) : q[k] \in Instances
  OBVIOUS
<1>2. \A x : x \in ToSet(q) <=> \E k \in 1..Len(q) : x = q[k]
  BY <1>1 DEF ToSet
<1>3. \A x : x \in ToSet(Tail(q)) <=> \E k \in 1..(Len(q) - 1) : x = q[k + 1]
  BY <1>1 DEF ToSet
<1>4. \A k \in 1..Len(q) : k = 1 \/ (k - 1 \in 1..(Len(q) - 1) /\ k = (k - 1) + 1)
  BY <1>1
<1>5. \A k \in 1..(Len(q) - 1) : k + 1 \in 1..Len(q) /\ k + 1 # 1
  BY <1>1
<1>6. ToSet(q) = ToSet(Tail(q)) \cup {Head(q)}
  <2>1. ASSUME NEW x \in ToSet(q) PROVE x = Head(q) \/ x \in ToSet(Tail(q))
    <3>1. PICK k \in 1..Len(q) : x = q[k]
      BY <1>2, <2>1
    <3>2. CASE k = 1
      BY <1>1, <3>1, <3>2
    <3>3. CASE k - 1 \in 1..(Len(q) - 1) /\ k = (k - 1) + 1
      BY <1>3, <3>1, <3>3
    <3> QED BY <1>4, <3>2, <3>3
  <2>2. ASSUME NEW x \in ToSet(Tail(q)) PROVE x \in ToSet(q)
    BY <1>2, <1>3, <1>5, <2>2
  <2>3. Head(q) \in ToSet(q)
    BY <1>1, <1>2
  <2> QED BY <2>1, <2>2, <2>3
<1>7. Head(q) \notin ToSet(Tail(q))
  BY <1>1, <1>3, <1>5 DEF IsInjective
<1>8. IsInjective(Tail(q))
  BY <1>1, <1>5 DEF IsInjective
<1>9. ASSUME Ascending(q) PROVE Ascending(Tail(q)) /\ \A x \in ToSet(q) : Head(q) <= x
  <2>1. Ascending(Tail(q))
    BY <1>1, <1>5, <1>9 DEF Ascending
  <2>2. \A k \in 1..Len(q) : q[1] <= q[k]
    BY <1>1, <1>9, MaxInstAssumption DEF Ascending, Instances
  <2> QED BY <1>1, <1>2, <2>1, <2>2
<1> QED
  BY <1>1, <1>6, <1>7, <1>8, <1>9

\* What a queue holds after one more entry (queue.push).
LEMMA AppendFacts ==
    ASSUME NEW q \in Seq(Instances), IsInjective(q), NEW e \in Instances, e \notin ToSet(q)
    PROVE  /\ Append(q, e) \in Seq(Instances)
           /\ ToSet(Append(q, e)) = ToSet(q) \cup {e}
           /\ IsInjective(Append(q, e))
           /\ Ascending(q) /\ (\A x \in ToSet(q) : x < e) => Ascending(Append(q, e))
<1>1. /\ Append(q, e) \in Seq(Instances) /\ Len(q) \in Nat
      /\ DOMAIN q = 1..Len(q) /\ DOMAIN Append(q, e) = 1..(Len(q) + 1)
      /\ \A k \in 1..Len(q) : Append(q, e)[k] = q[k]
      /\ Append(q, e)[Len(q) + 1] = e
  OBVIOUS
<1>2. \A x : x \in ToSet(q) <=> \E k \in 1..Len(q) : x = q[k]
  BY <1>1 DEF ToSet
<1>3. \A x : x \in ToSet(Append(q, e)) <=> \E k \in 1..(Len(q) + 1) : x = Append(q, e)[k]
  BY <1>1 DEF ToSet
<1>4. \A k \in 1..(Len(q) + 1) : k = Len(q) + 1 \/ k \in 1..Len(q)
  BY <1>1
<1>5. ToSet(Append(q, e)) = ToSet(q) \cup {e}
  BY <1>1, <1>2, <1>3, <1>4
<1>6. IsInjective(Append(q, e))
  BY <1>1, <1>2, <1>4 DEF IsInjective
<1>7. ASSUME Ascending(q), \A x \in ToSet(q) : x < e PROVE Ascending(Append(q, e))
  BY <1>1, <1>2, <1>4, <1>7 DEF Ascending
<1> QED
  BY <1>1, <1>5, <1>6, <1>7

\* What a queue holds after an entry has been taken out (queue.splice of a cancel).
LEMMA RemoveFacts ==
    ASSUME NEW q \in Seq(Instances), IsInjective(q), NEW n \in DOMAIN q
    PROVE  /\ RemoveAt(q, n) \in Seq(Instances)
           /\ ToSet(RemoveAt(q, n)) = ToSet(q) \ {q[n]}
           /\ IsInjective(RemoveAt(q, n))
           /\ Ascending(q) => Ascending(RemoveAt(q, n))
<1> DEFINE r == RemoveAt(q, n)
           g == [k \in 1..(Len(q) - 1) |-> IF k < n THEN k ELSE k + 1]
<1>1. Len(q) \in Nat /\ DOMAIN q = 1..Len(q) /\ n \in 1..Len(q)
  OBVIOUS
<1>2. /\ SubSeq(q, 1, n - 1) \in Seq(Instances) /\ Len(SubSeq(q, 1, n - 1)) = n - 1
      /\ \A k \in 1..(n - 1) : SubSeq(q, 1, n - 1)[k] = q[k]
  BY <1>1
<1>3. /\ SubSeq(q, n + 1, Len(q)) \in Seq(Instances) /\ Len(SubSeq(q, n + 1, Len(q))) = Len(q) - n
      /\ \A k \in 1..(Len(q) - n) : SubSeq(q, n + 1, Len(q))[k] = q[k + n]
  BY <1>1
<1>4. /\ r \in Seq(Instances) /\ Len(r) = Len(q) - 1 /\ DOMAIN r = 1..(Len(q) - 1)
      /\ \A k \in 1..(Len(q) - 1) : r[k] = q[g[k]]
  <2> DEFINE a == SubSeq(q, 1, n - 1)
             b == SubSeq(q, n + 1, Len(q))
  <2>0. r = a \o b /\ a \in Seq(Instances) /\ b \in Seq(Instances)
    BY <1>2, <1>3 DEF RemoveAt
  <2> HIDE DEF a, b, r
  <2>1. /\ r \in Seq(Instances) /\ Len(r) = Len(a) + Len(b)
        /\ \A k \in 1..Len(r) : r[k] = IF k <= Len(a) THEN a[k] ELSE b[k - Len(a)]
    BY <2>0, ConcatProperties
  <2>2. Len(r) = Len(q) - 1 /\ DOMAIN r = 1..(Len(q) - 1)
    BY <1>1, <1>2, <1>3, <2>1 DEF a, b
  <2>3. ASSUME NEW k \in 1..(Len(q) - 1) PROVE r[k] = q[g[k]]
    <3>1. CASE k <= n - 1
      <4>1. k \in 1..(n - 1) /\ g[k] = k
        BY <1>1, <3>1
      <4>2. r[k] = a[k]
        BY <1>1, <1>2, <2>1, <2>2, <3>1 DEF a
      <4> QED BY <1>2, <4>1, <4>2 DEF a
    <3>2. CASE ~(k <= n - 1)
      <4>1. k - (n - 1) \in 1..(Len(q) - n) /\ (k - (n - 1)) + n = k + 1
        BY <1>1, <3>2
      <4>2. r[k] = b[k - (n - 1)]
        BY <1>1, <1>2, <2>1, <2>2, <3>2 DEF a
      <4>3. b[k - (n - 1)] = q[k + 1]
        BY <1>3, <4>1 DEF b
      <4>4. g[k] = k + 1
        BY <1>1, <3>2
      <4> QED BY <4>2, <4>3, <4>4
    <3> QED BY <3>1, <3>2
  <2> QED BY <2>1, <2>2, <2>3
<1>5. \A x : x \in ToSet(q) <=> \E k \in 1..Len(q) : x = q[k]
  BY <1>1 DEF ToSet
<1>6. \A x : x \in ToSet(r) <=> \E k \in 1..(Len(q) - 1) : x = r[k]
  BY <1>4 DEF ToSet
<1>7. /\ \A k \in 1..(Len(q) - 1) : g[k] \in 1..Len(q) /\ g[k] # n
      /\ \A j, k \in 1..(Len(q) - 1) : (j < k <=> g[j] < g[k]) /\ (g[j] = g[k] => j = k)
  BY <1>1
<1>8. \A k \in 1..Len(q) : k # n => \E j \in 1..(Len(q) - 1) : k = g[j]
  <2> SUFFICES ASSUME NEW k \in 1..Len(q), k # n PROVE \E j \in 1..(Len(q) - 1) : k = g[j]
    OBVIOUS
  <2>1. CASE k < n
    <3>1. k \in 1..(Len(q) - 1)
      BY <1>1, <2>1
    <3> QED BY <2>1, <3>1
  <2>2. CASE k > n
    <3>1. k - 1 \in 1..(Len(q) - 1) /\ k = g[k - 1]
      BY <1>1, <2>2
    <3> QED BY <3>1
  <2> QED BY <1>1, <2>1, <2>2
<1> HIDE DEF r, g
<1>9. ToSet(r) = ToSet(q) \ {q[n]}
  <2>1. ASSUME NEW x \in ToSet(r) PROVE x \in ToSet(q) \ {q[n]}
    <3>1. PICK k \in 1..(Len(q) - 1) : x = q[g[k]]
      BY <1>4, <1>6, <2>1
    <3> QED BY <1>1, <1>5, <1>7, <3>1 DEF IsInjective
  <2>2. ASSUME NEW x \in ToSet(q) \ {q[n]} PROVE x \in ToSet(r)
    <3>1. PICK k \in 1..Len(q) : x = q[k] /\ k # n
      BY <1>5, <2>2
    <3>2. PICK j \in 1..(Len(q) - 1) : k = g[j]
      BY <1>8, <3>1
    <3> QED BY <1>4, <1>6, <3>1, <3>2
  <2> QED BY <2>1, <2>2
<1>10. IsInjective(r)
  BY <1>1, <1>4, <1>7 DEF IsInjective
<1>11. ASSUME Ascending(q) PROVE Ascending(r)
  BY <1>1, <1>4, <1>7, <1>11 DEF Ascending
<1> QED
  BY <1>4, <1>9, <1>10, <1>11 DEF r

\* recoverDeployQueue is well defined: the oldest QUEUED rows can be put in order.
LEMMA RecoveredFacts ==
    /\ Recovered \in Seq(Instances) /\ IsInjective(Recovered) /\ Ascending(Recovered)
    /\ ToSet(Recovered) = OldestWaiting
<1> DEFINE S == OldestWaiting
           n == Cardinality(S)
           Upto(i) == {j \in S : j <= i}
           rank == [i \in S |-> Cardinality(Upto(i))]
           Sorts(q) == \A k, l \in DOMAIN q : k < l => q[k] < q[l]
<1>1. S \subseteq Instances /\ \A i \in S : i \in Nat
  BY MaxInstAssumption DEF OldestWaiting, Waiting, Instances
<1>2. IsFiniteSet(S) /\ n \in Nat
  <2>1. IsFiniteSet(Instances)
    BY MaxInstAssumption, FS_Interval DEF Instances
  <2> QED BY <1>1, <2>1, FS_Subset, FS_CardinalityType
<1>3. \A i \in S : IsFiniteSet(Upto(i)) /\ rank[i] \in 1..n
  <2> SUFFICES ASSUME NEW i \in S PROVE IsFiniteSet(Upto(i)) /\ rank[i] \in 1..n
    OBVIOUS
  <2>1. IsFiniteSet(Upto(i)) /\ Cardinality(Upto(i)) <= n
    BY <1>2, FS_Subset
  <2>2. i \in Upto(i)
    BY <1>1
  <2>3. Cardinality(Upto(i)) # 0 /\ Cardinality(Upto(i)) \in Nat
    BY <2>1, <2>2, FS_EmptySet, FS_CardinalityType
  <2> QED BY <1>2, <2>1, <2>3
<1>4. \A i, j \in S : i < j => rank[i] < rank[j]
  <2> SUFFICES ASSUME NEW i \in S, NEW j \in S, i < j PROVE rank[i] < rank[j]
    OBVIOUS
  <2>1. Upto(i) \in SUBSET Upto(j) /\ j \in Upto(j) /\ j \notin Upto(i)
    BY <1>1
  <2>2. Cardinality(Upto(i)) <= Cardinality(Upto(j)) /\ Cardinality(Upto(i)) # Cardinality(Upto(j))
    BY <1>3, <2>1, FS_Subset
  <2>3. Cardinality(Upto(i)) \in Nat /\ Cardinality(Upto(j)) \in Nat
    BY <1>3, FS_CardinalityType
  <2> QED BY <2>2, <2>3
<1> HIDE DEF Upto
<1>5. \A i, j \in S : rank[i] < rank[j] => i < j
  <2> SUFFICES ASSUME NEW i \in S, NEW j \in S, rank[i] < rank[j], ~(i < j) PROVE FALSE
    OBVIOUS
  <2>1. j < i \/ i = j
    BY <1>1
  <2>2. rank[i] \in Nat /\ rank[j] \in Nat
    BY <1>2, <1>3
  <2> QED BY <1>4, <2>1, <2>2
<1>6. \A k \in 1..n : \E i \in S : rank[i] = k
  <2> HIDE DEF rank
  <2>0. rank \in [S -> 1..n]
    BY <1>3 DEF rank
  <2>1. \A i, j \in S : rank[i] = rank[j] => i = j
    BY <1>1, <1>2, <1>3, <1>4
  <2>2. rank \in Injection(S, 1..n)
    BY <2>0, <2>1 DEF Injection, IsInjective
  <2>3. IsFiniteSet(1..n) /\ Cardinality(1..n) = n
    BY <1>2, FS_Interval
  <2>4. rank \in Surjection(S, 1..n)
    BY <2>2, <2>3, FS_Injection
  <2> QED BY <2>4 DEF Surjection
<1>7. \E q \in [1..n -> S] : Sorts(q)
  <2> DEFINE q == [k \in 1..n |-> CHOOSE i \in S : rank[i] = k]
  <2>1. \A k \in 1..n : q[k] \in S /\ rank[q[k]] = k
    BY <1>6
  <2>2. q \in [1..n -> S] /\ Sorts(q)
    BY <1>5, <2>1
  <2> QED BY <2>2
<1>8. Recovered \in [1..n -> S] /\ Sorts(Recovered)
  BY <1>7 DEF Recovered
<1>9. Recovered \in Seq(Instances) /\ DOMAIN Recovered = 1..n /\ Ascending(Recovered)
  BY <1>1, <1>2, <1>8 DEF Ascending
<1>10. IsInjective(Recovered)
  BY <1>1, <1>2, <1>8, <1>9 DEF IsInjective
<1>11. Recovered \in Surjection(1..n, S)
  <2>1. IsFiniteSet(1..n) /\ Cardinality(1..n) = n
    BY <1>2, FS_Interval
  <2>2. Recovered \in Injection(1..n, S)
    BY <1>8, <1>10 DEF Injection
  <2> QED BY <1>2, <2>1, <2>2, FS_Injection
<1>12. ToSet(Recovered) = S
  BY <1>8, <1>9, <1>11 DEF Surjection, ToSet
<1> QED BY <1>9, <1>10, <1>12

-----------------------------------------------------------------------------
(* The inductive invariant.                                                *)

Unproposed == {"lookup", "start", "plan", "write"}
Queued == ToSet(queue) \cup fresh

\* Instances no node has been told of, and those one is or will be working for.
Held == Queued \cup (IF pc \in Unproposed THEN {active} ELSE {})
Launched ==
    {i \in Instances :
       \E p \in Projects : i \in {desired[p].log, desired[p].serving, node[p].building}}

\* The slot is occupied exactly while a deployment is being worked on, and its
\* waiter exists from registerWaiter to the end.
SlotIsHeld ==
    /\ active = None <=> pc \in {"off", "delay"}
    /\ waiter = "none" <=> pc \in {"off", "delay", "lookup"}

\* Counters of events only grow, and a step counts its own events.
LEMMA UsesType ==
    ASSUME NEW kinds, Uses(kinds), used \in [Kinds -> Nat]
    PROVE  /\ used' \in [Kinds -> Nat]
           /\ \A k \in Kinds : used[k] <= used'[k] /\ (k \in kinds => used'[k] # 0)
  BY DEF Uses

\* Setting the state of a row keeps the rest of the row.
LEMMA RowUpdates ==
    ASSUME NEW r \in Row, NEW s \in States
    PROVE  /\ Logged(r, s) \in Row /\ [r EXCEPT !.state = s] \in Row
           /\ [r EXCEPT !.state = s, !.active = FALSE] \in Row
           /\ Logged(r, s).project = r.project /\ Logged(r, s).state = s
<1>1. (r.active /\ ~(r.state # s /\ s \in {"FAILED", "CANCELLED", "DESTROYED"})) \in BOOLEAN
  OBVIOUS
<1> QED BY <1>1 DEF Row, Logged, States, Terminal

\* Constant facts about the types: the values the actions write belong to them.
LEMMA Typed ==
    /\ None \notin Instances /\ None # 1
    /\ NoDesired \in Desired /\ Fresh \in Node
    /\ Idle \in CancelCalls /\ Idle \in TeardownCalls
    /\ [pc |-> "node"] \in CancelCalls /\ [pc |-> "rows"] \in CancelCalls
    /\ [pc |-> "rows"] \in TeardownCalls /\ [pc |-> "project"] \in TeardownCalls
    /\ Terminal \cup {"QUEUED", "DEPLOYING", "DESTROYING"} = States
    /\ \A p \in Projects : NoRow(p) \in Row
    /\ \A c \in CancelCalls : c.pc = "mark" => c.inst \in Instances
    /\ \A c \in CancelCalls : c.pc = "desired" => c.planning \in BOOLEAN
    /\ \A c \in TeardownCalls : c.pc = "clear" => c.torn \subseteq Instances
    /\ \A i \in Instances : [pc |-> "mark", inst |-> i] \in CancelCalls
    /\ \A b \in BOOLEAN : [pc |-> "desired", planning |-> b] \in CancelCalls
    /\ \A t \in SUBSET Instances, why \in {"teardown", "delete"} :
          [pc |-> "clear", torn |-> t, why |-> why] \in TeardownCalls
<1>1. None \notin Instances /\ None # 1
  BY MaxInstAssumption DEF Instances, None
<1>2. NoDesired \in Desired /\ Fresh \in Node
  BY DEF NoDesired, Desired, Fresh, Node
<1>3. \A p \in Projects : NoRow(p) \in Row
  BY DEF NoRow, Row
<1>4. /\ Idle \in CancelCalls /\ Idle \in TeardownCalls
      /\ [pc |-> "node"] \in CancelCalls /\ [pc |-> "rows"] \in CancelCalls
      /\ [pc |-> "rows"] \in TeardownCalls /\ [pc |-> "project"] \in TeardownCalls
  BY DEF Idle, CancelCalls, TeardownCalls
<1>5. /\ \A i \in Instances : [pc |-> "mark", inst |-> i] \in CancelCalls
      /\ \A b \in BOOLEAN : [pc |-> "desired", planning |-> b] \in CancelCalls
      /\ \A t \in SUBSET Instances, why \in {"teardown", "delete"} :
            [pc |-> "clear", torn |-> t, why |-> why] \in TeardownCalls
  BY DEF CancelCalls, TeardownCalls
<1>6. /\ \A c \in CancelCalls : c.pc = "mark" => c.inst \in Instances
      /\ \A c \in CancelCalls : c.pc = "desired" => c.planning \in BOOLEAN
  BY DEF CancelCalls, Idle
<1>7. \A c \in TeardownCalls : c.pc = "clear" => c.torn \subseteq Instances
  BY DEF TeardownCalls, Idle
<1>8. Terminal \cup {"QUEUED", "DEPLOYING", "DESTROYING"} = States
  BY DEF States
<1> QED BY <1>1, <1>2, <1>3, <1>4, <1>5, <1>6, <1>7, <1>8, Zenon

\* What one entry of the log does to a row, and to the waiter.
LEMMA LogSteps ==
    ASSUME TypeOK, NEW i \in Instances, NEW s \in States, Log(i, s)
    PROVE  /\ row' \in [Instances -> Row]
           /\ waiter' \in {"none", "pending", "resolved"}
           /\ waiter' = "none" <=> waiter = "none"
<1>1. Logged(row[i], s) \in Row
  BY RowUpdates DEF TypeOK
<1>2. row' \in [Instances -> Row]
  BY <1>1 DEF Log, TypeOK
<1> QED BY <1>2 DEF Log, TypeOK

\* One turn of the drain loop occupies the slot or leaves it empty.
LEMMA TakeType ==
    ASSUME NEW q \in Seq(Instances), q # <<>>, flagged \subseteq Instances, Take(q)
    PROVE  /\ queue' \in Seq(Instances) /\ active' \in Instances \cup {None}
           /\ pc' \in {"off", "delay", "lookup"} /\ flagged' \subseteq Instances
           /\ active' = None <=> pc' \in {"off", "delay"}
<1>1. Head(q) \in Instances /\ Head(q) # None /\ Tail(q) \in Seq(Instances)
  BY MaxInstAssumption DEF Instances, None
<1> QED BY <1>1 DEF Take, Loop

\* So does calling drainQueue.
LEMMA KickType ==
    ASSUME TypeOK, SlotIsHeld, NEW q \in Seq(Instances), Kick(q), UNCHANGED waiter
    PROVE  /\ queue' \in Seq(Instances) /\ active' \in Instances \cup {None}
           /\ pc' \in {"off", "lookup", "start", "plan", "write", "await", "delay"}
           /\ flagged' \subseteq Instances /\ SlotIsHeld'
  BY TakeType DEF Kick, TypeOK, SlotIsHeld

\* A report that may be lost has the types of a log entry.
LEMMA DeliverSteps ==
    ASSUME TypeOK, NEW i \in Instances, NEW s \in States, Deliver(i, s)
    PROVE  /\ row' \in [Instances -> Row]
           /\ waiter' \in {"none", "pending", "resolved"}
           /\ waiter' = "none" <=> waiter = "none"
  BY LogSteps DEF Deliver, TypeOK

\* A cancel that finds the project in the queue takes out one entry of it.
LEMMA CancelTakes ==
    ASSUME NEW p \in Projects, Cancel(p), Entries(p) # {}, queue \in Seq(Instances)
    PROVE  \E n \in DOMAIN queue :
              /\ Of(queue[n]) = p
              /\ queue' = RemoveAt(queue, n) /\ flagged' = flagged
              /\ canceling' = [canceling EXCEPT ![p] = [pc |-> "mark", inst |-> queue[n]]]
<1>1. Entries(p) \in SUBSET Nat
  BY DEF Entries
<1>2. \E n \in Entries(p) : \A l \in Entries(p) : ~(<<l, n>> \in OpToRel(<, Nat))
  <2> DEFINE R == OpToRel(<, Nat)
  <2>1. IsWellFoundedOn(R, Nat)
    BY NatLessThanWellFounded
  <2> HIDE DEF R
  <2>2. \E n \in Entries(p) : \A l \in Entries(p) : ~(<<l, n>> \in R)
    BY <1>1, <2>1, WFMin
  <2> QED BY <2>2 DEF R
<1>3. \E n \in Entries(p) : \A l \in Entries(p) : n <= l
  <2>1. \A l, n \in Nat : l < n => <<l, n>> \in OpToRel(<, Nat)
    BY DEF OpToRel
  <2>2. \A l, n \in Nat : ~(l < n) => n <= l
    OBVIOUS
  <2> QED BY <1>1, <1>2, <2>1, <2>2
<1> DEFINE n == CHOOSE k \in Entries(p) : \A l \in Entries(p) : k <= l
<1>4. n \in Entries(p)
  BY <1>3
<1>5. n \in DOMAIN queue /\ Of(queue[n]) = p
  BY <1>4 DEF Entries
<1>6. /\ queue' = RemoveAt(queue, n) /\ flagged' = flagged
      /\ canceling' = [canceling EXCEPT ![p] = [pc |-> "mark", inst |-> queue[n]]]
  BY DEF Cancel
<1> QED BY <1>5, <1>6

\* Every step keeps the types, and the slot occupied exactly while it is worked on.
LEMMA TypePreserved ==
    ASSUME TypeOK, SlotIsHeld, IsInjective(queue), [Next]_vars
    PROVE  TypeOK' /\ SlotIsHeld'
<1> USE DEF TypeOK, SlotIsHeld
<1>0. /\ {"DEPLOYED", "FAILED", "CANCELLED", "DESTROYED", "QUEUED", "DEPLOYING", "DESTROYING"} = States
      /\ \A i \in Instances : row[i] \in Row /\ row[i].project \in Projects
      /\ \A p \in Projects : /\ desired[p] \in Desired
                             /\ desired[p].log \in Instances \cup {None}
                             /\ desired[p].serving \in Instances \cup {None}
                             /\ node[p].building \in Instances \cup {None}
                             /\ canceling[p] \in CancelCalls /\ tearing[p] \in TeardownCalls
  BY DEF States, Terminal, Row, Desired, Node
<1>1. ASSUME NEW p \in Projects, Enqueue(p) PROVE TypeOK' /\ SlotIsHeld'
  <2>1. made' \in Instances /\ made' \in 0..MaxInst
    BY <1>1, MaxInstAssumption DEF Enqueue, Instances
  <2>2. [project |-> p, state |-> "QUEUED", active |-> TRUE] \in Row
    BY DEF Row, States
  <2>3. row' \in [Instances -> Row]
    BY <1>1, <2>1, <2>2 DEF Enqueue
  <2>4. used' \in [Kinds -> Nat]
    BY <1>1, UsesType DEF Enqueue
  <2> QED BY <1>1, <2>1, <2>3, <2>4 DEF Enqueue, drainVars, callVars
<1>2. ASSUME NEW i \in fresh, Push(i) PROVE TypeOK' /\ SlotIsHeld'
  <2>1. Append(queue, i) \in Seq(Instances)
    OBVIOUS
  <2> QED BY <1>2, <2>1, KickType DEF Push, callVars
<1>3. CASE Wake
  BY <1>3, TakeType DEF Wake, callVars
<1>4. CASE RegisterWaiter
  BY <1>0, <1>4 DEF RegisterWaiter, callVars
<1>5. CASE Begin
  <2>1. row' \in [Instances -> Row]
    BY <1>0, <1>5, RowUpdates DEF Begin, Marked
  <2> QED BY <1>5, <2>1 DEF Begin, callVars
<1>6. CASE PlanFails
  BY <1>0, <1>6, LogSteps DEF PlanFails, callVars
<1>7. CASE Plan
  BY <1>0, <1>7, LogSteps DEF Plan, callVars
<1>8. CASE Propose
  <2>1. desired' \in [Projects -> Desired]
    BY <1>0, <1>8 DEF Propose, Of, Desired
  <2> QED BY <1>8, <2>1 DEF Propose, callVars
<1>9. CASE Complete
  BY <1>9 DEF Complete, Loop, callVars
<1>10. CASE QueueTimeout
  BY <1>10, UsesType DEF QueueTimeout, Spend, drainVars, callVars
<1>11. CASE Crash
  <2>1. used' \in [Kinds -> Nat]
    BY <1>11, UsesType DEF Crash, Spend
  <2> QED BY <1>11, <2>1, Typed DEF Crash
<1>12. CASE Recover
  BY <1>12, KickType, RecoveredFacts DEF Recover, callVars
<1>13. CASE Sweep
  <2>1. row' \in [Instances -> Row]
    BY <1>0, <1>13, RowUpdates DEF Sweep
  <2> QED BY <1>13, <2>1 DEF Sweep, drainVars, callVars
<1>14. ASSUME NEW p \in Projects, Cancel(p) PROVE TypeOK' /\ SlotIsHeld'
  <2>1. used' \in [Kinds -> Nat]
    BY <1>14, UsesType DEF Cancel, Spend
  <2>2. CASE Entries(p) # {}
    <3>1. PICK n \in DOMAIN queue :
              /\ queue' = RemoveAt(queue, n) /\ flagged' = flagged
              /\ canceling' = [canceling EXCEPT ![p] = [pc |-> "mark", inst |-> queue[n]]]
      BY <1>14, <2>2, CancelTakes
    <3> QED BY <1>14, <2>1, <3>1, RemoveFacts, Typed DEF Cancel
  <2>3. CASE Entries(p) = {}
    <3>1. (active # None /\ Of(active) = p) \in BOOLEAN
      OBVIOUS
    <3>2. canceling' \in [Projects -> CancelCalls]
      BY <1>14, <2>3, <3>1, Typed DEF Cancel
    <3> QED BY <1>14, <2>1, <2>3, <3>2 DEF Cancel
  <2> QED BY <2>2, <2>3
<1>15. ASSUME NEW p \in Projects, CancelMark(p) PROVE TypeOK' /\ SlotIsHeld'
  <2>1. canceling[p].inst \in Instances
    BY <1>0, <1>15, Typed DEF CancelMark
  <2> QED BY <1>0, <1>15, <2>1, LogSteps, Typed DEF CancelMark, drainVars
<1>16. ASSUME NEW p \in Projects, CancelDesired(p) PROVE TypeOK' /\ SlotIsHeld'
  <2>1. [log |-> desired[p].serving, serving |-> desired[p].serving] \in Desired
    BY <1>0 DEF Desired
  <2>2. desired' \in [Projects -> Desired]
    BY <1>0, <1>16, <2>1, Typed DEF CancelDesired
  <2> QED BY <1>16, <2>2, Typed DEF CancelDesired, drainVars
<1>17. ASSUME NEW p \in Projects, CancelNode(p) PROVE TypeOK' /\ SlotIsHeld'
  <2>1. node' \in [Projects -> Node]
    BY <1>17 DEF CancelNode, Node
  <2> QED BY <1>17, <2>1, Typed DEF CancelNode, drainVars
<1>18. ASSUME NEW p \in Projects, CancelRows(p) PROVE TypeOK' /\ SlotIsHeld'
  <2>1. row' \in [Instances -> Row]
    BY <1>0, <1>18, RowUpdates DEF CancelRows
  <2> QED BY <1>18, <2>1, Typed DEF CancelRows, drainVars
<1>19. ASSUME NEW p \in Projects, NEW why \in {"teardown", "delete"}, Teardown(p, why)
       PROVE TypeOK' /\ SlotIsHeld'
  <2>1. used' \in [Kinds -> Nat]
    BY <1>19, UsesType DEF Teardown, Spend
  <2>2. row' \in [Instances -> Row]
    BY <1>0, <1>19, RowUpdates DEF Teardown
  <2>3. tearing' \in [Projects -> TeardownCalls]
    BY <1>19, Typed DEF Teardown
  <2> QED BY <1>19, <2>1, <2>2, <2>3 DEF Teardown, drainVars
<1>20. ASSUME NEW p \in Projects, TeardownClear(p) PROVE TypeOK' /\ SlotIsHeld'
  <2>1. row' \in [Instances -> Row]
    BY <1>0, <1>20, RowUpdates DEF TeardownClear
  <2>2. tearing' \in [Projects -> TeardownCalls] /\ desired' \in [Projects -> Desired]
    BY <1>20, Typed DEF TeardownClear
  <2> QED BY <1>20, <2>1, <2>2 DEF TeardownClear, drainVars
<1>21. ASSUME NEW p \in Projects, DeleteRows(p) PROVE TypeOK' /\ SlotIsHeld'
  BY <1>0, <1>21, Typed DEF DeleteRows, drainVars
<1>22. ASSUME NEW p \in Projects, DeleteProject(p) PROVE TypeOK' /\ SlotIsHeld'
  BY <1>0, <1>22, Typed DEF DeleteProject, drainVars
<1>23. ASSUME NEW p \in Projects, NodeStart(p) PROVE TypeOK' /\ SlotIsHeld'
  <2>1. desired[p].log \in Instances
    BY <1>0, <1>23 DEF NodeStart
  <2>2. [node[p] EXCEPT !.building = desired[p].log] \in Node
    BY <2>1 DEF Node
  <2>3. node' \in [Projects -> Node]
    BY <1>23, <2>2 DEF NodeStart
  <2> QED BY <1>0, <1>23, <2>1, <2>3, DeliverSteps DEF NodeStart, drainVars, callVars
<1>24. ASSUME NEW p \in Projects, NodeProgress(p) PROVE TypeOK' /\ SlotIsHeld'
  <2>1. node[p].building \in Instances
    BY <1>0, <1>24 DEF NodeProgress
  <2> QED BY <1>0, <1>24, <2>1, LogSteps DEF NodeProgress, drainVars, callVars
<1>25. ASSUME NEW p \in Projects, NodeDone(p) PROVE TypeOK' /\ SlotIsHeld'
  <2>1. node[p].building \in Instances
    BY <1>0, <1>25 DEF NodeDone
  <2>2. node' \in [Projects -> Node]
    BY <1>25, <2>1 DEF NodeDone, Node
  <2>3. desired' \in [Projects -> Desired]
    BY <1>25, <2>1 DEF NodeDone, Desired
  <2> QED BY <1>0, <1>25, <2>1, <2>2, <2>3, DeliverSteps DEF NodeDone, drainVars, callVars
<1>26. ASSUME NEW p \in Projects, NodeFails(p) PROVE TypeOK' /\ SlotIsHeld'
  <2>1. node[p].building \in Instances
    BY <1>0, <1>26 DEF NodeFails
  <2>2. node' \in [Projects -> Node]
    BY <1>26, <2>1, Typed DEF NodeFails, Node
  <2> QED BY <1>0, <1>26, <2>1, <2>2, DeliverSteps DEF NodeFails, drainVars, callVars
<1>27. CASE UNCHANGED vars
  BY <1>27 DEF vars, drainVars, callVars
<1> QED
  BY <1>1, <1>2, <1>3, <1>4, <1>5, <1>6, <1>7, <1>8, <1>9, <1>10, <1>11, <1>12, <1>13, <1>14,
     <1>15, <1>16, <1>17, <1>18, <1>19, <1>20, <1>21, <1>22, <1>23, <1>24, <1>25, <1>26, <1>27
     DEF Next, Enqueues, Drain, CancelStep, TeardownStep, NodeStep

-----------------------------------------------------------------------------
\* Nothing refers to an instance before it is created.
OnlyMade ==
    \A i \in Instances :
        Exists(i) \/ i \in Queued \cup {active} \cup flagged \cup Launched \/ BeingCancelled(i)
            => i <= made

\* An instance has one place: it waits once, or is active, or is being cancelled; and no
\* node hears of it before it is proposed.
EachOnce ==
    /\ IsInjective(queue)
    /\ ToSet(queue) \cap fresh = {}
    /\ active \notin Queued
    /\ \A i \in Queued : i \notin flagged /\ ~BeingCancelled(i)
    /\ ~BeingCancelled(active)
    /\ Held \cap Launched = {}

\* A QUEUED row is active, its cancel belongs to its project, and it has neither been
\* begun nor proposed.
RowsFollow ==
    /\ \A i \in Instances : row[i].state = "QUEUED" => row[i].active
    /\ \A i \in Instances : row[i].active => row[i].state # "NONE"
    /\ \A p \in Projects : canceling[p].pc = "mark" => Of(canceling[p].inst) = p
    /\ pc \in {"plan", "write", "await"} => row[active].state # "QUEUED"
    /\ \A i \in Launched : row[i].state # "QUEUED"

\* A project has one QUEUED row while its requests do not overlap.
OneWaiting ==
    Never({"overlap"}) =>
        \A i, j \in Instances :
            row[i].state = "QUEUED" /\ row[j].state = "QUEUED" /\ Of(i) = Of(j) => i = j

\* The instances that occupy their project for the duplicate check.
Occupied == Queued \cup (IF active = None THEN {} ELSE {active})

\* Without overlaps entries wait in the order of creation, the one about to be pushed
\* last, and a project occupies one place.
InOrder ==
    Never({"overlap"}) =>
        /\ fresh \subseteq {made}
        /\ Ascending(queue)
        /\ \A i, j \in Occupied : Of(i) = Of(j) => i = j

\* The queue, the slot and the rows agree.
Core == /\ OnlyMade /\ EachOnce /\ RowsFollow /\ QueuedRowIsOwned /\ OneWaiting /\ InOrder

\* The effect on the rows of every step but the creation of one.
RowsMove ==
    \A i \in Instances :
        /\ row'[i].project = row[i].project
        /\ row'[i].state # "NONE" => row[i].state # "NONE"
        /\ row'[i].state = "QUEUED" => row'[i] = row[i]
        /\ row'[i].state = "NONE" => row'[i] = row[i] \/ ~row'[i].active

\* A step that neither moves an entry nor starts a cancel.
Quiet ==
    /\ UNCHANGED <<queue, active, pc, flagged, fresh, made>>
    /\ RowsMove
    /\ Launched' \subseteq Launched
    /\ \A p \in Projects : canceling'[p].pc = "mark" => canceling'[p] = canceling[p]
    /\ \A p \in Projects : canceling[p].pc = "mark" =>
          canceling'[p] = canceling[p] \/ row'[canceling[p].inst].state # "QUEUED"
    /\ up' = "down" <=> up = "down"
    /\ used' \in [Kinds -> Nat] /\ \A k \in Kinds : used[k] <= used'[k]

\* An event that has not happened now had not happened before.
LEMMA NeverStays ==
    ASSUME used \in [Kinds -> Nat], used' \in [Kinds -> Nat], \A k \in Kinds : used[k] <= used'[k]
    PROVE  \A K \in SUBSET Kinds : Never(K)' => Never(K)
  BY DEF Never

\* A quiet step keeps the queue, the slot and the rows in agreement.
LEMMA QuietKeepsCore ==
    ASSUME TypeOK, SlotIsHeld, TypeOK', Quiet, Core
    PROVE  Core'
<1>0. /\ Queued' = Queued /\ Held' = Held /\ Occupied' = Occupied
      /\ \A i : BeingCancelled(i)' => BeingCancelled(i)
      /\ \A i \in Instances : Of(i)' = Of(i)
      /\ ToSet(queue)' = ToSet(queue) /\ Ascending(queue)' = Ascending(queue)
  BY DEF Quiet, Queued, Held, Occupied, BeingCancelled, RowsMove, Of
<1>n. /\ Never({"overlap"})' => Never({"overlap"})
      /\ Never({"crash"})' => Never({"crash"})
  BY NeverStays DEF Quiet, Kinds, TypeOK
<1>q. \A i \in Instances : row'[i].state = "QUEUED" => row'[i] = row[i]
  BY DEF Quiet, RowsMove
<1>1. OnlyMade'
  BY <1>0 DEF Core, OnlyMade, Quiet, RowsMove, Exists
<1>2. EachOnce'
  BY <1>0 DEF Core, EachOnce, Quiet
<1>3. RowsFollow'
  <2>0. \A p \in Projects : canceling[p].pc = "mark" => canceling[p].inst \in Instances
    BY Typed DEF TypeOK
  <2>1. \A p \in Projects : canceling'[p].pc = "mark" => row'[canceling'[p].inst].project = p
    BY <2>0 DEF Core, RowsFollow, Quiet, RowsMove, Of
  <2>2. pc' \in {"plan", "write", "await"} => row'[active'].state # "QUEUED"
    BY <1>q DEF Core, RowsFollow, Quiet, TypeOK, SlotIsHeld
  <2>3. \A i \in Launched' : row'[i].state # "QUEUED"
    BY <1>q DEF Core, RowsFollow, Quiet, Launched
  <2>4. \A i \in Instances : row'[i].state = "QUEUED" => row'[i].active
    BY <1>q DEF Core, RowsFollow
  <2>5. \A i \in Instances : row'[i].active => row'[i].state # "NONE"
    BY DEF Core, RowsFollow, Quiet, RowsMove
  <2> QED BY <2>1, <2>2, <2>3, <2>4, <2>5 DEF RowsFollow, Of
<1>4. QueuedRowIsOwned'
  <2> SUFFICES ASSUME Never({"overlap"})' \/ Never({"crash"})', up' # "down",
                      NEW i \in Instances, row'[i].state = "QUEUED"
               PROVE  \/ i \in Queued
                      \/ i = active /\ pc \in {"lookup", "start", "await"}
                      \/ BeingCancelled(i)'
    BY <1>0 DEF QueuedRowIsOwned, QueuedRowIsAlwaysOwned, Quiet, Queued
  <2>1. \/ i \in Queued
        \/ i = active /\ pc \in {"lookup", "start", "await"}
        \/ BeingCancelled(i)
    BY <1>n, <1>q DEF Core, QueuedRowIsOwned, QueuedRowIsAlwaysOwned, Quiet, Queued
  <2>2. BeingCancelled(i) => BeingCancelled(i)'
    BY DEF BeingCancelled, Quiet
  <2> QED BY <2>1, <2>2
<1>5. OneWaiting'
  BY <1>0, <1>n, <1>q DEF Core, OneWaiting, Of
<1>6. InOrder'
  <2>1. Occupied \subseteq Instances
    BY DEF Occupied, Queued, TypeOK, ToSet
  <2> QED BY <1>0, <1>n, <2>1 DEF Core, InOrder, Quiet
<1> QED
  BY <1>1, <1>2, <1>3, <1>4, <1>5, <1>6 DEF Core

\* A log entry settles one row at most, and an entry that settles the active
\* deployment for the first time resolves its waiter.
LEMMA LogMoves ==
    ASSUME TypeOK, NEW i \in Instances, NEW s \in States \ {"QUEUED"}, Log(i, s)
    PROVE  /\ RowsMove
           /\ \A j \in Instances \ {i} : row'[j] = row[j]
           /\ row[i].state # "NONE" => row'[i].state = s
           /\ row[i].state = "NONE" => row'[i].state = "NONE"
           /\ waiter' \in {waiter, "resolved"}
           /\ i = active /\ waiter' = "pending" /\ s \in Terminal => row'[i].state = row[i].state
<1>1. row[i] \in Row /\ Logged(row[i], s).project = row[i].project /\ Logged(row[i], s).state = s
  BY RowUpdates DEF TypeOK
<1>2. CASE Exists(i)
  <2>1. row' = [row EXCEPT ![i] = Logged(row[i], s)]
    BY <1>2 DEF Log
  <2>2. row'[i] = Logged(row[i], s) /\ \A j \in Instances \ {i} : row'[j] = row[j]
    BY <2>1 DEF TypeOK
  <2>3. RowsMove
    <3>1. s # "NONE" /\ s # "QUEUED"
      BY DEF States, Terminal
    <3> QED BY <1>1, <1>2, <2>2, <3>1 DEF RowsMove, Exists
  <2>4. waiter' \in {waiter, "resolved"}
    BY <1>2 DEF Log
  <2>5. i = active /\ waiter' = "pending" /\ s \in Terminal => row[i].state = s
    BY <1>2 DEF Log
  <2> QED BY <1>1, <1>2, <2>2, <2>3, <2>4, <2>5 DEF Exists
<1>3. CASE ~Exists(i)
  BY <1>3 DEF Log, RowsMove, Exists
<1> QED BY <1>2, <1>3

\* A step that writes no row moves none.
LEMMA SameRows == ASSUME UNCHANGED row PROVE RowsMove
  BY DEF RowsMove

\* The same of a report that may be lost.
LEMMA DeliverMoves ==
    ASSUME TypeOK, NEW i \in Instances, NEW s \in States \ {"QUEUED"}, Deliver(i, s)
    PROVE  /\ RowsMove
           /\ \A j \in Instances \ {i} : row'[j] = row[j]
           /\ waiter' \in {waiter, "resolved"}
           /\ i = active /\ waiter' = "pending" /\ s \in Terminal => row'[i].state = row[i].state
           /\ row'[i].state \in {row[i].state, s}
<1>1. CASE Log(i, s)
  BY <1>1, LogMoves
<1>2. CASE UNCHANGED <<row, waiter>>
  BY <1>2 DEF RowsMove
<1> QED BY <1>1, <1>2 DEF Deliver

\* Everything that leaves the queue and the slot alone, one call or report at a time.
QuietStep ==
    \/ QueueTimeout \/ Sweep \/ UNCHANGED vars
    \/ \E p \in Projects :
          \/ CancelStep(p) \/ TeardownStep(p) \/ NodeStep(p)
          \/ Teardown(p, "teardown") \/ Teardown(p, "delete")

\* Calls and reports that leave the queue and the slot alone are quiet.
LEMMA QuietSteps ==
    ASSUME TypeOK, Core, QuietStep
    PROVE  Quiet
<1> USE DEF TypeOK
<1>0. /\ {"DEPLOYED", "FAILED", "CANCELLED", "DEPLOYING"} \subseteq States \ {"QUEUED"}
      /\ \A k \in Kinds : used[k] <= used[k]
      /\ \A p \in Projects : /\ desired[p].log \in Instances \cup {None}
                             /\ node[p].building \in Instances \cup {None}
      /\ \A i \in Instances : row[i] \in Row
  BY DEF States, Terminal, Desired, Node
<1>1. CASE QueueTimeout
  BY <1>1, UsesType, SameRows DEF QueueTimeout, Spend, drainVars, callVars, Quiet, Launched
<1>2. CASE Sweep
  <2>1. RowsMove
    BY <1>0, <1>2 DEF Sweep, RowsMove, Row
  <2> QED BY <1>0, <1>2, <2>1 DEF Sweep, drainVars, callVars, Quiet, Launched
<1>3. CASE UNCHANGED vars
  BY <1>0, <1>3, SameRows DEF vars, drainVars, callVars, Quiet, Launched
<1>4. ASSUME NEW p \in Projects, CancelMark(p) PROVE Quiet
  <2>1. canceling[p].inst \in Instances
    BY <1>4, Typed DEF CancelMark
  <2>2. RowsMove /\ row'[canceling[p].inst].state # "QUEUED"
    BY <1>0, <1>4, <2>1, LogMoves DEF CancelMark
  <2> QED BY <1>0, <1>4, <2>2 DEF CancelMark, Idle, drainVars, Quiet, Launched
<1>5. ASSUME NEW p \in Projects, CancelDesired(p) PROVE Quiet
  <2>1. Launched' \subseteq Launched
    BY <1>5, Typed DEF CancelDesired, Launched, NoDesired
  <2> QED BY <1>0, <1>5, <2>1, SameRows DEF CancelDesired, drainVars, Quiet
<1>6. ASSUME NEW p \in Projects, CancelNode(p) PROVE Quiet
  <2>1. Launched' \subseteq Launched
    BY <1>6 DEF CancelNode, Launched, Node
  <2> QED BY <1>0, <1>6, <2>1, SameRows DEF CancelNode, drainVars, Quiet
<1>7. ASSUME NEW p \in Projects, CancelRows(p) PROVE Quiet
  <2>1. RowsMove
    <3>1. \A i \in Instances :
             \/ row'[i] = row[i]
             \/ row[i].state \in {"QUEUED", "DEPLOYING"} /\ row'[i] = Logged(row[i], "CANCELLED")
      BY <1>7 DEF CancelRows
    <3>2. \A i \in Instances : /\ Logged(row[i], "CANCELLED").project = row[i].project
                              /\ Logged(row[i], "CANCELLED").state = "CANCELLED"
      BY <1>0, RowUpdates
    <3> QED BY <3>1, <3>2 DEF RowsMove
  <2> QED BY <1>0, <1>7, <2>1 DEF CancelRows, Idle, drainVars, Quiet, Launched
<1>8. ASSUME NEW p \in Projects, NEW why \in {"teardown", "delete"}, Teardown(p, why) PROVE Quiet
  <2>1. RowsMove
    <3>1. \A i \in Instances :
             row'[i] = row[i] \/ row'[i] = [row[i] EXCEPT !.state = "DESTROYING", !.active = FALSE]
      BY <1>8 DEF Teardown
    <3>2. \A i \in Instances : row'[i].state # "NONE" => row[i].state # "NONE"
      BY <1>8, <3>1 DEF Teardown, Core, RowsFollow
    <3>3. \A r \in Row : LET d == [r EXCEPT !.state = "DESTROYING", !.active = FALSE]
                         IN  d.project = r.project /\ d.state = "DESTROYING"
      BY DEF Row
    <3> QED BY <1>0, <3>1, <3>2, <3>3 DEF RowsMove
  <2> QED BY <1>8, <2>1, UsesType DEF Teardown, Spend, drainVars, Quiet, Launched
<1>9. ASSUME NEW p \in Projects, TeardownClear(p) PROVE Quiet
  <2>1. RowsMove
    BY <1>0, <1>9 DEF TeardownClear, RowsMove, Row, Exists
  <2>2. Launched' \subseteq Launched
    BY <1>9, Typed DEF TeardownClear, Launched, NoDesired
  <2> QED BY <1>0, <1>9, <2>1, <2>2 DEF TeardownClear, drainVars, Quiet
<1>10. ASSUME NEW p \in Projects, DeleteRows(p) PROVE Quiet
  <2>1. RowsMove
    BY <1>0, <1>10 DEF DeleteRows, RowsMove, NoRow, Of
  <2> QED BY <1>0, <1>10, <2>1 DEF DeleteRows, drainVars, Quiet, Launched
<1>11. ASSUME NEW p \in Projects, DeleteProject(p) PROVE Quiet
  <2>1. Launched' \subseteq Launched
    BY <1>11, Typed DEF DeleteProject, Launched, NoDesired
  <2> QED BY <1>0, <1>11, <2>1, SameRows DEF DeleteProject, drainVars, Quiet
<1>12. ASSUME NEW p \in Projects, NodeStart(p) PROVE Quiet
  <2>1. desired[p].log \in Instances
    BY <1>0, <1>12 DEF NodeStart
  <2>2. RowsMove
    BY <1>0, <1>12, <2>1, DeliverMoves DEF NodeStart
  <2>3. Launched' \subseteq Launched
    BY <1>12 DEF NodeStart, Launched, Node
  <2> QED BY <1>0, <1>12, <2>2, <2>3 DEF NodeStart, drainVars, callVars, Quiet
<1>13. ASSUME NEW p \in Projects, NodeProgress(p) PROVE Quiet
  <2>1. RowsMove
    BY <1>0, <1>13, LogMoves DEF NodeProgress
  <2> QED BY <1>0, <1>13, <2>1 DEF NodeProgress, drainVars, callVars, Quiet, Launched
<1>14. ASSUME NEW p \in Projects, NodeDone(p) PROVE Quiet
  <2>1. node[p].building \in Instances
    BY <1>0, <1>14 DEF NodeDone
  <2>2. RowsMove
    BY <1>0, <1>14, <2>1, DeliverMoves DEF NodeDone
  <2>3. Launched' \subseteq Launched
    BY <1>14, Typed DEF NodeDone, Launched, Node, Desired
  <2> QED BY <1>0, <1>14, <2>2, <2>3 DEF NodeDone, drainVars, callVars, Quiet
<1>15. ASSUME NEW p \in Projects, NodeFails(p) PROVE Quiet
  <2>1. node[p].building \in Instances
    BY <1>0, <1>15 DEF NodeFails
  <2>2. RowsMove
    BY <1>0, <1>15, <2>1, DeliverMoves DEF NodeFails
  <2>3. Launched' \subseteq Launched
    BY <1>15, Typed DEF NodeFails, Launched, Node
  <2> QED BY <1>0, <1>15, <2>2, <2>3 DEF NodeFails, drainVars, callVars, Quiet
<1> QED
  BY <1>1, <1>2, <1>3, <1>4, <1>5, <1>6, <1>7, <1>8, <1>9, <1>10, <1>11, <1>12, <1>13, <1>14, <1>15
     DEF QuietStep, CancelStep, TeardownStep, NodeStep

\* What a queue must be like for the drain loop to go on from it.
Feeds(q) ==
    /\ q \in Seq(Instances) /\ IsInjective(q)
    /\ ToSet(q) \cap fresh' = {}
    /\ active \notin ToSet(q) \cup fresh'
    /\ \A i \in ToSet(q) \cup fresh' :
          i <= made /\ i \notin flagged /\ ~BeingCancelled(i) /\ i \notin Launched
    /\ Never({"overlap"}) \/ Never({"crash"}) =>
          \A i \in Instances : row[i].state = "QUEUED" =>
             \/ i \in ToSet(q) \cup fresh'
             \/ i = active /\ pc \in {"lookup", "start", "await"}
             \/ BeingCancelled(i)
    /\ Never({"overlap"}) =>
          /\ fresh' \subseteq {made} /\ Ascending(q)
          /\ \A i, j \in ToSet(q) \cup fresh' \cup (IF active = None THEN {} ELSE {active}) :
                Of(i) = Of(j) => i = j

\* Either nothing but the queue changes, or its first entry takes the free slot.
LEMMA FeedSteps ==
    ASSUME TypeOK, SlotIsHeld, NEW q, Feeds(q),
           Kick(q) \/ (pc = "delay" /\ q # <<>> /\ Take(q))
    PROVE  \/ UNCHANGED <<active, pc, flagged>> /\ queue' = q
           \/ /\ active = None /\ pc' = "lookup" /\ flagged' = flagged
              /\ active' \in Instances /\ active' # None
              /\ queue' \in Seq(Instances) /\ IsInjective(queue')
              /\ ToSet(q) = ToSet(queue') \cup {active'} /\ active' \notin ToSet(queue')
              /\ Ascending(q) => Ascending(queue') /\ \A i \in ToSet(q) : active' <= i
<1>1. CASE UNCHANGED <<active, pc, flagged>> /\ queue' = q
  BY <1>1
<1>2. CASE q # <<>> /\ pc \in {"off", "delay"} /\ Take(q)
  <2>1. q \in Seq(Instances) /\ IsInjective(q)
    BY DEF Feeds
  <2>2. /\ Tail(q) \in Seq(Instances) /\ Head(q) \in Instances
        /\ ToSet(q) = ToSet(Tail(q)) \cup {Head(q)} /\ Head(q) \notin ToSet(Tail(q))
        /\ IsInjective(Tail(q))
        /\ Ascending(q) => Ascending(Tail(q)) /\ \A x \in ToSet(q) : Head(q) <= x
    BY <1>2, <2>1, TailFacts
  <2>3. Head(q) \notin flagged
    BY <2>2 DEF Feeds
  <2>4. active' = Head(q) /\ pc' = "lookup" /\ flagged' = flagged /\ queue' = Tail(q)
    BY <1>2, <2>3 DEF Take
  <2> QED BY <1>2, <2>2, <2>4, Typed DEF SlotIsHeld
<1> QED BY <1>1, <1>2 DEF Kick

\* A queue that may be drained still agrees with the rows after the drain loop has
\* taken its first entry.
LEMMA FeedKeepsCore ==
    ASSUME TypeOK, SlotIsHeld, Core, NEW q, Feeds(q),
           Kick(q) \/ (pc = "delay" /\ q # <<>> /\ Take(q)),
           fresh' \subseteq fresh, UNCHANGED <<row, made, desired, node, canceling, used>>
    PROVE  Core'
<1>0. /\ Launched' = Launched /\ \A i : BeingCancelled(i)' = BeingCancelled(i)
      /\ \A i : Of(i)' = Of(i) /\ Exists(i)' = Exists(i)
      /\ \A K : Never(K)' = Never(K)
  BY DEF Launched, BeingCancelled, Of, Exists, Never
<1>q. \A i \in Queued' : i \in ToSet(q) \cup fresh'
  BY FeedSteps DEF Queued
<1>a. /\ active' = active \/ active' \in ToSet(q)
      /\ active' # None => active' \notin Queued'
      /\ flagged' = flagged /\ IsInjective(queue')
  BY FeedSteps DEF Queued, Feeds
<1>o. Occupied' = ToSet(q) \cup fresh' \cup (IF active = None THEN {} ELSE {active})
  BY FeedSteps DEF Queued, Occupied
<1>1. OnlyMade'
  BY <1>0, <1>q, <1>a DEF Core, OnlyMade, Feeds
<1>2. EachOnce'
  <2>1. ToSet(queue)' \cap fresh' = {}
    BY FeedSteps DEF Feeds
  <2>2. active' \notin Queued'
    BY <1>a, <1>q, Typed DEF Feeds, TypeOK, ToSet
  <2>3. \A i \in Queued' : i \notin flagged' /\ ~BeingCancelled(i)'
    BY <1>0, <1>a, <1>q DEF Feeds
  <2>4. ~BeingCancelled(active)'
    BY <1>0, <1>a DEF Feeds, Core, EachOnce, BeingCancelled
  <2>5. Held' \cap Launched' = {}
    BY <1>0, <1>q, FeedSteps DEF Held, Feeds, Core, EachOnce
  <2> QED BY <1>a, <2>1, <2>2, <2>3, <2>4, <2>5 DEF EachOnce
<1>3. RowsFollow'
  BY <1>0, FeedSteps DEF Core, RowsFollow
<1>4. QueuedRowIsOwned'
  <2> SUFFICES ASSUME Never({"overlap"}) \/ Never({"crash"}), NEW i \in Instances, row[i].state = "QUEUED"
               PROVE  \/ i \in ToSet(queue') \cup fresh'
                      \/ i = active' /\ pc' \in {"lookup", "start", "await"}
                      \/ BeingCancelled(i)
    BY <1>0 DEF QueuedRowIsOwned, QueuedRowIsAlwaysOwned
  <2>1. \/ i \in ToSet(q) \cup fresh'
        \/ i = active /\ pc \in {"lookup", "start", "await"}
        \/ BeingCancelled(i)
    BY DEF Feeds
  <2> QED BY <2>1, FeedSteps, Typed
<1>5. OneWaiting'
  BY <1>0 DEF Core, OneWaiting
<1>6. InOrder'
  BY <1>0, <1>o, FeedSteps DEF InOrder, Feeds
<1> QED
  BY <1>1, <1>2, <1>3, <1>4, <1>5, <1>6 DEF Core

\* A leader that is down has forgotten its calls; one that is not up has crashed.
Stopped ==
    /\ up = "down" =>
          /\ queue = <<>> /\ pc = "off" /\ flagged = {} /\ fresh = {}
          /\ \A p \in Projects : canceling[p] = Idle /\ tearing[p] = Idle
    /\ up # "up" => ~Never({"crash"})

\* enqueueDeploy: the duplicate check finds whatever a row of the project belongs to.
LEMMA EnqueueKeepsCore ==
    ASSUME TypeOK, SlotIsHeld, Core, NEW p \in Projects, Enqueue(p), TypeOK'
    PROVE  Core'
<1> DEFINE n == made + 1
<1>0. /\ n \in Instances /\ n # None /\ made \in Nat
      /\ made' = n /\ fresh' = fresh \cup {n} /\ UNCHANGED <<queue, active, pc, flagged, desired, node, canceling>>
      /\ row' = [row EXCEPT ![n] = [project |-> p, state |-> "QUEUED", active |-> TRUE]]
  BY MaxInstAssumption DEF Enqueue, TypeOK, Instances, None, drainVars, callVars
<1>r. /\ row'[n] = [project |-> p, state |-> "QUEUED", active |-> TRUE]
      /\ \A i \in Instances \ {n} : row'[i] = row[i]
  BY <1>0 DEF TypeOK
<1>l. Launched' = Launched /\ \A i : BeingCancelled(i)' = BeingCancelled(i)
  BY <1>0 DEF Launched, BeingCancelled
<1>m. /\ \A i \in Instances : i <= made => i # n /\ i <= made'
      /\ n \notin Queued /\ n # active /\ n \notin flagged /\ n \notin Launched /\ ~BeingCancelled(n)
      /\ ~Exists(n)
  BY <1>0 DEF Core, OnlyMade, Instances
<1>q. Queued' = Queued \cup {n}
  BY <1>0 DEF Queued
<1>1. OnlyMade'
  BY <1>0, <1>r, <1>l, <1>m, <1>q DEF Core, OnlyMade, Exists
<1>2. EachOnce'
  BY <1>0, <1>l, <1>m, <1>q DEF Core, EachOnce, Held, Queued
<1>3. RowsFollow'
  <2>1. \A i \in Instances : /\ row'[i].state = "QUEUED" => row'[i].active
                             /\ row'[i].active => row'[i].state # "NONE"
    BY <1>r DEF Core, RowsFollow
  <2>2. ASSUME NEW r \in Projects, canceling'[r].pc = "mark" PROVE row'[canceling'[r].inst].project = r
    <3>1. canceling[r].inst \in Instances /\ BeingCancelled(canceling[r].inst)
      BY <1>0, <2>2, Typed DEF TypeOK, BeingCancelled
    <3>2. canceling[r].inst # n
      BY <1>m, <3>1
    <3> QED BY <1>0, <1>r, <2>2, <3>1, <3>2 DEF Core, RowsFollow, Of
  <2>3. pc' \in {"plan", "write", "await"} => row'[active'].state # "QUEUED"
    BY <1>0, <1>r, <1>m DEF Core, RowsFollow, TypeOK, SlotIsHeld
  <2>4. \A i \in Launched' : row'[i].state # "QUEUED"
    BY <1>r, <1>l, <1>m DEF Core, RowsFollow, Launched
  <2> QED BY <2>1, <2>2, <2>3, <2>4 DEF RowsFollow, Of
<1>u. /\ Never({"overlap"})' => Never({"overlap"}) /\ fresh = {} /\ canceling[p].pc # "mark"
      /\ Never({"crash"})' => Never({"crash"})
      /\ up = "up"
  <2>1. \A k \in Kinds : used[k] <= used'[k]
    BY UsesType DEF Enqueue, TypeOK
  <2>2. used'["overlap"] = 0 => fresh = {} /\ canceling[p].pc # "mark"
    BY UsesType DEF Enqueue, TypeOK, Kinds
  <2> QED BY <2>1, <2>2, NeverStays DEF Enqueue, TypeOK, Never, Kinds
<1>4. QueuedRowIsOwned'
  <2> SUFFICES ASSUME Never({"overlap"})' \/ Never({"crash"})', NEW i \in Instances, row'[i].state = "QUEUED"
               PROVE  \/ i \in Queued'
                      \/ i = active /\ pc \in {"lookup", "start", "await"}
                      \/ BeingCancelled(i)
    BY <1>0, <1>l DEF QueuedRowIsOwned, QueuedRowIsAlwaysOwned, Queued
  <2>1. CASE i = n
    BY <1>q, <2>1
  <2>2. CASE i # n
    BY <1>q, <1>r, <1>u, <2>2 DEF Core, QueuedRowIsOwned, QueuedRowIsAlwaysOwned, Queued
  <2> QED BY <2>1, <2>2
\* an entry, the slot or a pending cancel of p would have been noticed
<1>5. OneWaiting'
  <2> SUFFICES ASSUME Never({"overlap"})', NEW i \in Instances, row'[i].state = "QUEUED",
                      row'[i].project = p, i # n
               PROVE  FALSE
    BY <1>r, <1>u DEF Core, OneWaiting, Of
  <2>1. row[i].state = "QUEUED" /\ Of(i) = p
    BY <1>r DEF Of
  <2>2. \/ i \in ToSet(queue)
        \/ i = active
        \/ BeingCancelled(i)
    BY <1>u, <2>1 DEF Core, QueuedRowIsOwned, QueuedRowIsAlwaysOwned
  <2>3. Entries(p) = {} /\ ~(active # None /\ Of(active) = p)
    BY DEF Enqueue, IsDuplicate
  <2>4. i \notin ToSet(queue)
    BY <2>1, <2>3 DEF Entries, ToSet
  <2>5. i # active
    BY <2>1, <2>3, Typed
  <2>6. ~BeingCancelled(i)
    BY <1>u, <2>1 DEF Core, RowsFollow, BeingCancelled
  <2> QED BY <2>2, <2>4, <2>5, <2>6
<1>6. InOrder'
  <2> SUFFICES ASSUME Never({"overlap"})' PROVE InOrder'
    BY DEF InOrder
  <2>1. fresh = {} /\ fresh' = {n} /\ Ascending(queue)'
    BY <1>0, <1>u DEF Core, InOrder
  <2>2. Occupied' = Occupied \cup {n} /\ Occupied \subseteq Instances /\ n \notin Occupied
    BY <1>0, <1>m, <1>q DEF Occupied, Queued, TypeOK, ToSet
  <2>3. \A i \in Occupied : Of(i) # p
    <3>1. Entries(p) = {} /\ ~(active # None /\ Of(active) = p)
      BY DEF Enqueue, IsDuplicate
    <3> QED BY <2>1, <3>1 DEF Occupied, Queued, Entries, ToSet
  <2>4. \A i \in Occupied : row'[i].project = Of(i)
    BY <1>r, <2>2 DEF Of
  <2>5. \A i, j \in Occupied : Of(i) = Of(j) => i = j
    BY <1>u DEF Core, InOrder
  <2>6. \A i, j \in Occupied' : row'[i].project = row'[j].project => i = j
    BY <1>r, <2>2, <2>3, <2>4, <2>5
  <2> QED BY <1>0, <2>1, <2>6 DEF InOrder, Of
<1> QED
  BY <1>1, <1>2, <1>3, <1>4, <1>5, <1>6 DEF Core

\* The push of enqueueDeploy: the new entry is the last one requested.
LEMMA PushKeepsCore ==
    ASSUME TypeOK, SlotIsHeld, Core, Stopped, NEW i \in fresh, Push(i)
    PROVE  Feeds(Append(queue, i)) /\ Core'
<1> DEFINE q == Append(queue, i)
<1>0. i \in Instances /\ i \in Queued /\ fresh' = fresh \ {i} /\ up # "down"
  BY DEF Push, TypeOK, Queued, Stopped
<1>1. /\ q \in Seq(Instances) /\ ToSet(q) = ToSet(queue) \cup {i} /\ IsInjective(q)
      /\ Ascending(queue) /\ (\A x \in ToSet(queue) : x < i) => Ascending(q)
  BY <1>0, AppendFacts DEF TypeOK, Core, EachOnce
<1> HIDE DEF q
<1>2. ToSet(q) \cup fresh' = Queued
  BY <1>0, <1>1 DEF Queued
<1>3. Queued \subseteq Instances /\ active \notin Queued /\ ToSet(q) \cap fresh' = {}
  <2>1. ToSet(queue) \subseteq Instances
    BY DEF TypeOK, ToSet
  <2> QED BY <1>0, <1>1, <2>1 DEF Queued, TypeOK, Core, EachOnce
<1>4. \A j \in Queued : j <= made /\ j \notin flagged /\ ~BeingCancelled(j) /\ j \notin Launched
  BY <1>3 DEF Core, OnlyMade, EachOnce, Held
<1>5. Never({"overlap"}) \/ Never({"crash"}) =>
          \A j \in Instances : row[j].state = "QUEUED" =>
             \/ j \in Queued
             \/ j = active /\ pc \in {"lookup", "start", "await"}
             \/ BeingCancelled(j)
  BY <1>0 DEF Core, QueuedRowIsOwned, QueuedRowIsAlwaysOwned, Queued
<1>6. ASSUME Never({"overlap"}) PROVE fresh' \subseteq {made} /\ Ascending(q)
  <2>1. i = made /\ Ascending(queue)
    BY <1>6 DEF Core, InOrder
  <2>2. \A x \in ToSet(queue) : x <= made /\ x # made /\ x \in Nat /\ made \in Nat
    BY <1>3, <1>4, <2>1, MaxInstAssumption DEF Queued, Core, EachOnce, Instances, TypeOK
  <2>3. \A x \in ToSet(queue) : x < i
    BY <2>1, <2>2
  <2> QED BY <1>0, <1>1, <1>6, <2>1, <2>3 DEF Core, InOrder
<1>7. Never({"overlap"}) =>
         \A j, k \in Queued \cup (IF active = None THEN {} ELSE {active}) : Of(j) = Of(k) => j = k
  BY DEF Core, InOrder, Occupied
<1>8. Feeds(q)
  BY <1>1, <1>2, <1>3, <1>4, <1>5, <1>6, <1>7 DEF Feeds
<1>9. Kick(q)
  BY DEF Push, q
<1>10. fresh' \subseteq fresh /\ UNCHANGED <<row, made, desired, node, canceling, used>>
  BY DEF Push, callVars
<1>11. Core'
  BY <1>8, <1>9, <1>10, FeedKeepsCore
<1> QED
  BY <1>8, <1>11 DEF q

\* The drain loop goes on after the settle delay.
LEMMA WakeKeepsCore ==
    ASSUME TypeOK, SlotIsHeld, Core, Stopped, Wake, queue # <<>>
    PROVE  Feeds(queue) /\ Core'
<1>1. UNCHANGED <<fresh, row, made, desired, node, canceling, used>> /\ pc = "delay" /\ Take(queue)
  BY DEF Wake, callVars
<1>2. Queued \subseteq Instances /\ up # "down"
  BY <1>1 DEF Queued, TypeOK, ToSet, Stopped
<1>3. Feeds(queue)
  BY <1>1, <1>2 DEF Feeds, TypeOK, Core, OnlyMade, EachOnce, Held, Queued, QueuedRowIsOwned,
                    QueuedRowIsAlwaysOwned, InOrder, Occupied
<1> QED
  BY <1>1, <1>3, FeedKeepsCore

\* recoverDeployQueue: the oldest QUEUED rows are all the QUEUED rows while requests
\* do not overlap.
LEMMA RecoverKeepsCore ==
    ASSUME TypeOK, SlotIsHeld, Core, Stopped, Recover
    PROVE  Feeds(Recovered) /\ Core'
<1>0. /\ queue = <<>> /\ pc = "off" /\ flagged = {} /\ fresh = {} /\ fresh' = {} /\ active = None
      /\ \A p \in Projects : canceling[p] = Idle
      /\ ~Never({"crash"})
  BY DEF Recover, Stopped, SlotIsHeld
<1>1. \A i : ~BeingCancelled(i)
  BY <1>0 DEF BeingCancelled, Idle
<1>2. /\ Recovered \in Seq(Instances) /\ IsInjective(Recovered) /\ Ascending(Recovered)
      /\ ToSet(Recovered) = OldestWaiting
  BY RecoveredFacts
<1>3. \A i \in OldestWaiting : i \in Instances /\ row[i].state = "QUEUED" /\ i <= made /\ i \notin Launched
  BY DEF OldestWaiting, Waiting, Core, OnlyMade, Exists, RowsFollow
<1>4. None \notin OldestWaiting
  BY <1>3, Typed
<1>5. ASSUME Never({"overlap"}), NEW i \in Instances, row[i].state = "QUEUED" PROVE i \in OldestWaiting
  <2>1. i \in Waiting /\ i <= i
    BY <1>5, MaxInstAssumption DEF Waiting, Core, RowsFollow, Instances
  <2>2. \A j \in Waiting : Of(j) = Of(i) => j = i
    BY <1>5 DEF Waiting, Core, OneWaiting
  <2> QED BY <2>1, <2>2 DEF OldestWaiting
<1>6. \A i, j \in OldestWaiting : Of(i) = Of(j) => i = j
  BY <1>3, MaxInstAssumption DEF OldestWaiting, Waiting, Instances
<1>7. Feeds(Recovered)
  BY <1>0, <1>1, <1>2, <1>3, <1>4, <1>5, <1>6 DEF Feeds
<1>8. Kick(Recovered) /\ UNCHANGED <<fresh, row, made, desired, node, canceling, used>>
  BY DEF Recover, callVars
<1> QED
  BY <1>7, <1>8, FeedKeepsCore

\* A crash forgets the queue and every call, and leaves the rows.
LEMMA CrashKeepsCore ==
    ASSUME TypeOK, SlotIsHeld, Core, Crash
    PROVE  Core'
<1>0. /\ queue' = <<>> /\ active' = None /\ pc' = "off" /\ flagged' = {} /\ fresh' = {} /\ up' = "down"
      /\ UNCHANGED <<row, made, desired, node>>
      /\ \A p \in Projects : canceling'[p].pc # "mark"
      /\ \A k \in Kinds : used[k] <= used'[k]
  BY UsesType DEF Crash, Spend, Idle, TypeOK
<1>1. /\ Queued' = {} /\ Held' = {} /\ Occupied' = {} /\ Launched' = Launched
      /\ IsInjective(queue') /\ Ascending(queue') /\ ToSet(queue') = {}
      /\ \A i : ~BeingCancelled(i)'
  <2>1. ToSet(<<>>) = {} /\ IsInjective(<<>>) /\ Ascending(<<>>)
    BY DEF ToSet, IsInjective, Ascending
  <2>2. Launched' = Launched /\ \A i : ~BeingCancelled(i)'
    BY <1>0 DEF Launched, BeingCancelled
  <2>3. Queued' = {}
    BY <1>0, <2>1 DEF Queued
  <2>4. Held' = {} /\ Occupied' = {}
    BY <1>0, <2>3 DEF Held, Occupied, Unproposed
  <2> QED BY <1>0, <2>1, <2>2, <2>3, <2>4
<1>2. Never({"overlap"})' => Never({"overlap"})
  BY <1>0, UsesType, NeverStays DEF Crash, Spend, TypeOK, Kinds
<1>3. OnlyMade'
  BY <1>0, <1>1, Typed DEF Core, OnlyMade, Exists
<1>4. EachOnce'
  BY <1>0, <1>1 DEF EachOnce
<1>5. RowsFollow'
  BY <1>0, <1>1 DEF Core, RowsFollow
<1>6. QueuedRowIsOwned'
  BY <1>0 DEF QueuedRowIsOwned, QueuedRowIsAlwaysOwned
<1>7. OneWaiting'
  BY <1>0, <1>2 DEF Core, OneWaiting, Of
<1>8. InOrder'
  BY <1>0, <1>1 DEF InOrder
<1> QED
  BY <1>3, <1>4, <1>5, <1>6, <1>7, <1>8 DEF Core

-----------------------------------------------------------------------------
\* A step of the drain loop between the start and the end of one deployment.
LEMMA SlotStepKeepsCore ==
    ASSUME TypeOK, SlotIsHeld, Core, active # None,
           UNCHANGED <<queue, fresh, made, canceling, up, used>>, RowsMove,
           flagged' \subseteq flagged, active' \in {active, None},
           Launched' \subseteq Launched \cup {active},
           active \in Launched' => pc' \notin Unproposed,
           pc' \in Unproposed => pc \in Unproposed /\ active' = active,
           row'[active].state = "QUEUED" =>
              active' = active /\ pc' \in {"lookup", "start"} /\ active \notin Launched',
           active' = None => pc' \in {"off", "delay"}
    PROVE  Core'
<1>0. /\ Queued' = Queued /\ \A i : BeingCancelled(i)' = BeingCancelled(i)
      /\ active \in Instances /\ active \notin Queued
      /\ \A i \in Instances : Of(i)' = Of(i)
      /\ \A K : Never(K)' = Never(K)
  BY DEF Queued, BeingCancelled, TypeOK, Core, EachOnce, RowsMove, Of, Never
<1>q. \A i \in Instances : row'[i].state = "QUEUED" => row'[i] = row[i]
  BY DEF RowsMove
<1>1. OnlyMade'
  BY <1>0, Typed DEF Core, OnlyMade, RowsMove, Exists
<1>2. EachOnce'
  <2>1. Held' \cap Launched' = {}
    BY <1>0 DEF Core, EachOnce, Held
  <2>2. ~BeingCancelled(active)' /\ active' \notin Queued'
    <3>1. ~BeingCancelled(None)
      BY Typed DEF BeingCancelled, TypeOK
    <3>2. None \notin Queued
      BY Typed DEF Queued, TypeOK, ToSet
    <3> QED BY <1>0, <3>1, <3>2 DEF Core, EachOnce, BeingCancelled
  <2> QED BY <1>0, <2>1, <2>2 DEF Core, EachOnce
<1>3. RowsFollow'
  <2>1. \A i \in Instances : /\ row'[i].state = "QUEUED" => row'[i].active
                             /\ row'[i].active => row'[i].state # "NONE"
    BY <1>q DEF Core, RowsFollow, RowsMove
  <2>2. ASSUME NEW p \in Projects, canceling'[p].pc = "mark" PROVE row'[canceling'[p].inst].project = p
    BY <1>0, <2>2, Typed DEF Core, RowsFollow, RowsMove, Of, TypeOK
  <2>3. pc' \in {"plan", "write", "await"} => row'[active'].state # "QUEUED"
    OBVIOUS
  <2>4. \A i \in Launched' : row'[i].state # "QUEUED"
    BY <1>q DEF Core, RowsFollow, Launched
  <2> QED BY <2>1, <2>2, <2>3, <2>4 DEF RowsFollow, Of
<1>4. QueuedRowIsOwned'
  <2> SUFFICES ASSUME Never({"overlap"}) \/ Never({"crash"}), up # "down",
                      NEW i \in Instances, row'[i].state = "QUEUED"
               PROVE  \/ i \in ToSet(queue) \cup fresh
                      \/ i = active' /\ pc' \in {"lookup", "start", "await"}
                      \/ BeingCancelled(i)
    BY <1>0 DEF QueuedRowIsOwned, QueuedRowIsAlwaysOwned
  <2>1. \/ i \in ToSet(queue) \cup fresh
        \/ i = active /\ pc \in {"lookup", "start", "await"}
        \/ BeingCancelled(i)
    BY <1>q DEF Core, QueuedRowIsOwned, QueuedRowIsAlwaysOwned
  <2> QED BY <2>1
<1>5. OneWaiting'
  BY <1>0, <1>q DEF Core, OneWaiting, Of
<1>6. InOrder'
  <2>1. Occupied' \subseteq Occupied /\ Occupied \subseteq Instances
    BY <1>0 DEF Occupied, Queued, TypeOK, ToSet
  <2>2. ToSet(queue)' = ToSet(queue) /\ Ascending(queue)' = Ascending(queue)
    OBVIOUS
  <2> QED BY <1>0, <2>1, <2>2 DEF Core, InOrder
<1> QED
  BY <1>1, <1>2, <1>3, <1>4, <1>5, <1>6 DEF Core

\* Each step of the drain loop and of deployProject is such a step.
LEMMA DrainKeepsCore ==
    ASSUME TypeOK, SlotIsHeld, Core,
           RegisterWaiter \/ Begin \/ PlanFails \/ Plan \/ Propose \/ Complete
    PROVE  Core'
<1>0. active # None /\ active \in Instances
  BY DEF RegisterWaiter, Begin, PlanFails, Plan, Propose, Complete, SlotIsHeld, TypeOK
<1>s. {"FAILED", "CANCELLED"} \subseteq States \ {"QUEUED"}
  BY DEF States, Terminal
<1>1. CASE RegisterWaiter
  <2>1. active \notin Launched
    BY <1>1 DEF RegisterWaiter, Core, EachOnce, Held, Unproposed
  <2> QED BY <1>0, <1>1, <2>1, SameRows, SlotStepKeepsCore DEF RegisterWaiter, Unproposed, Launched, callVars
<1>2. CASE Begin
  <2>1. active \notin Launched
    BY <1>2 DEF Begin, Core, EachOnce, Held, Unproposed
  <2>2. RowsMove /\ row'[active].state # "QUEUED"
    <3>1. CASE Exists(active)
      <4>1. row' = [row EXCEPT ![active].state = "DEPLOYING"] /\ row[active] \in Row
        BY <1>0, <1>2, <3>1 DEF Begin, Marked, TypeOK
      <4>2. row'[active].state = "DEPLOYING" /\ row'[active].project = row[active].project
            /\ \A i \in Instances \ {active} : row'[i] = row[i]
        BY <1>0, <4>1 DEF TypeOK, Row
      <4> QED BY <3>1, <4>2 DEF RowsMove, Exists
    <3>2. CASE ~Exists(active)
      BY <1>2, <3>2, SameRows DEF Begin, Marked, Exists
    <3> QED BY <3>1, <3>2
  <2> QED BY <1>0, <1>2, <2>1, <2>2, SlotStepKeepsCore DEF Begin, Unproposed, Launched, callVars
<1>3. CASE PlanFails
  <2>1. active \notin Launched
    BY <1>3 DEF PlanFails, Core, EachOnce, Held, Unproposed
  <2>2. RowsMove /\ row'[active].state # "QUEUED"
    BY <1>0, <1>s, <1>3, LogMoves DEF PlanFails
  <2> QED BY <1>0, <1>3, <2>1, <2>2, SlotStepKeepsCore DEF PlanFails, Unproposed, Launched, callVars
<1>4. CASE Plan
  <2>1. active \notin Launched
    BY <1>4 DEF Plan, Core, EachOnce, Held, Unproposed
  <2>2. RowsMove /\ row'[active].state # "QUEUED"
    <3>1. CASE active \in flagged
      BY <1>0, <1>s, <1>4, <3>1, LogMoves DEF Plan
    <3>2. CASE active \notin flagged
      BY <1>4, <3>2, SameRows DEF Plan, Core, RowsFollow
    <3> QED BY <3>1, <3>2
  <2> QED BY <1>0, <1>4, <2>1, <2>2, SlotStepKeepsCore DEF Plan, Unproposed, Launched, callVars
<1>5. CASE Propose
  <2>1. row'[active].state # "QUEUED"
    BY <1>5 DEF Propose, Core, RowsFollow
  <2>2. Launched' \subseteq Launched \cup {active}
    BY <1>5 DEF Propose, Launched, TypeOK, Desired
  <2> QED BY <1>0, <1>5, <2>1, <2>2, SameRows, SlotStepKeepsCore DEF Propose, Unproposed, callVars
<1>6. CASE Complete
  <2>1. row'[active].state # "QUEUED"
    BY <1>6 DEF Complete, Core, RowsFollow
  <2> QED BY <1>0, <1>6, <2>1, SameRows, SlotStepKeepsCore DEF Complete, Loop, Unproposed, Launched, callVars
<1> QED
  BY <1>1, <1>2, <1>3, <1>4, <1>5, <1>6

\* cancelQueuedDeploy moves an entry from the queue to the cancel, or flags the slot.
LEMMA CancelKeepsCore ==
    ASSUME TypeOK, TypeOK', SlotIsHeld, Core, NEW p \in Projects, Cancel(p)
    PROVE  Core'
<1>0. /\ UNCHANGED <<active, pc, fresh, row, made, desired, node, up>>
      /\ canceling[p] = Idle /\ \A r \in Projects \ {p} : canceling'[r] = canceling[r]
      /\ \A k \in Kinds : used[k] <= used'[k]
  BY UsesType DEF Cancel, Spend, TypeOK
<1>n. /\ Never({"overlap"})' => Never({"overlap"})
      /\ Never({"crash"})' => Never({"crash"})
  BY <1>0, NeverStays DEF TypeOK, Kinds
<1>l. Launched' = Launched /\ \A i : Of(i)' = Of(i) /\ Exists(i)' = Exists(i)
  BY <1>0 DEF Launched, Of, Exists
<1>t. Queued \subseteq Instances /\ Occupied \subseteq Instances
  BY DEF Queued, Occupied, TypeOK, ToSet
<1>5. OneWaiting'
  BY <1>l, <1>n, <1>0 DEF Core, OneWaiting
<1>a. CASE Entries(p) # {}
  <2>1. PICK n \in DOMAIN queue :
            /\ Of(queue[n]) = p
            /\ queue' = RemoveAt(queue, n) /\ flagged' = flagged
            /\ canceling' = [canceling EXCEPT ![p] = [pc |-> "mark", inst |-> queue[n]]]
    BY <1>a, CancelTakes DEF TypeOK
  <2> DEFINE x == queue[n]
  <2>2. /\ ToSet(queue') = ToSet(queue) \ {x} /\ IsInjective(queue')
        /\ Ascending(queue) => Ascending(queue')
        /\ x \in ToSet(queue)
    <3>1. queue \in Seq(Instances) /\ IsInjective(queue)
      BY DEF TypeOK, Core, EachOnce
    <3>2. x \in ToSet(queue)
      BY <2>1 DEF ToSet
    <3> QED BY <2>1, <3>1, <3>2, RemoveFacts
  <2> HIDE DEF x
  <2>3. /\ Queued' = Queued \ {x} /\ x \in Queued /\ Held' = Held \ {x}
        /\ Occupied' \subseteq Occupied /\ x # active
    BY <1>0, <2>2 DEF Queued, Held, Occupied, Core, EachOnce
  <2>4. canceling'[p] = [pc |-> "mark", inst |-> x]
    BY <2>1 DEF x, TypeOK
  <2>5. \A i : BeingCancelled(i)' <=> BeingCancelled(i) \/ i = x
    BY <1>0, <2>4 DEF BeingCancelled, Idle
  <2>6. OnlyMade'
    BY <1>0, <1>l, <1>t, <2>1, <2>3, <2>5 DEF Core, OnlyMade
  <2>7. EachOnce'
    <3>1. ToSet(queue)' \cap fresh' = {} /\ active' \notin Queued'
      BY <1>0, <2>2, <2>3 DEF Core, EachOnce
    <3>2. \A i \in Queued' : i \notin flagged' /\ ~BeingCancelled(i)'
      BY <2>1, <2>3, <2>5 DEF Core, EachOnce
    <3>4. Held' \cap Launched' = {}
      BY <1>l, <2>3 DEF Core, EachOnce
    <3>5. ~BeingCancelled(active)'
      BY <1>0, <2>3, <2>4, Typed DEF Core, EachOnce, BeingCancelled, Idle
    <3> QED BY <2>2, <3>1, <3>2, <3>4, <3>5 DEF EachOnce
  <2>8. RowsFollow'
    <3>1. ASSUME NEW r \in Projects, canceling'[r].pc = "mark" PROVE Of(canceling'[r].inst) = r
      BY <1>0, <2>1, <2>4, <3>1 DEF Core, RowsFollow, x
    <3> QED BY <1>0, <1>l, <3>1 DEF Core, RowsFollow, Of
  <2>9. QueuedRowIsOwned'
    BY <1>0, <1>n, <2>2, <2>5 DEF Core, QueuedRowIsOwned, QueuedRowIsAlwaysOwned
  <2>10. InOrder'
    BY <1>0, <1>l, <1>n, <2>2, <2>3 DEF Core, InOrder
  <2> QED BY <1>5, <2>6, <2>7, <2>8, <2>9, <2>10 DEF Core
<1>b. CASE Entries(p) = {}
  <2>1. /\ queue' = queue /\ flagged' \subseteq flagged \cup ({active} \ {None})
        /\ canceling'[p].pc # "mark"
    BY <1>b DEF Cancel, TypeOK
  <2>2. \A i : BeingCancelled(i)' <=> BeingCancelled(i)
    BY <1>0, <2>1 DEF BeingCancelled, Idle
  <2>3. Queued' = Queued /\ Held' = Held /\ Occupied' = Occupied
    BY <1>0, <2>1 DEF Queued, Held, Occupied
  <2>6. OnlyMade'
    BY <1>0, <1>l, <2>1, <2>2, <2>3 DEF Core, OnlyMade
  <2>7. EachOnce'
    <3>1. ~BeingCancelled(active)'
      BY <1>0, <2>1 DEF Core, EachOnce, BeingCancelled, Idle
    <3> QED BY <1>0, <1>l, <2>1, <2>2, <2>3, <3>1 DEF Core, EachOnce
  <2>8. RowsFollow'
    <3>1. ASSUME NEW r \in Projects, canceling'[r].pc = "mark" PROVE Of(canceling'[r].inst) = r
      BY <1>0, <2>1, <3>1 DEF Core, RowsFollow
    <3> QED BY <1>0, <1>l, <3>1 DEF Core, RowsFollow, Of
  <2>9. QueuedRowIsOwned'
    BY <1>0, <1>n, <2>1, <2>2 DEF Core, QueuedRowIsOwned, QueuedRowIsAlwaysOwned
  <2>10. InOrder'
    BY <1>0, <1>l, <1>n, <2>1, <2>3 DEF Core, InOrder
  <2> QED BY <1>5, <2>6, <2>7, <2>8, <2>9, <2>10 DEF Core
<1> QED
  BY <1>a, <1>b

\* A call in progress has been counted.
Spent ==
    \A p \in Projects : /\ canceling[p].pc # "idle" => ~Never({"cancel"})
                        /\ tearing[p].pc # "idle" => ~Never({"teardown"})

\* No step takes back an event.
LEMMA EventsCount ==
    ASSUME TypeOK, [Next]_vars
    PROVE  \A K \in SUBSET Kinds : Never(K)' => Never(K)
<1>1. used' \in [Kinds -> Nat] /\ \A k \in Kinds : used[k] <= used'[k]
  <2>1. CASE UNCHANGED used
    BY <2>1 DEF TypeOK
  <2>2. CASE \E kinds : Uses(kinds)
    BY <2>2, UsesType DEF TypeOK
  <2> QED
    BY <2>1, <2>2 DEF Next, Enqueues, Drain, CancelStep, TeardownStep, NodeStep, Enqueue, Push, Wake,
          RegisterWaiter, Begin, PlanFails, Plan, Propose, Complete, QueueTimeout, Crash, Recover, Sweep,
          Cancel, CancelMark, CancelDesired, CancelNode, CancelRows, Teardown, TeardownClear, DeleteRows,
          DeleteProject, NodeStart, NodeProgress, NodeDone, NodeFails, Spend, vars
<1> QED BY <1>1, NeverStays DEF TypeOK

\* A call that is in progress has been counted.
LEMMA SpentPreserved ==
    ASSUME TypeOK, Spent, [Next]_vars PROVE Spent'
<1>1. \A K \in SUBSET Kinds : Never(K)' => Never(K)
  BY EventsCount
<1>2. \A p \in Projects : canceling'[p].pc # "idle" => canceling[p].pc # "idle" \/ ~Never({"cancel"})'
  <2>1. CASE \E p \in Projects : Cancel(p)
    BY <2>1, UsesType DEF Cancel, Spend, Never, TypeOK, Kinds
  <2>2. CASE Crash
    BY <2>2 DEF Crash, Idle
  <2>3. CASE UNCHANGED canceling
    BY <2>3
  <2>4. CASE \E p \in Projects : CancelStep(p)
    BY <2>4 DEF CancelStep, CancelMark, CancelDesired, CancelNode, CancelRows, Idle, TypeOK
  <2> QED
    BY <2>1, <2>2, <2>3, <2>4 DEF Next, Enqueues, Drain, TeardownStep, NodeStep, Enqueue, Push, Wake,
          RegisterWaiter, Begin, PlanFails, Plan, Propose, Complete, QueueTimeout, Recover, Sweep,
          Teardown, TeardownClear, DeleteRows,
          DeleteProject, NodeStart, NodeProgress, NodeDone, NodeFails, callVars, vars
<1>3. \A p \in Projects : tearing'[p].pc # "idle" => tearing[p].pc # "idle" \/ ~Never({"teardown"})'
  <2>1. CASE \E p \in Projects : Teardown(p, "teardown") \/ Teardown(p, "delete")
    BY <2>1, UsesType DEF Teardown, Spend, Never, TypeOK, Kinds
  <2>2. CASE Crash
    BY <2>2 DEF Crash, Idle
  <2>3. CASE UNCHANGED tearing
    BY <2>3
  <2>4. CASE \E p \in Projects : TeardownStep(p)
    BY <2>4 DEF TeardownStep, TeardownClear, DeleteRows, DeleteProject, Idle, TypeOK
  <2> QED
    BY <2>1, <2>2, <2>3, <2>4 DEF Next, Enqueues, Drain, CancelStep, NodeStep, Enqueue, Push, Wake,
          RegisterWaiter, Begin, PlanFails, Plan, Propose, Complete, QueueTimeout, Recover, Sweep,
          Cancel, CancelMark, CancelDesired, CancelNode, CancelRows,
          NodeStart, NodeProgress, NodeDone, NodeFails, callVars, vars
<1> QED
  BY <1>1, <1>2, <1>3 DEF Spent, Kinds

\* A leader that is down stays empty until it recovers its queue.
LEMMA StoppedPreserved ==
    ASSUME TypeOK, SlotIsHeld, Stopped, [Next]_vars PROVE Stopped'
<1>1. Never({"crash"})' => Never({"crash"})
  BY EventsCount DEF Kinds
<1>2. CASE Crash
  BY <1>2, UsesType DEF Crash, Spend, Stopped, Never, Kinds, TypeOK
<1>3. CASE Recover
  BY <1>1, <1>3 DEF Recover, Stopped
<1>4. CASE Sweep
  BY <1>4 DEF Sweep, Stopped
<1>5. CASE up' = up /\ up # "down"
  BY <1>1, <1>5 DEF Stopped
<1>6. CASE up' = up /\ up = "down" /\ UNCHANGED <<queue, pc, flagged, fresh, canceling, tearing>>
  BY <1>1, <1>6 DEF Stopped
<1>7. up = "down" => /\ pc = "off" /\ waiter = "none" /\ fresh = {}
                     /\ \A p \in Projects : canceling[p].pc = "idle" /\ tearing[p].pc = "idle"
  BY DEF Stopped, SlotIsHeld, Idle
<1> QED
  BY <1>2, <1>3, <1>4, <1>5, <1>6, <1>7 DEF Next, Enqueues, Drain, CancelStep, TeardownStep, NodeStep,
        Enqueue, Push, Wake, RegisterWaiter, Begin, PlanFails, Plan, Propose, Complete, QueueTimeout,
        Cancel, CancelMark, CancelDesired, CancelNode, CancelRows, Teardown, TeardownClear, DeleteRows,
        DeleteProject, NodeStart, NodeProgress, NodeDone, NodeFails, callVars, drainVars, vars

-----------------------------------------------------------------------------
\* What cancels alone can do to the row of an entry, and what the waiter is told.
Calm ==
    Never({"teardown"}) =>
        /\ \A i \in Queued : row[i].state \in {"QUEUED", "CANCELLED"}
        /\ pc \in {"lookup", "start"} => row[active].state \in {"QUEUED", "CANCELLED"}
        /\ pc \in {"plan", "write", "await"} /\ waiter = "pending" => row[active].state \notin Terminal
        /\ \A i \in Instances : row[i].state # "DESTROYING"

\* What nobody does to the row of an entry but a cancel or a teardown.
Undisturbed ==
    Never({"teardown", "cancel"}) => \A i \in Queued : row[i].state = "QUEUED"

\* A step that takes nothing into the queue or the slot, and settles the active
\* deployment only by resolving its waiter.
LEMMA SideStepKeepsCalm ==
    ASSUME TypeOK, SlotIsHeld, Calm, Never({"teardown"})' => Never({"teardown"}),
           UNCHANGED <<active, pc>>, Queued' \subseteq Queued,
           Never({"teardown"}) =>
              /\ \A i \in Held : row'[i] = row[i] \/ row'[i].state = "CANCELLED"
              /\ pc \in {"plan", "write", "await"} /\ waiter' = "pending" /\ row'[active].state \in Terminal =>
                    waiter = "pending" /\ row[active].state \in Terminal
              /\ \A i \in Instances : row'[i].state # "DESTROYING"
    PROVE  Calm'
<1> SUFFICES ASSUME Never({"teardown"}) PROVE
        /\ \A i \in Queued' : row'[i].state \in {"QUEUED", "CANCELLED"}
        /\ pc \in {"lookup", "start"} => row'[active].state \in {"QUEUED", "CANCELLED"}
        /\ pc \in {"plan", "write", "await"} /\ waiter' = "pending" => row'[active].state \notin Terminal
        /\ \A i \in Instances : row'[i].state # "DESTROYING"
  BY DEF Calm
<1>1. Queued \subseteq Held /\ (pc \in {"lookup", "start"} => active \in Held)
  BY DEF Held, Unproposed
<1> QED BY <1>1 DEF Calm

\* Without teardowns no entry is settled before it is begun, and no deployment is
\* settled without its waiter being told.
LEMMA CalmPreserved ==
    ASSUME TypeOK, SlotIsHeld, Core, Stopped, Spent, Calm, [Next]_vars
    PROVE  Calm'
<1>0. Never({"teardown"})' => Never({"teardown"})
  BY EventsCount DEF Kinds
<1>h. /\ Queued \subseteq Held /\ (pc \in Unproposed => active \in Held) /\ Held \subseteq Instances \cup {None}
      /\ \A i \in Launched : i \in Instances /\ i \notin Held
  BY DEF Held, Queued, Core, EachOnce, Launched, TypeOK, ToSet
<1>s. /\ {"FAILED", "CANCELLED", "DEPLOYED", "DEPLOYING"} \subseteq States \ {"QUEUED"}
      /\ {"FAILED", "CANCELLED", "DEPLOYED"} \subseteq Terminal
      /\ "QUEUED" \notin Terminal /\ "DEPLOYING" \notin Terminal /\ "NONE" \notin Terminal
  BY DEF States, Terminal
<1>p. \A p \in Projects : /\ desired[p].log \in Instances => desired[p].log \in Launched
                          /\ node[p].building \in Instances => node[p].building \in Launched
                          /\ desired[p].log \in Instances \cup {None}
                          /\ node[p].building \in Instances \cup {None}
  BY DEF Launched, TypeOK, Desired, Node
<1>1. ASSUME NEW p \in Projects, Enqueue(p) PROVE Calm'
  <2> DEFINE n == made + 1
  <2>0. /\ n \in Instances /\ fresh' = fresh \cup {n} /\ UNCHANGED <<queue, active, pc, waiter>>
        /\ row' = [row EXCEPT ![n] = [project |-> p, state |-> "QUEUED", active |-> TRUE]]
    BY <1>1, MaxInstAssumption DEF Enqueue, TypeOK, Instances, drainVars
  <2>1. /\ row'[n].state = "QUEUED"
        /\ \A i \in Instances \ {n} : row'[i] = row[i]
    BY <2>0 DEF TypeOK
  <2>2. Queued' = Queued \cup {n} /\ Queued \subseteq Instances
    BY <2>0 DEF Queued, TypeOK, ToSet
  <2>3. n # active
    BY <2>0, MaxInstAssumption DEF Core, OnlyMade, Instances, TypeOK
  <2> QED BY <1>0, <2>0, <2>1, <2>2, <2>3 DEF Calm, SlotIsHeld, TypeOK
<1>2. ASSUME NEW q, Feeds(q), Kick(q) \/ (pc = "delay" /\ q # <<>> /\ Take(q)), UNCHANGED <<row, waiter>>,
             Never({"teardown"}) => \A i \in ToSet(q) \cup fresh' : row[i].state \in {"QUEUED", "CANCELLED"}
      PROVE  Calm'
  <2>1. \A i \in Queued' : i \in ToSet(q) \cup fresh'
    BY <1>2, FeedSteps DEF Queued
  <2>2. \/ UNCHANGED <<active, pc>>
        \/ pc' = "lookup" /\ active' \in ToSet(q)
    BY <1>2, FeedSteps
  <2> QED BY <1>0, <1>2, <2>1, <2>2 DEF Calm
<1>3. ASSUME NEW i \in fresh, Push(i) PROVE Calm'
  <2>1. Feeds(Append(queue, i)) /\ Kick(Append(queue, i))
    BY <1>3, PushKeepsCore DEF Push
  <2>2. ToSet(Append(queue, i)) = ToSet(queue) \cup {i} /\ fresh' \subseteq fresh
    BY <1>3, AppendFacts DEF Push, Core, EachOnce, TypeOK
  <2>3. UNCHANGED <<row, waiter>>
    BY <1>3 DEF Push
  <2> QED BY <1>2, <2>1, <2>2, <2>3 DEF Calm, Queued
<1>4. CASE Wake
  <2>1. CASE queue = <<>>
    BY <1>0, <1>4, <2>1 DEF Wake, Calm, Queued, SlotIsHeld
  <2>2. CASE queue # <<>>
    BY <1>2, <1>4, <2>2, WakeKeepsCore DEF Wake, Calm, Queued
  <2> QED BY <2>1, <2>2
<1>5. CASE Recover
  <2>1. \A i \in ToSet(Recovered) : row[i].state = "QUEUED"
    BY RecoveredFacts DEF OldestWaiting, Waiting
  <2>2. fresh' = {}
    BY <1>5 DEF Recover, Stopped
  <2> QED BY <1>2, <1>5, <2>1, <2>2, RecoverKeepsCore DEF Recover
<1>6. CASE RegisterWaiter \/ Propose
  BY <1>0, <1>6 DEF RegisterWaiter, Propose, Calm, Queued
<1>7. CASE Begin
  <2>1. active \in Instances /\ pc' = "plan" /\ UNCHANGED <<queue, fresh, active>> /\ active \notin Queued
    BY <1>7 DEF Begin, SlotIsHeld, TypeOK, Core, EachOnce
  <2>2. row'[active].state \in {"DEPLOYING", "NONE"} /\ \A i \in Instances \ {active} : row'[i] = row[i]
    BY <1>7, <2>1 DEF Begin, Marked, TypeOK, Row, Exists
  <2>3. Queued' = Queued /\ Queued \subseteq Instances
    BY <2>1 DEF Queued, TypeOK, ToSet
  <2> QED BY <1>0, <1>s, <2>1, <2>2, <2>3 DEF Calm
<1>8. ASSUME NEW s \in {"FAILED", "CANCELLED"}, Log(active, s), pc' = "await",
             pc \in {"start", "plan"}, pc = "start" => s = "FAILED", UNCHANGED <<queue, fresh, active>>
      PROVE  Calm'
  <2>1. active \in Instances /\ active \notin Queued /\ Queued \subseteq Instances /\ Queued' = Queued
    BY <1>8 DEF SlotIsHeld, TypeOK, Core, EachOnce, Queued, ToSet
  <2>2. /\ \A j \in Instances \ {active} : row'[j] = row[j]
        /\ row[active].state # "NONE" => row'[active].state = s
        /\ row[active].state = "NONE" => row'[active].state = "NONE"
        /\ waiter' \in {waiter, "resolved"}
        /\ waiter' = "pending" => row'[active].state = row[active].state
    BY <1>s, <1>8, <2>1, LogMoves
  <2>3. ASSUME Never({"teardown"}), waiter' = "pending" PROVE row'[active].state \notin Terminal
    <3>1. CASE pc = "start"
      BY <1>8, <2>2, <2>3, <3>1, <1>s DEF Calm
    <3>2. CASE pc = "plan"
      BY <1>8, <2>2, <2>3, <3>2, <1>s DEF Calm
    <3> QED BY <1>8, <3>1, <3>2
  <2>4. \A i \in Instances : row[i].state # "DESTROYING" => row'[i].state # "DESTROYING"
    BY <2>2
  <2> QED BY <1>0, <1>8, <2>1, <2>2, <2>3, <2>4 DEF Calm
<1>9. CASE PlanFails
  BY <1>8, <1>9 DEF PlanFails
<1>10. CASE Plan
  <2>1. CASE active \in flagged
    BY <1>8, <1>10, <2>1 DEF Plan
  <2>2. CASE active \notin flagged
    BY <1>0, <1>10, <2>2 DEF Plan, Calm, Queued
  <2> QED BY <2>1, <2>2
<1>11. CASE Complete
  BY <1>0, <1>11 DEF Complete, Loop, Calm, Queued
<1>12. CASE Crash
  <2>1. Queued' = {}
    BY <1>12 DEF Crash, Queued, ToSet
  <2> QED BY <1>0, <1>12, <2>1 DEF Crash, Calm
<1>13. CASE QueueTimeout
  BY <1>0, <1>13, SideStepKeepsCalm DEF QueueTimeout, drainVars, Queued, Calm
<1>14. CASE Sweep
  <2>1. Never({"teardown"}) => row' = row
    BY <1>14 DEF Sweep, Calm, TypeOK
  <2> QED BY <1>0, <1>14, <2>1, SideStepKeepsCalm DEF Sweep, drainVars, Queued, Calm
<1>15. ASSUME NEW p \in Projects, Cancel(p) PROVE Calm'
  <2>1. CASE Entries(p) # {}
    <3>1. PICK n \in DOMAIN queue : queue' = RemoveAt(queue, n)
      BY <1>15, <2>1, CancelTakes DEF TypeOK
    <3>2. ToSet(queue') \subseteq ToSet(queue)
      BY <3>1, RemoveFacts DEF TypeOK, Core, EachOnce
    <3> QED BY <1>0, <1>15, <3>2, SideStepKeepsCalm DEF Cancel, Queued, Calm
  <2>2. CASE Entries(p) = {}
    BY <1>0, <1>15, <2>2, SideStepKeepsCalm DEF Cancel, Queued, Calm
  <2> QED BY <2>1, <2>2
<1>16. ASSUME NEW p \in Projects, CancelMark(p) PROVE Calm'
  <2> DEFINE x == canceling[p].inst
  <2>1. x \in Instances /\ x \notin Held /\ x # active
    BY <1>16, Typed DEF CancelMark, Core, EachOnce, BeingCancelled, Held, TypeOK
  <2>2. \A j \in Instances \ {x} : row'[j] = row[j]
    BY <1>16, <1>s, <2>1, LogMoves DEF CancelMark
  <2>3. waiter' \in {waiter, "resolved"} /\ row'[x].state \in {"CANCELLED", "NONE"}
    BY <1>16, <1>s, <2>1, LogMoves DEF CancelMark
  <2>4. \A i \in Held : i # None => row'[i] = row[i]
    BY <1>h, <2>1, <2>2
  <2>5. None \notin Held
    BY Typed DEF Held, Queued, SlotIsHeld, Unproposed, TypeOK, ToSet
  <2>6. UNCHANGED <<queue, active, pc, fresh>>
    BY <1>16 DEF CancelMark, drainVars
  <2>7. pc \in {"plan", "write", "await"} => row'[active] = row[active]
    BY <2>1, <2>2 DEF SlotIsHeld, TypeOK
  <2> QED BY <1>0, <2>2, <2>3, <2>4, <2>5, <2>6, <2>7, SideStepKeepsCalm DEF Queued, Calm, TypeOK
<1>17. ASSUME NEW p \in Projects, CancelDesired(p) \/ CancelNode(p) PROVE Calm'
  BY <1>0, <1>17, SideStepKeepsCalm DEF CancelDesired, CancelNode, drainVars, Queued, Calm
<1>18. ASSUME NEW p \in Projects, CancelRows(p) PROVE Calm'
  <2>1. \A i \in Instances : row'[i] = row[i] \/ row'[i].state = "CANCELLED"
    <3>1. \A i \in Instances : row'[i] = row[i] \/ row'[i] = Logged(row[i], "CANCELLED")
      BY <1>18 DEF CancelRows
    <3>2. \A i \in Instances : Logged(row[i], "CANCELLED").state = "CANCELLED"
      BY <1>s, RowUpdates DEF TypeOK
    <3> QED BY <3>1, <3>2
  <2>2. active \in Instances /\ waiter' = "pending" => row'[active] = row[active] /\ waiter = "pending"
    BY <1>18 DEF CancelRows
  <2>3. None \notin Held
    BY Typed DEF Held, Queued, SlotIsHeld, Unproposed, TypeOK, ToSet
  <2>4. UNCHANGED <<queue, active, pc, fresh>>
    BY <1>18 DEF CancelRows, drainVars
  <2> QED BY <1>0, <1>h, <2>1, <2>2, <2>3, <2>4, SideStepKeepsCalm DEF Queued, Calm, SlotIsHeld, TypeOK
<1>19. ASSUME NEW p \in Projects, NEW why, Teardown(p, why) PROVE Calm'
  BY <1>19, UsesType DEF Teardown, Spend, Calm, Never, TypeOK, Kinds
<1>20. ASSUME NEW p \in Projects, TeardownStep(p) PROVE Calm'
  <2>1. ~Never({"teardown"})
    BY <1>20 DEF TeardownStep, TeardownClear, DeleteRows, DeleteProject, Spent
  <2> QED BY <1>0, <2>1 DEF Calm
<1>21. ASSUME NEW i \in Launched, NEW s \in {"FAILED", "CANCELLED", "DEPLOYED", "DEPLOYING"},
              Deliver(i, s), UNCHANGED <<queue, active, pc, fresh>>
       PROVE  Calm'
  <2>1. i \in Instances /\ i \notin Held
    BY <1>h, <1>21
  <2>2. /\ \A j \in Instances \ {i} : row'[j] = row[j]
        /\ waiter' \in {waiter, "resolved"}
        /\ i = active /\ waiter' = "pending" /\ s \in Terminal => row'[i].state = row[i].state
        /\ row'[i].state \in {row[i].state, s}
    BY <1>s, <1>21, <2>1, DeliverMoves
  <2>3. None \notin Held
    BY Typed DEF Held, Queued, SlotIsHeld, Unproposed, TypeOK, ToSet
  <2>4. \A j \in Held : row'[j] = row[j]
    BY <1>h, <2>1, <2>2, <2>3
  <2>5. active \in Instances /\ waiter' = "pending" /\ row'[active].state \in Terminal =>
           waiter = "pending" /\ row[active].state \in Terminal
    BY <1>s, <1>21, <2>1, <2>2
  <2>6. \A j \in Instances : row[j].state # "DESTROYING" => row'[j].state # "DESTROYING"
    BY <2>2
  <2> QED BY <1>0, <1>21, <2>4, <2>5, <2>6, SideStepKeepsCalm DEF Queued, Calm, SlotIsHeld, TypeOK
<1>22. ASSUME NEW p \in Projects, NodeStep(p) PROVE Calm'
  BY <1>p, <1>21, <1>22 DEF NodeStep, NodeStart, NodeProgress, NodeDone, NodeFails, Deliver, drainVars, TypeOK
<1>23. CASE UNCHANGED vars
  BY <1>0, <1>23 DEF vars, drainVars, Calm, Queued
<1> QED
  BY <1>1, <1>3, <1>4, <1>5, <1>6, <1>7, <1>9, <1>10, <1>11, <1>12, <1>13, <1>14, <1>15, <1>16, <1>17,
     <1>18, <1>19, <1>20, <1>22, <1>23 DEF Next, Enqueues, Drain, CancelStep

\* Without teardowns and cancels nobody writes the row of an entry that waits.
LEMMA UndisturbedPreserved ==
    ASSUME TypeOK, SlotIsHeld, Core, Stopped, Spent, Undisturbed, [Next]_vars
    PROVE  Undisturbed'
<1> SUFFICES ASSUME Never({"teardown", "cancel"})' PROVE \A i \in Queued' : row'[i].state = "QUEUED"
  BY DEF Undisturbed
<1>0. /\ Never({"teardown", "cancel"}) /\ \A i \in Queued : row[i].state = "QUEUED"
      /\ \A p \in Projects : canceling[p].pc = "idle" /\ tearing[p].pc = "idle"
      /\ used'["teardown"] = 0 /\ used'["cancel"] = 0
  BY EventsCount DEF Undisturbed, Spent, Never, Kinds
<1>h. Queued \subseteq Instances /\ active \notin Queued /\ \A i \in Launched : i \in Instances /\ i \notin Queued
  BY DEF Held, Queued, Core, EachOnce, Launched, TypeOK, ToSet
<1>s. {"FAILED", "CANCELLED", "DEPLOYED", "DEPLOYING"} \subseteq States \ {"QUEUED"}
  BY DEF States, Terminal
<1>1. ASSUME NEW p \in Projects, Enqueue(p) PROVE \A i \in Queued' : row'[i].state = "QUEUED"
  <2> DEFINE n == made + 1
  <2>0. /\ n \in Instances /\ fresh' = fresh \cup {n} /\ UNCHANGED queue
        /\ row' = [row EXCEPT ![n] = [project |-> p, state |-> "QUEUED", active |-> TRUE]]
    BY <1>1, MaxInstAssumption DEF Enqueue, TypeOK, Instances, drainVars
  <2>1. /\ row'[n].state = "QUEUED"
        /\ \A i \in Instances \ {n} : row'[i] = row[i]
    BY <2>0 DEF TypeOK
  <2>2. Queued' = Queued \cup {n}
    BY <2>0 DEF Queued
  <2> QED BY <1>0, <1>h, <2>1, <2>2
<1>2. ASSUME NEW q, Feeds(q), Kick(q) \/ (pc = "delay" /\ q # <<>> /\ Take(q)), UNCHANGED row,
             \A i \in ToSet(q) \cup fresh' : row[i].state = "QUEUED"
      PROVE  \A i \in Queued' : row'[i].state = "QUEUED"
  <2>1. \A i \in Queued' : i \in ToSet(q) \cup fresh'
    BY <1>2, FeedSteps DEF Queued
  <2> QED BY <1>2, <2>1
<1>3. ASSUME NEW i \in fresh, Push(i) PROVE \A j \in Queued' : row'[j].state = "QUEUED"
  <2>1. Feeds(Append(queue, i)) /\ Kick(Append(queue, i))
    BY <1>3, PushKeepsCore DEF Push
  <2>2. ToSet(Append(queue, i)) = ToSet(queue) \cup {i} /\ fresh' \subseteq fresh
    BY <1>3, AppendFacts DEF Push, Core, EachOnce, TypeOK
  <2>3. UNCHANGED row
    BY <1>3 DEF Push
  <2> QED BY <1>0, <1>2, <2>1, <2>2, <2>3 DEF Queued
<1>4. CASE Wake
  <2>1. CASE queue = <<>>
    BY <1>0, <1>4, <2>1 DEF Wake, Queued
  <2>2. CASE queue # <<>>
    BY <1>0, <1>2, <1>4, <2>2, WakeKeepsCore DEF Wake, Queued
  <2> QED BY <2>1, <2>2
<1>5. CASE Recover
  <2>1. \A i \in ToSet(Recovered) : row[i].state = "QUEUED"
    BY RecoveredFacts DEF OldestWaiting, Waiting
  <2>2. fresh' = {}
    BY <1>5 DEF Recover, Stopped
  <2> QED BY <1>2, <1>5, <2>1, <2>2, RecoverKeepsCore DEF Recover
<1>6. CASE RegisterWaiter \/ Propose \/ Complete \/ QueueTimeout \/ UNCHANGED vars
  BY <1>0, <1>6 DEF RegisterWaiter, Propose, Complete, QueueTimeout, vars, drainVars, Queued
<1>7. ASSUME UNCHANGED <<queue, fresh>>, \A i \in Queued : row'[i] = row[i]
      PROVE  \A i \in Queued' : row'[i].state = "QUEUED"
  BY <1>0, <1>7 DEF Queued
<1>8. CASE Begin
  BY <1>7, <1>8, <1>h DEF Begin, Marked, TypeOK
<1>9. ASSUME NEW s \in {"FAILED", "CANCELLED"}, Log(active, s), pc \in {"start", "plan"},
             UNCHANGED <<queue, fresh>>
      PROVE  \A i \in Queued' : row'[i].state = "QUEUED"
  <2>1. active \in Instances
    BY <1>9 DEF SlotIsHeld, TypeOK
  <2> QED BY <1>7, <1>9, <1>h, <1>s, <2>1, LogMoves
<1>10. CASE PlanFails \/ Plan
  BY <1>7, <1>9, <1>10 DEF PlanFails, Plan
<1>11. CASE Crash
  BY <1>11 DEF Crash, Queued, ToSet
<1>12. CASE Sweep
  <2>1. \A i \in Queued : row'[i] = row[i]
    BY <1>0, <1>h, <1>12 DEF Sweep
  <2> QED BY <1>7, <1>12, <2>1 DEF Sweep, drainVars
<1>13. ~\E p \in Projects : \/ Cancel(p) \/ CancelStep(p) \/ TeardownStep(p)
                            \/ Teardown(p, "teardown") \/ Teardown(p, "delete")
  <2>1. ASSUME NEW p \in Projects, Cancel(p) PROVE FALSE
    BY <1>0, <2>1, UsesType DEF Cancel, Spend, Kinds, TypeOK
  <2>2. ASSUME NEW p \in Projects, NEW why, Teardown(p, why) PROVE FALSE
    BY <1>0, <2>2, UsesType DEF Teardown, Spend, Kinds, TypeOK
  <2>3. ASSUME NEW p \in Projects, CancelStep(p) \/ TeardownStep(p) PROVE FALSE
    BY <1>0, <2>3 DEF CancelStep, CancelMark, CancelDesired, CancelNode, CancelRows, TeardownStep,
                      TeardownClear, DeleteRows, DeleteProject
  <2> QED BY <2>1, <2>2, <2>3
<1>14. ASSUME NEW i \in Launched, NEW s \in {"FAILED", "CANCELLED", "DEPLOYED", "DEPLOYING"},
              Deliver(i, s), UNCHANGED <<queue, fresh>>
       PROVE  \A j \in Queued' : row'[j].state = "QUEUED"
  BY <1>7, <1>14, <1>h, <1>s, DeliverMoves
<1>15. ASSUME NEW p \in Projects, NodeStep(p) PROVE \A i \in Queued' : row'[i].state = "QUEUED"
  <2>1. /\ desired[p].log \in Instances => desired[p].log \in Launched
        /\ node[p].building \in Instances => node[p].building \in Launched
        /\ desired[p].log \in Instances \cup {None} /\ node[p].building \in Instances \cup {None}
    BY DEF Launched, TypeOK, Desired, Node
  <2> QED
    BY <1>14, <1>15, <2>1 DEF NodeStep, NodeStart, NodeProgress, NodeDone, NodeFails, Deliver, drainVars
<1> QED
  BY <1>1, <1>3, <1>4, <1>5, <1>6, <1>8, <1>10, <1>11, <1>12, <1>13, <1>15 DEF Next, Enqueues, Drain

-----------------------------------------------------------------------------
\* The inductive invariant.
IInv == /\ TypeOK /\ SlotIsHeld /\ Core /\ Stopped /\ Spent /\ Calm /\ Undisturbed

\* Every step keeps the queue, the slot and the rows in agreement.
LEMMA CorePreserved ==
    ASSUME TypeOK, TypeOK', SlotIsHeld, Core, Stopped, [Next]_vars
    PROVE  Core'
<1>1. ASSUME NEW p \in Projects, Enqueue(p) PROVE Core'
  BY <1>1, EnqueueKeepsCore
<1>2. ASSUME NEW i \in fresh, Push(i) PROVE Core'
  BY <1>2, PushKeepsCore
<1>3. CASE Wake
  <2>1. CASE queue = <<>>
    <3>1. UNCHANGED <<queue, active, flagged, fresh, row, made, desired, node, canceling, up, used>>
          /\ pc' = "off" /\ pc = "delay"
      BY <1>3, <2>1 DEF Wake, callVars
    <3>2. /\ Queued' = Queued /\ Held' = Held /\ Occupied' = Occupied /\ Launched' = Launched
          /\ \A i : BeingCancelled(i)' = BeingCancelled(i) /\ Of(i)' = Of(i) /\ Exists(i)' = Exists(i)
          /\ \A K : Never(K)' = Never(K)
      BY <3>1 DEF Queued, Held, Occupied, Launched, BeingCancelled, Of, Exists, Never, Unproposed
    <3>3. active = None
      BY <3>1 DEF SlotIsHeld
    <3>4. OnlyMade' /\ EachOnce' /\ RowsFollow'
      BY <3>1, <3>2 DEF Core, OnlyMade, EachOnce, RowsFollow
    <3>5. QueuedRowIsOwned'
      BY <3>1, <3>2 DEF Core, QueuedRowIsOwned, QueuedRowIsAlwaysOwned
    <3>6. OneWaiting' /\ InOrder'
      BY <3>1, <3>2 DEF Core, OneWaiting, InOrder
    <3> QED BY <3>4, <3>5, <3>6 DEF Core
  <2>2. CASE queue # <<>>
    BY <1>3, <2>2, WakeKeepsCore
  <2> QED BY <2>1, <2>2
<1>4. CASE RegisterWaiter \/ Begin \/ PlanFails \/ Plan \/ Propose \/ Complete
  BY <1>4, DrainKeepsCore
<1>5. CASE Crash
  BY <1>5, CrashKeepsCore
<1>6. CASE Recover
  BY <1>6, RecoverKeepsCore
<1>7. ASSUME NEW p \in Projects, Cancel(p) PROVE Core'
  BY <1>7, CancelKeepsCore
<1>8. CASE QuietStep
  BY <1>8, QuietSteps, QuietKeepsCore
<1> QED
  BY <1>1, <1>2, <1>3, <1>4, <1>5, <1>6, <1>7, <1>8 DEF Next, Enqueues, Drain, QuietStep

\* An empty queue agrees with no rows.
LEMMA InitIInv == Init => IInv
<1> SUFFICES ASSUME Init PROVE IInv
  OBVIOUS
<1> USE DEF Init
<1>1. /\ ToSet(queue) = {} /\ IsInjective(queue) /\ Ascending(queue) /\ Queued = {} /\ Held = {}
      /\ Occupied = {} /\ \A i : ~BeingCancelled(i)
  BY DEF ToSet, IsInjective, Ascending, Queued, Held, Occupied, Unproposed, BeingCancelled, Idle
<1>2. Launched = {}
  BY Typed DEF Launched, NoDesired, Fresh
<1>3. \A i \in Instances : row[i].state = "NONE" /\ ~row[i].active
  BY DEF NoRow
<1>4. TypeOK
  <2>1. (CHOOSE p \in Projects : TRUE) \in Projects
    BY ProjectsAssumption
  <2>2. row \in [Instances -> Row]
    BY <2>1, Typed
  <2>3. queue \in Seq(Instances)
    OBVIOUS
  <2> QED BY <2>2, <2>3, Typed, MaxInstAssumption DEF TypeOK
<1>5. SlotIsHeld /\ Stopped /\ Spent
  BY DEF SlotIsHeld, Stopped, Spent, BacklogIsDrained, Idle
<1>6. OnlyMade /\ EachOnce
  BY <1>1, <1>2, <1>3, Typed DEF OnlyMade, EachOnce, Exists
<1>7. RowsFollow /\ QueuedRowIsOwned /\ OneWaiting /\ InOrder
  BY <1>1, <1>2, <1>3 DEF RowsFollow, QueuedRowIsOwned, QueuedRowIsAlwaysOwned, OneWaiting, InOrder, Idle
<1>8. Calm /\ Undisturbed
  BY <1>1, <1>3 DEF Calm, Undisturbed
<1> QED BY <1>4, <1>5, <1>6, <1>7, <1>8 DEF IInv, Core

\* The invariant is inductive.
LEMMA IInvPreserved == IInv /\ [Next]_vars => IInv'
<1> SUFFICES ASSUME IInv, [Next]_vars PROVE IInv'
  OBVIOUS
<1>1. TypeOK' /\ SlotIsHeld'
  BY TypePreserved DEF IInv, Core, EachOnce
<1>2. Core'
  BY <1>1, CorePreserved DEF IInv
<1>3. Stopped' /\ Spent'
  BY StoppedPreserved, SpentPreserved DEF IInv
<1>4. Calm'
  BY CalmPreserved DEF IInv
<1>5. Undisturbed'
  BY UndisturbedPreserved DEF IInv
<1> QED
  BY <1>1, <1>2, <1>3, <1>4, <1>5 DEF IInv

\* A project occupies at most one place while its requests do not overlap.
LEMMA PlacesAreUnique ==
    ASSUME TypeOK, SlotIsHeld, Core, Never({"overlap"})
    PROVE  EntriesAreUnique
<1> SUFFICES ASSUME NEW p \in Projects
             PROVE  Cardinality(Entries(p)) + (IF active # None /\ Of(active) = p THEN 1 ELSE 0) <= 1
  BY DEF EntriesAreUnique
<1>1. \A i, j \in Occupied : Of(i) = Of(j) => i = j
  BY DEF Core, InOrder
<1>2. \A k \in DOMAIN queue : queue[k] \in ToSet(queue) /\ queue[k] \in Occupied
  BY DEF Occupied, Queued, ToSet
<1>3. \A k, l \in Entries(p) : k = l
  BY <1>1, <1>2 DEF Entries, Core, EachOnce, IsInjective
<1>4. CASE Entries(p) = {}
  BY <1>4, FS_EmptySet
<1>5. CASE Entries(p) # {}
  <2>1. PICK k \in Entries(p) : TRUE
    BY <1>5
  <2>2. Entries(p) = {k}
    BY <1>3, <2>1
  <2>3. Cardinality(Entries(p)) = 1
    BY <2>2, FS_Singleton
  <2>4. ~(active # None /\ Of(active) = p)
    BY <1>1, <1>2, <2>1 DEF Entries, Occupied, Core, EachOnce, Queued
  <2> QED BY <2>3, <2>4
<1> QED BY <1>4, <1>5

\* It is stronger than what the runs check.
LEMMA Strengthening == IInv => QueueMatchesRows /\ SettledRowFreesSlot
<1> SUFFICES ASSUME IInv PROVE QueueMatchesRows /\ SettledRowFreesSlot
  OBVIOUS
<1>1. TypeOK /\ QueuedRowIsOwned
  BY DEF IInv, Core
<1>2. WaitingEntryIsQueued
  BY DEF IInv, Undisturbed, WaitingEntryIsQueued, Queued, ToSet
<1>3. OneEntryPerProject
  BY PlacesAreUnique DEF IInv, OneEntryPerProject
<1>4. SettledRowFreesSlot
  BY DEF IInv, Calm, SettledRowFreesSlot, SettledRowAlwaysFreesSlot
<1> QED BY <1>1, <1>2, <1>3, <1>4 DEF QueueMatchesRows

\* It holds in every reachable state.
LEMMA Invariance == Spec => []IInv
  BY InitIInv, IInvPreserved, PTL DEF Spec

\* The queue in memory and the QUEUED rows describe the same deployments, one for each
\* project, through overlaps, cancels and restarts (enqueueDeploy, recoverDeployQueue):
\* for any number of projects, instances and events.
THEOREM QueueAndRowsAgree == Spec => []QueueMatchesRows
  BY Invariance, Strengthening, PTL

\* Without teardowns a deployment whose row has settled has resolved its waiter
\* (updateDeploymentLog, waitForDeployCompletion): it cannot block the queue.
THEOREM SettledDeploymentsRelease == Spec => []SettledRowFreesSlot
  BY Invariance, Strengthening, PTL

\* The first entry of a queue is the oldest row that is still to be deployed.
LEMMA FirstIsOldest ==
    ASSUME TypeOK, SlotIsHeld, Core, NEW q, Feeds(q),
           Kick(q) \/ (pc = "delay" /\ q # <<>> /\ Take(q)),
           Never({"overlap"}), active' \notin {active, None},
           NEW i \in Instances, row[i].state = "QUEUED"
    PROVE  i >= active' \/ BeingCancelled(i)
<1>1. /\ active = None /\ active' \in ToSet(q) /\ \A j \in ToSet(q) : active' <= j
      /\ active' \in Instances
  BY FeedSteps DEF Feeds
<1>2. i \in ToSet(q) \cup fresh' \/ BeingCancelled(i)
  BY <1>1, Typed DEF Feeds
<1>3. CASE i \in ToSet(q)
  BY <1>1, <1>3, MaxInstAssumption DEF Instances
<1>4. CASE i \in fresh'
  BY <1>1, <1>4, MaxInstAssumption DEF Feeds, Instances
<1> QED BY <1>2, <1>3, <1>4

\* Any step that starts a deployment takes the oldest one.
LEMMA StartsInOrder ==
    ASSUME IInv, [Next]_vars, Never({"overlap"}), active' \notin {active, None},
           NEW i \in Instances, row[i].active, row[i].state = "QUEUED"
    PROVE  i >= active' \/ BeingCancelled(i)
<1> USE DEF IInv
<1>1. ASSUME NEW j \in fresh, Push(j) PROVE i >= active' \/ BeingCancelled(i)
  BY <1>1, PushKeepsCore, FirstIsOldest DEF Push
<1>2. CASE Wake
  <2>1. CASE queue = <<>>
    BY <1>2, <2>1 DEF Wake
  <2>2. CASE queue # <<>>
    BY <1>2, <2>2, WakeKeepsCore, FirstIsOldest DEF Wake
  <2> QED BY <2>1, <2>2
<1>3. CASE Recover
  BY <1>3, RecoverKeepsCore, FirstIsOldest DEF Recover
<1>4. CASE active' \in {active, None}
  BY <1>4
<1> QED
  BY <1>1, <1>2, <1>3, <1>4 DEF Next, Enqueues, Drain, CancelStep, TeardownStep, NodeStep,
        Enqueue, RegisterWaiter, Begin, PlanFails, Plan, Propose, Complete, QueueTimeout, Crash, Sweep,
        Cancel, CancelMark, CancelDesired, CancelNode, CancelRows, Teardown, TeardownClear, DeleteRows,
        DeleteProject, NodeStart, NodeProgress, NodeDone, NodeFails, callVars, drainVars, vars

\* drainQueue starts deployments in the order of their requests, across restarts too,
\* while no request overlaps another call (recoverDeployQueue sorts by creation).
THEOREM DeploysInOrder == Spec => FirstComeFirstDeployed
<1>1. IInv /\ [Next]_vars =>
        [Never({"overlap"}) /\ active' \notin {active, None} =>
           \A i \in Instances :
              row[i].active /\ row[i].state = "QUEUED" => i >= active' \/ BeingCancelled(i)]_vars
  BY StartsInOrder
<1> QED
  BY <1>1, Invariance, PTL DEF Spec, FirstComeFirstDeployed

=============================================================================
