--------------------------- MODULE ManagementProofs ---------------------------
(***************************************************************************)
(* What the leader keeps for its users. Of projects, for any names, values *)
(* of the configuration and requests at once: what was asked for is stored *)
(* and deployed, and deployments are triggered as the configuration says.  *)
(* Of reserved ports, for every number of projects, nodes, variables,      *)
(* ports and requests at once: a port is reserved once, for a project that *)
(* exists, and not given to another.                                       *)
(***************************************************************************)
EXTENDS MCManagement, TLAPS, FiniteSetTheorems

-----------------------------------------------------------------------------
(* Projects: the strengthening.                                            *)

\* What a request may still have to do, and what it has read: a hook is one of
\* the first c.
ProjectRows(c) ==
    [exists : BOOLEAN, config : C!Values, quota : C!Values, key : C!Values, node : C!Values,
     names : SUBSET Names, cicd : Setups \cup {C!NoCd}, hook : 0..c]
Updates(c) ==
    {C!Nothing} \cup [config : C!Values] \cup [quota : C!Values] \cup [key : C!Values]
    \cup [names : SUBSET Names] \cup [cicd : Setups \cup {C!NoCd}] \cup [hook : 0..c]
Words == {"read", "clear", "repo", "dotenv", "replace", "unschedule", "ensure", "schedule", "hook", "unused",
          "consumers", "unhook", "webhooks", "project", "legacy"}
Steps(c) ==
    [do : Words, with : {C!Nothing}] \cup [do : {"write"}, with : Updates(c)]
    \cup [do : {"put"}, with : [name : Names, value : C!Values]]
Handled(c) == [todo : Seq(Steps(c)), row : ProjectRows(c), names : SUBSET Names]
AskedFor == [config : C!Values, quota : C!Values, key : C!Values, node : C!Values, secrets : [Names -> C!Values]]

ProjectTyped ==
    /\ created \in Nat /\ hooks \subseteq 1..created
    /\ row \in ProjectRows(created)
    /\ secrets \in [Names -> {C!Absent} \cup C!Values]
    /\ wants \in BOOLEAN /\ task \in BOOLEAN
    /\ repo \subseteq Names /\ missing \subseteq Names
    /\ flow \in [Flows -> Handled(created)]
    /\ asked \in AskedFor
    /\ used \in [C!Kinds -> Nat]

\* The order of the steps of a request: it reads the row just before it writes it,
\* secrets are replaced before anything else is done, the dotenv file comes last.
Ahead(s, word) == \E i \in 1..Len(s) : s[i].do = word
Plain(s) == \A i \in 1..Len(s) : s[i].do \notin {"put", "clear"}
WellFormed(s) ==
    /\ \A i \in 2..Len(s) : s[i].do = "write" => s[i - 1].do = "read"
    /\ \A i \in 2..Len(s) : s[i].do # "clear"
    /\ \A i \in 1..Len(s) : s[i].do = "put" => \A j \in 1..i : s[j].do \in {"put", "clear"}
    /\ \A i \in 1..Len(s) : s[i].do = "dotenv" => i = Len(s)

\* One request is handled at a time, and what it is about to write back is what
\* the row holds.
OneAtATime == \A f, g \in Flows : ~C!Idle(f) /\ ~C!Idle(g) => f = g
ReadsAreFresh == \A f \in Flows : C!At(f, "write") => row.exists /\ flow[f].row = row

\* Step i of s gives a value to n.
Gives(s, i, n) == s[i].do = "put" /\ s[i].with.name = n
Given(s, n) == \E i \in 1..Len(s) : Gives(s, i, n)
Cleared(s) == s # <<>> /\ s[1].do = "clear"

\* A user gave w to n, which has the value v: it is there, or the request that has
\* cleared the secrets is about to put it back; or it puts the value of another user.
Holds(s, n, v, w) ==
    /\ Given(s, n) \/ (v = w /\ ~Cleared(s))
    /\ Tail(s) = C!Update(C!Nothing) \/ \A i \in 1..Len(s) : Gives(s, i, n) => s[i].with.value = w
ValuesHeld ==
    \A n \in Names : asked.secrets[n] # 0 =>
        /\ C!Quiet => secrets[n] = asked.secrets[n]
        /\ \A f \in Flows : ~C!Idle(f) => Holds(flow[f].todo, n, secrets[n], asked.secrets[n])

\* A deployment has still to synchronise, or all names have a value or are about
\* to be given one.
Synced(s, values) == \A n \in Names : Given(s, n) \/ (values[n] # C!Absent /\ ~Cleared(s))
DeploysAreSynced ==
    \A f \in Flows : Ahead(flow[f].todo, "dotenv") => Ahead(flow[f].todo, "repo") \/ Synced(flow[f].todo, secrets)

-----------------------------------------------------------------------------
(* How often events have happened.                                         *)

\* Counting events keeps the counts natural numbers, and counts those named.
LEMMA ProjectEvents ==
    ASSUME used \in [C!Kinds -> Nat], NEW kinds \in SUBSET C!Kinds, C!Uses(kinds)
    PROVE  /\ used' \in [C!Kinds -> Nat]
           /\ \A k \in kinds : used'[k] > 0
           /\ \A K \in SUBSET C!Kinds : C!Never(K)' => C!Never(K)
<1>1. used' = [k \in C!Kinds |-> used[k] + (IF k \in kinds THEN 1 ELSE 0)]
  BY DEF C!Uses
<1>2. \A k \in C!Kinds : used'[k] = used[k] + (IF k \in kinds THEN 1 ELSE 0)
  BY <1>1
<1>3. used' \in [C!Kinds -> Nat]
  BY <1>1
<1>4. \A k \in C!Kinds : used'[k] = 0 => used[k] = 0
  BY <1>2
<1>5. \A K \in SUBSET C!Kinds : C!Never(K)' => C!Never(K)
  BY <1>4 DEF C!Never
<1> QED
  BY <1>2, <1>3, <1>5

-----------------------------------------------------------------------------
(* Lists of steps.                                                         *)

\* The names of a finite set in a sequence are all there.
LEMMA AllInSequence ==
    ASSUME NEW S, IsFiniteSet(S)
    PROVE  /\ C!SetToSeq(S) \in Seq(S)
           /\ \A x \in S : \E i \in 1..Len(C!SetToSeq(S)) : C!SetToSeq(S)[i] = x
<1> DEFINE n == Cardinality(S)
<1>1. n \in Nat /\ ExistsBijection(1..n, S)
  BY FS_CardinalityType
<1>2. PICK g \in Bijection(1..n, S) : TRUE
  BY <1>1 DEF ExistsBijection
<1>3. g \in [1..n -> S] /\ C!IsInjective(g)
  BY <1>2 DEF Bijection, Injection, IsInjective, C!IsInjective
<1>0. C!Cardinality(S) = Cardinality(S)
  BY DEF C!Cardinality, Cardinality
<1>4. C!SetToSeq(S) \in [1..n -> S] /\ C!IsInjective(C!SetToSeq(S))
  BY <1>0, <1>3 DEF C!SetToSeq
<1>5. IsFiniteSet(1..n) /\ Cardinality(1..n) = n
  BY <1>1, FS_Interval
<1>6. C!SetToSeq(S) \in Injection(1..n, S)
  BY <1>4 DEF Injection, IsInjective, C!IsInjective
<1>7. C!SetToSeq(S) \in Surjection(1..n, S)
  BY <1>5, <1>6, FS_Injection
<1> QED
  BY <1>1, <1>4, <1>7 DEF Surjection

\* What replaces the secrets clears them and gives each name its value.
Replaces(s, names, new, c) ==
    /\ s \in Seq(Steps(c)) /\ s # <<>> /\ s[1] = C!Do("clear")
    /\ \A i \in 2..Len(s) : /\ s[i].do = "put" /\ s[i].with.name \in names
                            /\ s[i].with.value = new[s[i].with.name]
    /\ \A n \in names : \E i \in 2..Len(s) : s[i].with.name = n

\* SetSecrets does.
LEMMA SecretsAreGiven ==
    ASSUME NEW c \in Nat, NEW names \in SUBSET Names, NEW new \in [names -> C!Values]
    PROVE  Replaces(C!SetSecrets(new), names, new, c)
<1> DEFINE order == C!SetToSeq(names)
           puts == [i \in DOMAIN order |-> C!Put(order[i], new[order[i]])]
           s == C!SetSecrets(new)
<1>1. IsFiniteSet(names)
  BY NamesAssumption, FS_Subset
<1>2. order \in Seq(names) /\ \A n \in names : \E i \in 1..Len(order) : order[i] = n
  BY <1>1, AllInSequence
<1>3. \A i \in 1..Len(order) : order[i] \in names
  BY <1>2
<1>4. \A n \in names : C!Put(n, new[n]) \in Steps(c)
  BY DEF C!Put, Steps
<1>5. puts \in Seq(Steps(c)) /\ Len(puts) = Len(order) /\ \A i \in 1..Len(order) : puts[i] = C!Put(order[i], new[order[i]])
  <2> HIDE DEF order
  <2>1. DOMAIN order = 1..Len(order) /\ Len(order) \in Nat
    BY <1>2
  <2>2. puts \in [1..Len(order) -> Steps(c)]
    BY <1>3, <1>4, <2>1
  <2> QED
    BY <2>1, <2>2
<1>6. <<C!Do("clear")>> \in Seq(Steps(c))
  BY DEF C!Do, Steps, Words
<1>7. s = <<C!Do("clear")>> \o puts
  BY DEF C!SetSecrets
<1> HIDE DEF puts, order, s
<1>8. /\ s \in Seq(Steps(c)) /\ Len(s) = 1 + Len(order) /\ s[1] = C!Do("clear")
      /\ \A i \in 2..Len(s) : s[i] = puts[i - 1]
  BY <1>2, <1>5, <1>6, <1>7
<1>9. \A i \in 2..Len(s) : i - 1 \in 1..Len(order)
  BY <1>2, <1>8
<1>10. \A i \in 2..Len(s) : s[i] = C!Put(order[i - 1], new[order[i - 1]]) /\ order[i - 1] \in names
  BY <1>3, <1>5, <1>8, <1>9
<1>11. \A i \in 2..Len(s) : /\ s[i].do = "put" /\ s[i].with.name \in names
                            /\ s[i].with.value = new[s[i].with.name]
  <2> SUFFICES ASSUME NEW i \in 2..Len(s)
               PROVE  /\ s[i].do = "put" /\ s[i].with.name \in names
                      /\ s[i].with.value = new[s[i].with.name]
    OBVIOUS
  <2>1. s[i] = C!Put(order[i - 1], new[order[i - 1]]) /\ order[i - 1] \in names
    BY <1>10
  <2> QED
    BY <2>1 DEF C!Put
<1>12. ASSUME NEW n \in names PROVE \E i \in 2..Len(s) : s[i].with.name = n
  <2>1. PICK i \in 1..Len(order) : order[i] = n
    BY <1>2
  <2>2. i + 1 \in 2..Len(s) /\ (i + 1) - 1 = i
    <3>1. Len(order) \in Nat
      BY <1>2
    <3> QED
      BY <1>8, <3>1
  <2>3. s[i + 1] = C!Put(order[i], new[order[i]])
    BY <1>10, <2>2
  <2> QED
    BY <2>1, <2>2, <2>3 DEF C!Put
<1>13. s # <<>>
  BY <1>2, <1>8
<1> QED
  BY <1>8, <1>11, <1>12, <1>13 DEF s, Replaces

\* What is left of a list when its first step is done.
LEMMA RestOfSteps ==
    ASSUME NEW S, NEW s \in Seq(S), s # <<>>
    PROVE  /\ Head(s) = s[1] /\ Head(s) \in S /\ Len(s) \in Nat \ {0}
           /\ Tail(s) \in Seq(S) /\ Len(Tail(s)) = Len(s) - 1
           /\ \A i \in 1..Len(Tail(s)) : Tail(s)[i] = s[i + 1] /\ i + 1 \in 2..Len(s)
           /\ \A i \in 2..Len(s) : s[i] = Tail(s)[i - 1] /\ i - 1 \in 1..Len(Tail(s))
OBVIOUS

\* The rest of a list is in order; it does not begin by writing unless the row
\* has just been read, and no secret is left to put once another step has its turn.
LEMMA RestIsWellFormed ==
    ASSUME NEW S, NEW s \in Seq(S), s # <<>>, WellFormed(s)
    PROVE  /\ WellFormed(Tail(s)) /\ ~Cleared(Tail(s))
           /\ s[1].do # "read" => Tail(s) = <<>> \/ Tail(s)[1].do # "write"
           /\ s[1].do \notin {"put", "clear"} => Plain(Tail(s)) /\ Plain(s)
<1> DEFINE t == Tail(s)
<1>1. /\ Len(s) \in Nat \ {0} /\ t \in Seq(S) /\ Len(t) = Len(s) - 1
      /\ \A i \in 1..Len(t) : t[i] = s[i + 1] /\ i + 1 \in 2..Len(s)
  BY RestOfSteps
<1> HIDE DEF t
<1>2. \A i \in 2..Len(t) : t[i] = s[i + 1] /\ t[i - 1] = s[i] /\ i + 1 \in 2..Len(s) /\ (i + 1) - 1 = i
  BY <1>1
<1>3. \A i \in 2..Len(t) : t[i].do = "write" => t[i - 1].do = "read"
  BY <1>2 DEF WellFormed
<1>4. \A i \in 1..Len(t) : t[i].do # "clear"
  BY <1>1 DEF WellFormed
<1>5. \A i \in 1..Len(t) : t[i].do = "put" => \A j \in 1..i : t[j].do \in {"put", "clear"}
  <2> SUFFICES ASSUME NEW i \in 1..Len(t), t[i].do = "put", NEW j \in 1..i
               PROVE  t[j].do \in {"put", "clear"}
    OBVIOUS
  <2>1. s[i + 1].do = "put" /\ i + 1 \in 1..Len(s) /\ j + 1 \in 1..(i + 1) /\ t[j] = s[j + 1]
    BY <1>1
  <2> QED
    BY <2>1 DEF WellFormed
<1>6. \A i \in 1..Len(t) : t[i].do = "dotenv" => i = Len(t)
  BY <1>1 DEF WellFormed
<1>7. WellFormed(t)
  BY <1>3, <1>4, <1>5, <1>6 DEF WellFormed
<1>8. t # <<>> => 1 \in 1..Len(t)
  BY <1>1
<1>9. ~Cleared(t)
  BY <1>4, <1>8 DEF Cleared
<1>10. s[1].do # "read" => t = <<>> \/ t[1].do # "write"
  BY <1>1, <1>8 DEF WellFormed
<1>11. ASSUME s[1].do \notin {"put", "clear"} PROVE Plain(s) /\ Plain(t)
  <2>1. \A i \in 1..Len(s) : s[i].do # "put"
    BY <1>1, <1>11 DEF WellFormed
  <2>2. \A i \in 1..Len(s) : s[i].do # "clear"
    BY <1>1, <1>11 DEF WellFormed
  <2> QED
    BY <1>1, <2>1, <2>2 DEF Plain
<1> QED
  BY <1>7, <1>9, <1>10, <1>11 DEF t

\* Steps put before others that neither write first nor put secrets.
LEMMA JoinedIsWellFormed ==
    ASSUME NEW S, NEW s \in Seq(S), NEW t \in Seq(S), WellFormed(s), WellFormed(t),
           Plain(t), t = <<>> \/ t[1].do # "write", ~Ahead(s, "dotenv")
    PROVE  /\ s \o t \in Seq(S) /\ WellFormed(s \o t)
           /\ Plain(s) => Plain(s \o t)
           /\ s # <<>> => (s \o t # <<>> /\ (s \o t)[1] = s[1])
           /\ \A word : Ahead(s \o t, word) <=> Ahead(s, word) \/ Ahead(t, word)
           /\ \A n : Given(s \o t, n) <=> Given(s, n)
           /\ \A n : \A i \in 1..Len(s \o t) : Gives(s \o t, i, n) => i \in 1..Len(s) /\ Gives(s, i, n) /\ (s \o t)[i] = s[i]
<1> DEFINE u == s \o t
<1>1. /\ u \in Seq(S) /\ Len(s) \in Nat /\ Len(t) \in Nat /\ Len(u) = Len(s) + Len(t)
      /\ \A i \in 1..Len(s) : u[i] = s[i] /\ i \in 1..Len(u)
      /\ \A i \in 1..Len(t) : u[Len(s) + i] = t[i] /\ Len(s) + i \in 1..Len(u)
  OBVIOUS
<1> HIDE DEF u
<1>2. \A i \in 1..Len(u) : \/ i \in 1..Len(s) /\ u[i] = s[i]
                           \/ i > Len(s) /\ i - Len(s) \in 1..Len(t) /\ u[i] = t[i - Len(s)]
  <2> TAKE i \in 1..Len(u)
  <2>1. CASE i <= Len(s)
    BY <1>1, <2>1
  <2>2. CASE i > Len(s)
    <3>1. i - Len(s) \in 1..Len(t) /\ Len(s) + (i - Len(s)) = i
      BY <1>1, <2>2
    <3> QED
      BY <1>1, <2>2, <3>1
  <2> QED
    BY <1>1, <2>1, <2>2
<1>3. \A i \in 2..Len(u) : u[i].do = "write" => u[i - 1].do = "read"
  <2> SUFFICES ASSUME NEW i \in 2..Len(u), u[i].do = "write" PROVE u[i - 1].do = "read"
    OBVIOUS
  <2>1. CASE i \in 1..Len(s)
    BY <1>1, <2>1 DEF WellFormed
  <2>2. CASE i = Len(s) + 1
    <3>1. 1 \in 1..Len(t) /\ u[i] = t[1] /\ t # <<>>
      BY <1>1, <2>2
    <3> QED
      BY <3>1
  <2>3. CASE i > Len(s) + 1
    <3>1. PICK k \in 2..Len(t) : i = Len(s) + k
      <4>1. i - Len(s) \in 2..Len(t) /\ i = Len(s) + (i - Len(s))
        BY <1>1, <2>3
      <4> QED
        BY <4>1
    <3>2. k - 1 \in 1..Len(t) /\ k \in 1..Len(t) /\ i - 1 = Len(s) + (k - 1)
      BY <1>1, <3>1
    <3>3. u[i] = t[k] /\ u[i - 1] = t[k - 1]
      BY <1>1, <3>1, <3>2
    <3> QED
      BY <3>1, <3>3 DEF WellFormed
  <2>4. i \in 1..Len(s) \/ i = Len(s) + 1 \/ i > Len(s) + 1
    BY <1>1
  <2> QED
    BY <2>1, <2>2, <2>3, <2>4
<1>4. \A i \in 1..Len(u) : u[i].do \in {"put", "clear"} => i \in 1..Len(s) /\ u[i] = s[i]
  BY <1>2 DEF Plain
<1>5. \A i \in 2..Len(u) : u[i].do # "clear"
  BY <1>1, <1>4 DEF WellFormed
<1>6. \A i \in 1..Len(u) : u[i].do = "put" => \A j \in 1..i : u[j].do \in {"put", "clear"}
  <2> SUFFICES ASSUME NEW i \in 1..Len(u), u[i].do = "put", NEW j \in 1..i
               PROVE  u[j].do \in {"put", "clear"}
    OBVIOUS
  <2>1. i \in 1..Len(s) /\ s[i].do = "put" /\ j \in 1..Len(s)
    BY <1>1, <1>4
  <2> QED
    BY <1>1, <2>1 DEF WellFormed
<1>7. \A i \in 1..Len(u) : u[i].do = "dotenv" => i = Len(u)
  <2> SUFFICES ASSUME NEW i \in 1..Len(u), u[i].do = "dotenv" PROVE i = Len(u)
    OBVIOUS
  <2>1. i > Len(s) /\ i - Len(s) \in 1..Len(t) /\ t[i - Len(s)].do = "dotenv"
    BY <1>2 DEF Ahead
  <2>2. i - Len(s) = Len(t)
    BY <2>1 DEF WellFormed
  <2> QED
    BY <1>1, <2>1, <2>2
<1>8. WellFormed(u)
  BY <1>3, <1>5, <1>6, <1>7 DEF WellFormed
<1>9. Plain(s) => Plain(u)
  BY <1>4 DEF Plain
<1>10. s # <<>> => u # <<>> /\ u[1] = s[1]
  BY <1>1
<1>11. ASSUME NEW word PROVE Ahead(u, word) <=> Ahead(s, word) \/ Ahead(t, word)
  <2>1. ASSUME Ahead(u, word) PROVE Ahead(s, word) \/ Ahead(t, word)
    <3>1. PICK i \in 1..Len(u) : u[i].do = word
      BY <2>1 DEF Ahead
    <3> QED
      BY <1>2, <3>1 DEF Ahead
  <2>2. ASSUME Ahead(s, word) PROVE Ahead(u, word)
    BY <1>1, <2>2 DEF Ahead
  <2>3. ASSUME Ahead(t, word) PROVE Ahead(u, word)
    BY <1>1, <2>3 DEF Ahead
  <2> QED
    BY <2>1, <2>2, <2>3
<1>12. ASSUME NEW i \in 1..Len(u), NEW n PROVE Gives(u, i, n) => i \in 1..Len(s) /\ Gives(s, i, n) /\ u[i] = s[i]
  BY <1>4 DEF Gives
<1>13. ASSUME NEW n PROVE Given(u, n) <=> Given(s, n)
  BY <1>1, <1>12 DEF Given, Gives
<1> QED
  BY <1>1, <1>8, <1>9, <1>10, <1>11, <1>12, <1>13 DEF u

-----------------------------------------------------------------------------
(* Steps that neither put secrets nor write a row that was not read.       *)

\* Steps that may come after others; a deployment is the only one with a dotenv file.
Follows(s, c) == s \in Seq(Steps(c)) /\ WellFormed(s) /\ Plain(s) /\ (s = <<>> \/ s[1].do # "write")
Fit(s, c) == Follows(s, c) /\ ~Ahead(s, "dotenv")

\* More hooks, more steps.
LEMMA StepsGrow ==
    ASSUME NEW c \in Nat, NEW d \in Nat, c <= d
    PROVE  Steps(c) \subseteq Steps(d) /\ ProjectRows(c) \subseteq ProjectRows(d) /\ Handled(c) \subseteq Handled(d)
<1>1. 0..c \subseteq 0..d
  OBVIOUS
<1>2. Updates(c) \subseteq Updates(d)
  BY <1>1 DEF Updates
<1>3. Steps(c) \subseteq Steps(d)
  BY <1>2 DEF Steps
<1>4. ProjectRows(c) \subseteq ProjectRows(d)
  BY <1>1 DEF ProjectRows
<1>5. Seq(Steps(c)) \subseteq Seq(Steps(d))
  BY <1>3
<1> QED
  BY <1>3, <1>4, <1>5 DEF Handled

\* No steps at all.
LEMMA NothingIsFit ==
    ASSUME NEW c PROVE Fit(<<>>, c) /\ <<>> \in Seq(Steps(c))
BY DEF Fit, Follows, WellFormed, Plain, Ahead

\* A step that needs nothing but its name.
LEMMA WordIsFit ==
    ASSUME NEW c \in Nat, NEW w \in Words \ {"clear", "dotenv"}
    PROVE  Fit(<<C!Do(w)>>, c)
<1>1. C!Do(w) \in Steps(c)
  BY DEF Steps, C!Do
<1>2. C!Do(w).do = w /\ w \notin {"write", "put", "clear", "dotenv"}
  BY DEF C!Do, Words
<1> HIDE DEF C!Do
<1> QED
  BY <1>1, <1>2 DEF Fit, Follows, WellFormed, Plain, Ahead

\* Two of them.
LEMMA WordsAreFit ==
    ASSUME NEW c \in Nat, NEW v \in Words \ {"clear", "dotenv"}, NEW w \in Words \ {"clear", "dotenv"}
    PROVE  Fit(<<C!Do(v), C!Do(w)>>, c)
<1>1. C!Do(v) \in Steps(c) /\ C!Do(w) \in Steps(c)
  BY DEF Steps, C!Do
<1>2. /\ C!Do(v).do = v /\ C!Do(w).do = w
      /\ v \notin {"write", "put", "clear", "dotenv"} /\ w \notin {"write", "put", "clear", "dotenv"}
  BY DEF C!Do, Words
<1> HIDE DEF C!Do
<1> QED
  BY <1>1, <1>2 DEF Fit, Follows, WellFormed, Plain, Ahead

\* The row is read and written.
LEMMA UpdateIsFit ==
    ASSUME NEW c \in Nat, NEW u \in Updates(c)
    PROVE  Fit(C!Update(u), c) /\ C!Update(u) # <<>> /\ C!Update(u)[1].do = "read" /\ ~Ahead(C!Update(u), "repo")
<1>1. C!Do("read") \in Steps(c) /\ C!Write(u) \in Steps(c)
  BY DEF Steps, C!Do, C!Write, Words
<1>2. C!Do("read").do = "read" /\ C!Write(u).do = "write"
  BY DEF C!Do, C!Write
<1> HIDE DEF C!Do, C!Write
<1> QED
  BY <1>1, <1>2 DEF Fit, Follows, WellFormed, Plain, Ahead, C!Update

\* Steps in front of others.
LEMMA FitJoins ==
    ASSUME NEW c \in Nat, NEW s, NEW t, Fit(s, c), Follows(t, c)
    PROVE  /\ Follows(s \o t, c)
           /\ Ahead(s \o t, "dotenv") <=> Ahead(t, "dotenv")
           /\ Ahead(t, "repo") => Ahead(s \o t, "repo")
           /\ Fit(t, c) => Fit(s \o t, c)
<1>1. /\ s \o t \in Seq(Steps(c)) /\ WellFormed(s \o t) /\ Plain(s \o t)
      /\ s # <<>> => s \o t # <<>> /\ (s \o t)[1] = s[1]
      /\ \A word : Ahead(s \o t, word) <=> Ahead(s, word) \/ Ahead(t, word)
  BY JoinedIsWellFormed DEF Fit, Follows
<1>2. s = <<>> => s \o t = t
  BY DEF Follows
<1>3. s \o t = <<>> \/ (s \o t)[1].do # "write"
  BY <1>1, <1>2 DEF Fit, Follows
<1> QED
  BY <1>1, <1>3 DEF Fit, Follows

\* A request moves on to the steps s.
Moves(f, s) ==
    /\ flow' \in [Flows -> Handled(created')] /\ flow'[f].todo = s
    /\ \A g \in Flows : g # f => flow'[g] = flow[g]

\* Nobody's request has nothing to do.
LEMMA NoFlowIsHandled ==
    ASSUME NEW c \in Nat PROVE C!NoFlow \in Handled(c) /\ C!NoFlow.todo = <<>>
<1>0. C!NewRow \in ProjectRows(c)
  BY DEF C!NewRow, ProjectRows, C!NoHook, C!Values
<1>1. C!NoRow \in ProjectRows(c)
  <2> HIDE DEF C!NewRow
  <2> QED
    BY <1>0 DEF C!NoRow, ProjectRows
<1> HIDE DEF C!NoRow
<1> QED
  BY <1>1 DEF C!NoFlow, Handled

\* What Goes does to the requests.
LEMMA GoesMoves ==
    ASSUME ProjectTyped, NEW f \in Flows, created' \in Nat, created <= created',
           NEW s \in Seq(Steps(created')), C!Goes(f, s)
    PROVE  Moves(f, s)
<1>1. flow \in [Flows -> Handled(created')]
  BY StepsGrow DEF ProjectTyped
<1>2. CASE s = <<>>
  <2>1. flow' = [flow EXCEPT ![f] = C!NoFlow]
    BY <1>2 DEF C!Goes
  <2> QED
    BY <1>1, <1>2, <2>1, NoFlowIsHandled DEF Moves
<1>3. CASE s # <<>>
  <2>1. flow' = [flow EXCEPT ![f] = [flow[f] EXCEPT !.todo = s]]
    BY <1>3 DEF C!Goes
  <2>2. [flow[f] EXCEPT !.todo = s] \in Handled(created') /\ [flow[f] EXCEPT !.todo = s].todo = s
    BY <1>1 DEF Handled
  <2> QED
    BY <1>1, <2>1, <2>2 DEF Moves
<1> QED
  BY <1>2, <1>3

\* The list of a request in progress.
LEMMA TodoIsTyped ==
    ASSUME ProjectTyped, NEW f \in Flows, created' \in Nat, created <= created'
    PROVE  /\ flow[f].todo \in Seq(Steps(created)) /\ flow[f].todo \in Seq(Steps(created'))
           /\ flow[f].row \in ProjectRows(created)
           /\ C!Idle(f) <=> flow[f].todo = <<>>
<1>1. flow[f] \in Handled(created) /\ flow[f] \in Handled(created')
  BY StepsGrow DEF ProjectTyped
<1> QED
  BY <1>1 DEF Handled, C!Idle

\* The part that does not concern secrets: what a request does next is in order,
\* it has read what it writes next, and a deployment synchronises.
Walks(f) ==
    /\ flow' \in [Flows -> Handled(created')]
    /\ \A g \in Flows : g # f => flow'[g] = flow[g]
    /\ LET s == flow[f].todo
           t == flow'[f].todo
       IN  /\ WellFormed(t) /\ Plain(t)
           /\ t = <<>> \/ t[1].do # "write" \/ (row.exists /\ row' = row /\ flow'[f].row = row)
           /\ C!Idle(f) => /\ Ahead(t, "dotenv") => Ahead(t, "repo")
                           /\ C!Quiet \/ ~C!Never({"overlap"})'
           /\ ~C!Idle(f) => /\ Plain(s)
                            /\ Ahead(t, "dotenv") => Ahead(s, "dotenv") /\ (Ahead(s, "repo") => Ahead(t, "repo"))

\* A request that has done a step of its list that is no other's.
LEMMA RestFollows ==
    ASSUME ProjectTyped, NEW f \in Flows, created' \in Nat, created <= created', ~C!Idle(f), WellFormed(flow[f].todo),
           Head(flow[f].todo).do \notin {"read", "put", "clear"}
    PROVE  /\ Follows(C!Rest(f), created') /\ Plain(flow[f].todo)
           /\ Ahead(C!Rest(f), "dotenv") => Ahead(flow[f].todo, "dotenv")
           /\ Ahead(flow[f].todo, "repo") /\ Head(flow[f].todo).do # "repo" => Ahead(C!Rest(f), "repo")
           /\ Head(flow[f].todo).do = "dotenv" => C!Rest(f) = <<>>
<1> DEFINE s == flow[f].todo
<1>1. s \in Seq(Steps(created')) /\ s # <<>>
  BY TodoIsTyped
<1>2. /\ Head(s) = s[1] /\ Len(s) \in Nat \ {0}
      /\ Tail(s) \in Seq(Steps(created')) /\ Len(Tail(s)) = Len(s) - 1
      /\ \A i \in 1..Len(Tail(s)) : Tail(s)[i] = s[i + 1] /\ i + 1 \in 2..Len(s)
      /\ \A i \in 2..Len(s) : s[i] = Tail(s)[i - 1] /\ i - 1 \in 1..Len(Tail(s))
  BY <1>1, RestOfSteps
<1>3. Follows(Tail(s), created') /\ Plain(s)
  BY <1>1, <1>2, RestIsWellFormed DEF Follows
<1>4. Ahead(Tail(s), "dotenv") => Ahead(s, "dotenv")
  BY <1>2 DEF Ahead
<1>5. Ahead(s, "repo") /\ Head(s).do # "repo" => Ahead(Tail(s), "repo")
  <2> SUFFICES ASSUME Ahead(s, "repo"), Head(s).do # "repo" PROVE Ahead(Tail(s), "repo")
    OBVIOUS
  <2>1. PICK i \in 1..Len(s) : s[i].do = "repo"
    BY DEF Ahead
  <2>2. i \in 2..Len(s)
    BY <1>2, <2>1
  <2> QED
    BY <1>2, <2>1, <2>2 DEF Ahead
<1>6. Head(s).do = "dotenv" => Tail(s) = <<>>
  BY <1>1, <1>2 DEF WellFormed
<1> QED
  BY <1>3, <1>4, <1>5, <1>6 DEF C!Rest

\* It goes on with new steps before the rest.
LEMMA StepWalks ==
    ASSUME ProjectTyped, NEW f \in Flows, created' \in Nat, created <= created', ~C!Idle(f), WellFormed(flow[f].todo),
           Head(flow[f].todo).do \notin {"read", "put", "clear", "repo"},
           NEW new, Fit(new, created'), C!Goes(f, new \o C!Rest(f)) \/ Moves(f, new \o C!Rest(f))
    PROVE  Walks(f)
<1> DEFINE s == flow[f].todo
           t == new \o C!Rest(f)
<1>1. /\ Follows(C!Rest(f), created') /\ Plain(s)
      /\ Ahead(C!Rest(f), "dotenv") => Ahead(s, "dotenv")
      /\ Ahead(s, "repo") => Ahead(C!Rest(f), "repo")
  BY RestFollows
<1>2. /\ Follows(t, created')
      /\ Ahead(t, "dotenv") => Ahead(s, "dotenv")
      /\ Ahead(s, "repo") => Ahead(t, "repo")
  BY <1>1, FitJoins
<1>0. C!Goes(f, t) \/ Moves(f, t)
  OBVIOUS
<1> HIDE DEF t
<1>3. t \in Seq(Steps(created')) /\ WellFormed(t) /\ Plain(t) /\ (t = <<>> \/ t[1].do # "write")
  BY <1>2 DEF Follows
<1>4. Moves(f, t)
  BY <1>0, <1>3, GoesMoves
<1> QED
  BY <1>1, <1>2, <1>3, <1>4 DEF Moves, Walks

\* It goes on with the rest, or ends.
LEMMA RestWalks ==
    ASSUME ProjectTyped, NEW f \in Flows, created' \in Nat, created <= created', ~C!Idle(f), WellFormed(flow[f].todo),
           \/ Head(flow[f].todo).do \notin {"read", "put", "clear", "repo"} /\ C!Goes(f, C!Rest(f))
           \/ Head(flow[f].todo).do \notin {"put", "clear"} /\ C!Goes(f, <<>>)
    PROVE  Walks(f)
<1>1. CASE Head(flow[f].todo).do \notin {"read", "put", "clear", "repo"} /\ C!Goes(f, C!Rest(f))
  <2>1. C!Rest(f) \in Seq(Steps(created'))
    BY <1>1, RestFollows DEF Follows
  <2>2. <<>> \o C!Rest(f) = C!Rest(f)
    BY <2>1
  <2>3. Fit(<<>>, created')
    BY NothingIsFit
  <2> QED
    BY <1>1, <2>2, <2>3, StepWalks
<1>2. CASE Head(flow[f].todo).do \notin {"put", "clear"} /\ C!Goes(f, <<>>)
  <2>1. flow[f].todo \in Seq(Steps(created')) /\ flow[f].todo # <<>>
    BY TodoIsTyped
  <2>2. Plain(flow[f].todo)
    BY <1>2, <2>1, RestOfSteps, RestIsWellFormed
  <2>3. Moves(f, <<>>)
    BY <1>2, NothingIsFit, GoesMoves
  <2>4. WellFormed(<<>>) /\ Plain(<<>>) /\ ~Ahead(<<>>, "dotenv")
    BY DEF WellFormed, Plain, Ahead
  <2> QED
    BY <2>2, <2>3, <2>4 DEF Moves, Walks
<1> QED
  BY <1>1, <1>2

\* The kinds of events that the statements exclude.
LEMMA KindsAreCounted ==
    /\ \A k \in {"overlap", "crash", "unread", "moved"} : {k} \in SUBSET C!Kinds
    /\ {"overlap", "unread", "moved"} \in SUBSET C!Kinds
    /\ {"overlap", "crash", "unread", "moved"} \in SUBSET C!Kinds
BY DEF C!Kinds

\* A request that begins while another is handled counts as an overlap.
LEMMA BeginsAlone ==
    ASSUME ProjectTyped, NEW event \in C!Kinds, C!Uses(IF C!Quiet THEN {event} ELSE {event, "overlap"})
    PROVE  /\ used' \in [C!Kinds -> Nat] /\ \A K \in SUBSET C!Kinds : C!Never(K)' => C!Never(K)
           /\ C!Quiet \/ ~C!Never({"overlap"})'
<1> DEFINE kinds == IF C!Quiet THEN {event} ELSE {event, "overlap"}
<1>1. kinds \in SUBSET C!Kinds
  BY DEF C!Kinds
<1>2. /\ used' \in [C!Kinds -> Nat] /\ \A k \in kinds : used'[k] > 0
      /\ \A K \in SUBSET C!Kinds : C!Never(K)' => C!Never(K)
  <2> HIDE DEF kinds
  <2>1. C!Uses(kinds)
    BY DEF kinds
  <2> QED
    BY <1>1, <2>1, ProjectEvents DEF ProjectTyped
<1>3. ~C!Quiet => used'["overlap"] > 0
  BY <1>2
<1> QED
  BY <1>2, <1>3 DEF C!Never

\* A request begins with steps that are fit.
LEMMA BeginWalks ==
    ASSUME ProjectTyped, NEW f \in Flows, NEW event \in C!Kinds, NEW s, Fit(s, created), UNCHANGED created,
           C!Begins(f, event, s)
    PROVE  Walks(f)
<1>1. Moves(f, s)
  BY GoesMoves DEF C!Begins, Fit, Follows, ProjectTyped
<1>2. C!Idle(f)
  BY DEF C!Begins, C!Spare
<1>3. C!Quiet \/ ~C!Never({"overlap"})'
  BY BeginsAlone DEF C!Begins
<1> QED
  BY <1>1, <1>2, <1>3 DEF Moves, Walks, Fit, Follows

\* A project that is created while requests are handled overlaps with them, and one
\* that is created over another is counted.
LEMMA CreateIsCounted ==
    ASSUME ProjectTyped, NEW f \in Flows, NEW legacy \in BOOLEAN, C!CreateProject(f, legacy)
    PROVE  /\ C!Quiet \/ ~C!Never({"overlap"})'
           /\ row.exists => ~C!Never({"over"})'
<1> DEFINE kinds == {"create"} \union (IF row.exists THEN {"over"} ELSE {}) \union (IF C!Quiet THEN {} ELSE {"overlap"})
<1>1. C!Uses(kinds)
  BY DEF C!CreateProject
<1>2. /\ kinds \in SUBSET C!Kinds
      /\ row.exists => "over" \in kinds
      /\ ~C!Quiet => "overlap" \in kinds
  BY DEF C!Kinds
<1> HIDE DEF kinds
<1>3. \A k \in kinds : used'[k] > 0
  BY <1>1, <1>2, ProjectEvents DEF ProjectTyped
<1> QED
  BY <1>2, <1>3 DEF C!Never

\* The steps that do so.
Walking(f) ==
    \/ C!ReadProject(f) \/ C!WriteProject(f) \/ C!RowRequests(f)
    \/ C!StartSync(f) \/ C!StartDeploy(f) \/ C!GetDotenv(f)
    \/ \E cd \in Setups : C!SetupManagedCd(f, cd)
    \/ C!RemoveManagedCd(f) \/ C!Unschedule(f) \/ C!RegisterScheduledDeploy(f)
    \/ C!EnsureGithubWebhook(f) \/ C!CreateRepoWebhook(f) \/ C!HookRefused(f)
    \/ C!Unused(f) \/ C!Consumers(f) \/ C!Subscribe(f) \/ C!Quit(f)
    \/ \E refused \in BOOLEAN : C!DeleteRepoWebhook(f, refused)
    \/ \E legacy \in BOOLEAN : C!CreateProject(f, legacy)
    \/ C!StartDelete(f) \/ C!ClearProjectWebhooks(f) \/ C!DeleteProject(f)

\* Hooks are only ever added.
LEMMA HooksAreCounted ==
    ASSUME ProjectTyped, NEW f \in Flows, Walking(f)
    PROVE  created' \in Nat /\ created <= created'
<1>1. UNCHANGED created \/ created' = created + 1
  BY DEF Walking, C!ReadProject, C!WriteProject, C!RowRequests, C!StartSync, C!StartDeploy, C!GetDotenv,
         C!SetupManagedCd, C!RemoveManagedCd, C!Unschedule, C!RegisterScheduledDeploy, C!EnsureGithubWebhook,
         C!CreateRepoWebhook, C!HookRefused, C!Unused, C!Consumers, C!Subscribe, C!Quit, C!DeleteRepoWebhook,
         C!CreateProject, C!StartDelete, C!ClearProjectWebhooks, C!DeleteProject, C!github
<1> QED
  BY <1>1 DEF ProjectTyped

\* What is written is one of the updates, however many hooks there are.
LEMMA UpdatesAreTyped ==
    ASSUME NEW c \in Nat
    PROVE  /\ C!Nothing \in Updates(c)
           /\ \A v \in C!Values : [config |-> v] \in Updates(c) /\ [quota |-> v] \in Updates(c) /\ [key |-> v] \in Updates(c)
           /\ \A names \in SUBSET Names : [names |-> names] \in Updates(c)
           /\ \A cd \in Setups \cup {C!NoCd} : [cicd |-> cd] \in Updates(c)
           /\ \A h \in 0..c : [hook |-> h] \in Updates(c)
BY DEF Updates

\* Each of them does.
LEMMA RequestsWalk ==
    ASSUME ProjectTyped, NEW f \in Flows, WellFormed(flow[f].todo), Walking(f)
    PROVE  Walks(f)
<1> created' \in Nat /\ created <= created' /\ created \in Nat
  BY HooksAreCounted DEF ProjectTyped
<1>1. CASE C!ReadProject(f)
  <2> DEFINE s == flow[f].todo
  <2>1. ~C!Idle(f) /\ Head(s).do = "read" /\ UNCHANGED created
    BY <1>1 DEF C!ReadProject, C!At, C!github
  <2>2. CASE ~row.exists
    BY <1>1, <2>1, <2>2, RestWalks DEF C!ReadProject, C!Ends
  <2>3. CASE row.exists
    <3>1. s \in Seq(Steps(created)) /\ s # <<>> /\ flow \in [Flows -> Handled(created')] /\ row' = row
      BY <1>1, <2>1, TodoIsTyped DEF ProjectTyped, C!ReadProject, C!store
    <3>2. /\ Tail(s) \in Seq(Steps(created)) /\ WellFormed(Tail(s)) /\ Plain(Tail(s)) /\ Plain(s)
          /\ Ahead(Tail(s), "dotenv") => Ahead(s, "dotenv")
          /\ Ahead(s, "repo") => Ahead(Tail(s), "repo")
      <4>1. /\ Head(s) = s[1] /\ Len(s) \in Nat \ {0} /\ Tail(s) \in Seq(Steps(created))
            /\ \A i \in 1..Len(Tail(s)) : Tail(s)[i] = s[i + 1] /\ i + 1 \in 2..Len(s)
            /\ \A i \in 2..Len(s) : s[i] = Tail(s)[i - 1] /\ i - 1 \in 1..Len(Tail(s))
        BY <3>1, RestOfSteps
      <4>2. WellFormed(Tail(s)) /\ Plain(Tail(s)) /\ Plain(s)
        BY <2>1, <3>1, <4>1, RestIsWellFormed
      <4>3. Ahead(Tail(s), "dotenv") => Ahead(s, "dotenv")
        BY <4>1 DEF Ahead
      <4>4. ASSUME Ahead(s, "repo") PROVE Ahead(Tail(s), "repo")
        <5>1. PICK i \in 1..Len(s) : s[i].do = "repo"
          BY <4>4 DEF Ahead
        <5>2. i \in 2..Len(s)
          BY <2>1, <4>1, <5>1
        <5> QED
          BY <4>1, <5>1, <5>2 DEF Ahead
      <4> QED
        BY <4>1, <4>2, <4>3, <4>4
    <3>3. CASE Tail(s) = <<>>
      <4>1. flow' = [flow EXCEPT ![f] = C!NoFlow]
        BY <1>1, <2>3, <3>3 DEF C!ReadProject, C!Reads, C!Rest
      <4>2. /\ flow' \in [Flows -> Handled(created')] /\ flow'[f].todo = <<>>
            /\ \A g \in Flows : g # f => flow'[g] = flow[g]
        BY <3>1, <4>1, NoFlowIsHandled
      <4>3. WellFormed(<<>>) /\ Plain(<<>>) /\ ~Ahead(<<>>, "dotenv")
        BY DEF WellFormed, Plain, Ahead
      <4> QED
        BY <2>1, <3>2, <4>2, <4>3 DEF Walks
    <3>4. CASE Tail(s) # <<>>
      <4> DEFINE r == [[flow[f] EXCEPT !.todo = Tail(s)] EXCEPT !.row = row]
      <4>1. flow' = [flow EXCEPT ![f] = r]
        BY <1>1, <2>3, <3>4 DEF C!ReadProject, C!Reads, C!Rest
      <4>2. r \in Handled(created') /\ r.todo = Tail(s) /\ r.row = row
        BY <2>1, <3>1, <3>2 DEF Handled, ProjectTyped
      <4> HIDE DEF r
      <4>3. /\ flow' \in [Flows -> Handled(created')] /\ flow'[f].todo = Tail(s) /\ flow'[f].row = row
            /\ \A g \in Flows : g # f => flow'[g] = flow[g]
        BY <3>1, <4>1, <4>2
      <4> QED
        BY <2>1, <2>3, <3>1, <3>2, <4>3 DEF Walks
    <3> QED
      BY <3>3, <3>4
  <2> QED
    BY <2>2, <2>3
<1>2. CASE C!WriteProject(f) \/ C!Unschedule(f) \/ C!RegisterScheduledDeploy(f) \/ C!ClearProjectWebhooks(f)
           \/ C!DeleteProject(f)
  <2>1. /\ ~C!Idle(f) /\ Head(flow[f].todo).do \notin {"read", "put", "clear", "repo"}
        /\ C!Goes(f, C!Rest(f))
    BY <1>2 DEF C!WriteProject, C!Unschedule, C!RegisterScheduledDeploy, C!ClearProjectWebhooks, C!DeleteProject, C!At
  <2> QED
    BY <2>1, RestWalks
<1>3. CASE C!RowRequests(f)
  <2>1. PICK v \in C!Values : C!UpdateProject(f, v) \/ C!SetProjectQuota(f, v) \/ C!ResetDeploymentKey(f, v)
    BY <1>3 DEF C!RowRequests
  <2>2. UNCHANGED created
    BY <1>3 DEF C!RowRequests, C!github
  <2>3. Fit(C!Update([config |-> v]), created) /\ Fit(C!Update([quota |-> v]), created)
        /\ Fit(C!Update([key |-> v]), created)
    BY UpdatesAreTyped, UpdateIsFit
  <2>4. Fit(<<C!Do("read")>>, created)
    BY WordIsFit, WordsAreFit DEF Words
  <2>5. Fit(<<C!Do("read")>> \o C!Update([key |-> v]), created)
    BY <2>3, <2>4, FitJoins DEF Fit
  <2>6. "config" \in C!Kinds /\ "quota" \in C!Kinds /\ "key" \in C!Kinds
    BY DEF C!Kinds
  <2>7. CASE C!UpdateProject(f, v)
    BY <2>2, <2>3, <2>6, <2>7, BeginWalks DEF C!UpdateProject
  <2>8. CASE C!SetProjectQuota(f, v)
    BY <2>2, <2>3, <2>6, <2>8, BeginWalks DEF C!SetProjectQuota
  <2>9. CASE C!ResetDeploymentKey(f, v)
    BY <2>2, <2>5, <2>6, <2>9, BeginWalks DEF C!ResetDeploymentKey
  <2> QED
    BY <2>1, <2>7, <2>8, <2>9
<1>4. CASE C!StartSync(f) \/ C!StartDelete(f) \/ C!Subscribe(f) \/ C!Quit(f)
  <2>1. UNCHANGED created
    BY <1>4 DEF C!StartSync, C!StartDelete, C!Subscribe, C!Quit, C!github
  <2>2. /\ Fit(C!SyncProjectToRepoData, created) /\ Fit(<<C!Do("webhooks"), C!Do("project")>>, created)
        /\ Fit(<<C!Do("ensure")>>, created) /\ Fit(<<C!Do("unused")>>, created)
    BY WordIsFit, WordsAreFit DEF Words, C!SyncProjectToRepoData
  <2>3. {"sync", "delete", "subscribe", "quit"} \subseteq C!Kinds
    BY DEF C!Kinds
  <2>4. \/ C!Begins(f, "sync", C!SyncProjectToRepoData)
        \/ C!Begins(f, "delete", <<C!Do("webhooks"), C!Do("project")>>)
        \/ C!Begins(f, "subscribe", <<C!Do("ensure")>>)
        \/ C!Begins(f, "quit", <<C!Do("unused")>>)
    BY <1>4 DEF C!StartSync, C!StartDelete, C!Subscribe, C!Quit
  <2> QED
    BY <2>1, <2>2, <2>3, <2>4, BeginWalks
<1>5. CASE C!StartDeploy(f)
  <2> DEFINE t == C!SyncProjectToRepoData \o <<C!Do("dotenv")>>
             r == [todo |-> t, row |-> row, names |-> {n \in Names : secrets[n] # C!Absent}]
  <2>1. flow' = [flow EXCEPT ![f] = r] /\ UNCHANGED created /\ C!Idle(f)
    BY <1>5 DEF C!StartDeploy, C!github, C!Spare
  <2>2. Follows(t, created) /\ Ahead(t, "repo")
    <3>1. Fit(C!SyncProjectToRepoData, created)
      BY WordsAreFit DEF C!SyncProjectToRepoData, Words
    <3>2. /\ C!Do("repo").do = "repo" /\ C!Do("dotenv").do = "dotenv" /\ C!Do("dotenv") \in Steps(created)
      BY DEF C!Do, Steps, Words
    <3> HIDE DEF C!Do
    <3>3. Follows(<<C!Do("dotenv")>>, created)
      BY <3>2 DEF Follows, WellFormed, Plain
    <3>4. Ahead(C!SyncProjectToRepoData, "repo")
      BY <3>2 DEF Ahead, C!SyncProjectToRepoData
    <3>5. Ahead(t, "repo")
      BY <3>1, <3>3, <3>4, JoinedIsWellFormed DEF Fit, Follows
    <3> QED
      BY <3>1, <3>3, <3>5, FitJoins
  <2> HIDE DEF t
  <2>3. r \in Handled(created') /\ r.todo = t
    BY <2>1, <2>2 DEF Follows, Handled, ProjectTyped
  <2> HIDE DEF r
  <2>4. /\ flow' \in [Flows -> Handled(created')] /\ flow'[f].todo = t
        /\ \A g \in Flows : g # f => flow'[g] = flow[g]
    BY <2>1, <2>3 DEF ProjectTyped
  <2>5. C!Quiet \/ ~C!Never({"overlap"})'
    <3>1. "deploy" \in C!Kinds
      BY DEF C!Kinds
    <3> QED
      BY <1>5, <3>1, BeginsAlone DEF C!StartDeploy
  <2> QED
    BY <2>1, <2>2, <2>4, <2>5 DEF Follows, Walks
<1>6. CASE C!GetDotenv(f) \/ C!HookRefused(f)
  <2>1. ~C!Idle(f) /\ Head(flow[f].todo).do \notin {"put", "clear"} /\ C!Goes(f, <<>>)
    BY <1>6 DEF C!GetDotenv, C!HookRefused, C!At, C!Ends
  <2> QED
    BY <2>1, RestWalks
<1>7. ASSUME NEW cd \in Setups, C!SetupManagedCd(f, cd) PROVE Walks(f)
  <2> DEFINE a == <<C!Do("read"), C!Do("replace")>>
             b == C!Update([cicd |-> cd])
             d == IF cd.triggers # {"schedule"} THEN <<C!Do("ensure")>> ELSE <<>>
             e == IF C!Scheduled(cd) THEN <<C!Do("schedule")>> ELSE <<>>
  <2>1. /\ Fit(a, created) /\ Fit(<<C!Do("ensure")>>, created) /\ Fit(<<C!Do("schedule")>>, created)
    BY WordIsFit, WordsAreFit DEF Words
  <2>2. Fit(b, created) /\ Fit(d, created) /\ Fit(e, created)
    BY <2>1, UpdatesAreTyped, UpdateIsFit, NothingIsFit
  <2>3. UNCHANGED created /\ C!Begins(f, "setup", a \o b \o d \o e)
    BY <1>7 DEF C!SetupManagedCd, C!github
  <2> HIDE DEF a, b, d, e
  <2>4. Fit(a \o b, created)
    BY <2>1, <2>2, FitJoins DEF Fit
  <2>5. Fit((a \o b) \o d, created)
    BY <2>2, <2>4, FitJoins DEF Fit
  <2>6. Fit(((a \o b) \o d) \o e, created)
    BY <2>2, <2>5, FitJoins DEF Fit
  <2>7. "setup" \in C!Kinds
    BY DEF C!Kinds
  <2> QED
    BY <2>3, <2>6, <2>7, BeginWalks
<1>8. CASE C!RemoveManagedCd(f)
  <2> DEFINE a == <<C!Do("read"), C!Do("unschedule")>>
             b == C!Update([cicd |-> C!NoCd])
             d == <<C!Do("unused")>>
  <2>1. Fit(a, created) /\ Fit(d, created)
    BY WordIsFit, WordsAreFit DEF Words
  <2>2. Fit(b, created)
    BY UpdatesAreTyped, UpdateIsFit
  <2>3. UNCHANGED created /\ C!Begins(f, "remove", a \o b \o d)
    BY <1>8 DEF C!RemoveManagedCd, C!github
  <2> HIDE DEF a, b, d
  <2>4. Fit(a \o b, created)
    BY <2>1, <2>2, FitJoins DEF Fit
  <2>5. Fit((a \o b) \o d, created)
    BY <2>1, <2>4, FitJoins DEF Fit
  <2>6. "remove" \in C!Kinds
    BY DEF C!Kinds
  <2> QED
    BY <2>3, <2>5, <2>6, BeginWalks
<1>9. CASE C!EnsureGithubWebhook(f) \/ C!Consumers(f)
  <2>1. Fit(<<C!Do("hook")>>, created') /\ Fit(<<C!Do("unhook")>>, created')
    BY WordIsFit, WordsAreFit DEF Words
  <2>2. /\ ~C!Idle(f) /\ Head(flow[f].todo).do \notin {"read", "put", "clear", "repo"}
        /\ \/ C!Goes(f, C!Rest(f))
           \/ C!Goes(f, <<C!Do("hook")>> \o C!Rest(f))
           \/ C!Goes(f, <<C!Do("unhook")>> \o C!Rest(f))
    BY <1>9 DEF C!EnsureGithubWebhook, C!Consumers, C!At
  <2> HIDE DEF C!Do
  <2> QED
    BY <2>1, <2>2, StepWalks, RestWalks
<1>10. CASE C!CreateRepoWebhook(f) \/ \E refused \in BOOLEAN : C!DeleteRepoWebhook(f, refused)
  <2>1. PICK h \in 0..created' : C!Goes(f, C!Update([hook |-> h]) \o C!Rest(f))
    <3>1. CASE C!CreateRepoWebhook(f)
      BY <3>1 DEF C!CreateRepoWebhook
    <3>2. CASE \E refused \in BOOLEAN : C!DeleteRepoWebhook(f, refused)
      BY <3>2 DEF C!DeleteRepoWebhook, C!NoHook
    <3> QED
      BY <1>10, <3>1, <3>2
  <2>2. Fit(C!Update([hook |-> h]), created')
    BY UpdatesAreTyped, UpdateIsFit
  <2>3. ~C!Idle(f) /\ Head(flow[f].todo).do \notin {"read", "put", "clear", "repo"}
    BY <1>10 DEF C!CreateRepoWebhook, C!DeleteRepoWebhook, C!At
  <2> HIDE DEF C!Update
  <2> QED
    BY <2>1, <2>2, <2>3, StepWalks
<1>11. CASE C!Unused(f)
  <2>1. ~C!Idle(f) /\ Head(flow[f].todo).do = "unused" /\ UNCHANGED created
    BY <1>11 DEF C!Unused, C!At, C!github
  <2>2. CASE C!Goes(f, C!Rest(f))
    BY <2>1, <2>2, RestWalks
  <2>3. CASE flow' = [flow EXCEPT ![f].todo = <<C!Do("consumers")>> \o C!Rest(f), ![f].row = row]
    <3> DEFINE t == <<C!Do("consumers")>> \o C!Rest(f)
               r == [[flow[f] EXCEPT !.todo = t] EXCEPT !.row = row]
    <3>1. Fit(<<C!Do("consumers")>>, created)
      BY WordIsFit, WordsAreFit DEF Words
    <3>2. Follows(t, created')
      BY <2>1, <3>1, RestFollows, FitJoins
    <3> HIDE DEF t
    <3>3. flow' = [flow EXCEPT ![f] = r]
      BY <2>3 DEF t
    <3>4. r \in Handled(created') /\ r.todo = t
      BY <2>1, <3>2 DEF Follows, Handled, ProjectTyped
    <3> HIDE DEF r
    <3>5. Moves(f, t)
      BY <2>1, <3>3, <3>4 DEF Moves, ProjectTyped
    <3> QED
      BY <2>1, <3>1, <3>5, StepWalks DEF t
  <2> QED
    BY <1>11, <2>2, <2>3 DEF C!Unused
<1>12. ASSUME NEW legacy \in BOOLEAN, C!CreateProject(f, legacy) PROVE Walks(f)
  <2> DEFINE a == C!SyncProjectToRepoData
             u == [config |-> 1]
             b == <<C!Do("read"), C!Write(u), C!Do("legacy")>>
  <2>1. Fit(a, created)
    BY WordIsFit, WordsAreFit DEF Words, C!SyncProjectToRepoData
  <2>2. Fit(b, created)
    <3>1. u \in Updates(created)
      BY UpdatesAreTyped DEF C!Values
    <3>2. /\ C!Do("read") \in Steps(created) /\ C!Write(u) \in Steps(created) /\ C!Do("legacy") \in Steps(created)
          /\ C!Do("read").do = "read" /\ C!Write(u).do = "write" /\ C!Do("legacy").do = "legacy"
      BY <3>1 DEF C!Do, C!Write, Steps, Words
    <3> HIDE DEF C!Do, C!Write, u
    <3> QED
      BY <3>2 DEF Fit, Follows, WellFormed, Plain, Ahead
  <2>3. /\ UNCHANGED created /\ C!Spare(f) /\ C!Goes(f, a \o (IF legacy THEN b ELSE <<>>))
        /\ C!Uses({"create"} \union (IF row.exists THEN {"over"} ELSE {}) \union (IF C!Quiet THEN {} ELSE {"overlap"}))
    BY <1>12 DEF C!CreateProject, C!github
  <2>4. Fit(<<>>, created)
    BY NothingIsFit
  <2>5. C!Quiet \/ ~C!Never({"overlap"})'
    BY <1>12, CreateIsCounted
  <2> HIDE DEF a, b
  <2>6. Fit(a \o b, created) /\ Fit(a \o <<>>, created)
    BY <2>1, <2>2, <2>4, FitJoins DEF Fit
  <2> DEFINE s == a \o (IF legacy THEN b ELSE <<>>)
  <2>7. Fit(s, created)
    BY <2>6
  <2> HIDE DEF s
  <2>8. Moves(f, s)
    BY <2>3, <2>7, GoesMoves DEF s, Fit, Follows, ProjectTyped
  <2>9. C!Idle(f)
    BY <2>3 DEF C!Spare
  <2> QED
    BY <2>5, <2>7, <2>8, <2>9 DEF Moves, Walks, Fit, Follows
<1> QED
  BY <1>1, <1>2, <1>3, <1>4, <1>5, <1>6, <1>7, <1>8, <1>9, <1>10, <1>11, <1>12 DEF Walking

-----------------------------------------------------------------------------
(* Steps that put secrets.                                                 *)

\* A list that begins so, and has a dotenv file to make if the rest t has.
ReplacesFirst(u, names, new, t, c) ==
    /\ u \in Seq(Steps(c)) /\ WellFormed(u) /\ u # <<>> /\ u[1] = C!Do("clear")
    /\ \A n \in names : Given(u, n)
    /\ \A n : \A i \in 1..Len(u) : Gives(u, i, n) => n \in names /\ u[i].with.value = new[n]
    /\ Ahead(u, "dotenv") <=> Ahead(t, "dotenv")
    /\ Ahead(t, "repo") => Ahead(u, "repo")

\* Replacing the secrets, and then other steps.
LEMMA ReplacedFirst ==
    ASSUME NEW c \in Nat, NEW names \in SUBSET Names, NEW new \in [names -> C!Values], NEW t, Follows(t, c)
    PROVE  ReplacesFirst(C!SetSecrets(new) \o t, names, new, t, c)
<1> DEFINE s == C!SetSecrets(new)
           u == s \o t
<1>1. /\ s \in Seq(Steps(c)) /\ s # <<>> /\ s[1] = C!Do("clear")
      /\ \A i \in 2..Len(s) : /\ s[i].do = "put" /\ s[i].with.name \in names
                              /\ s[i].with.value = new[s[i].with.name]
      /\ \A n \in names : \E i \in 2..Len(s) : s[i].with.name = n
  <2>1. Replaces(s, names, new, c)
    BY SecretsAreGiven
  <2> HIDE DEF s
  <2> QED
    BY <2>1 DEF Replaces
<1> HIDE DEF s
<1>2. s[1].do = "clear" /\ Len(s) \in Nat /\ Len(s) >= 1
  BY <1>1 DEF C!Do
<1>3. \A i \in 1..Len(s) : i = 1 \/ i \in 2..Len(s)
  BY <1>2
<1>4. \A i \in 1..Len(s) : s[i].do \in {"put", "clear"}
  BY <1>1, <1>2, <1>3
<1>5. WellFormed(s) /\ ~Ahead(s, "dotenv")
  <2>1. \A i \in 1..Len(s) : \A j \in 1..i : j \in 1..Len(s)
    BY <1>2
  <2>2. \A i \in 2..Len(s) : s[i].do = "put"
    BY <1>1
  <2> QED
    BY <1>4, <2>1, <2>2 DEF WellFormed, Ahead
<1>6. /\ u \in Seq(Steps(c)) /\ WellFormed(u) /\ u # <<>> /\ u[1] = C!Do("clear")
      /\ \A word : Ahead(u, word) <=> Ahead(s, word) \/ Ahead(t, word)
      /\ \A n : Given(u, n) <=> Given(s, n)
      /\ \A n : \A i \in 1..Len(u) : Gives(u, i, n) => i \in 1..Len(s) /\ Gives(s, i, n) /\ u[i] = s[i]
  BY <1>1, <1>5, JoinedIsWellFormed DEF Follows
<1>7. \A n \in names : Given(s, n)
  <2> SUFFICES ASSUME NEW n \in names PROVE Given(s, n)
    OBVIOUS
  <2>1. PICK i \in 2..Len(s) : s[i].with.name = n
    BY <1>1
  <2>2. i \in 1..Len(s) /\ s[i].do = "put"
    BY <1>1
  <2> QED
    BY <2>1, <2>2 DEF Given, Gives
<1>8. ASSUME NEW n, NEW i \in 1..Len(u), Gives(u, i, n) PROVE n \in names /\ u[i].with.value = new[n]
  <2>1. i \in 1..Len(s) /\ s[i].do = "put" /\ s[i].with.name = n /\ u[i] = s[i]
    BY <1>6, <1>8 DEF Gives
  <2>2. i \in 2..Len(s)
    BY <1>2, <1>3, <2>1
  <2> QED
    BY <1>1, <2>1, <2>2
<1> QED
  BY <1>5, <1>6, <1>7, <1>8 DEF s, ReplacesFirst

\* What a synchronisation has still to do.
LEMMA ApplyRepoDataMoves ==
    ASSUME ProjectTyped, NEW f \in Flows, WellFormed(flow[f].todo), NEW names \in SUBSET Names, C!ApplyRepoData(f, names)
    PROVE  /\ Moves(f, flow'[f].todo)
           /\ LET s == flow[f].todo
                  t == flow'[f].todo
              IN  /\ WellFormed(t) /\ Plain(s) /\ t # <<>> /\ (t = <<>> \/ t[1].do # "write")
                  /\ \A n \in names : Given(t, n)
                  /\ \A n : \A i \in 1..Len(t) : Gives(t, i, n) => n \in names /\ t[i].with.value = C!ValueOf(n)
                  /\ Ahead(t, "dotenv") => Ahead(s, "dotenv")
<1> DEFINE new == [n \in names |-> C!ValueOf(n)]
           a == C!SetSecrets(new)
           b == C!Update([names |-> names])
           t == (a \o b) \o C!Rest(f)
<1>1. ~C!Idle(f) /\ Head(flow[f].todo).do = "repo" /\ UNCHANGED created /\ C!Goes(f, t)
  BY DEF C!ApplyRepoData, C!At, C!github
<1>2. created \in Nat /\ created' \in Nat /\ created <= created'
  BY <1>1 DEF ProjectTyped
<1>3. new \in [names -> C!Values] /\ \A n \in names : new[n] = C!ValueOf(n)
  <2>1. \A n \in names : C!ValueOf(n) \in C!Values
    BY DEF C!ValueOf, ProjectTyped, C!Values
  <2> QED
    BY <2>1
<1>4. Follows(b, created) /\ ~Ahead(b, "dotenv")
  BY <1>2, UpdatesAreTyped, UpdateIsFit DEF Fit
<1> HIDE DEF new, b
<1>5. /\ a \o b \in Seq(Steps(created)) /\ WellFormed(a \o b) /\ a \o b # <<>>
      /\ \A n \in names : Given(a \o b, n)
      /\ \A n : \A i \in 1..Len(a \o b) : Gives(a \o b, i, n) => n \in names /\ (a \o b)[i].with.value = new[n]
      /\ ~Ahead(a \o b, "dotenv")
      /\ (a \o b)[1] = C!Do("clear")
  <2>1. ReplacesFirst(a \o b, names, new, b, created)
    BY <1>2, <1>3, <1>4, ReplacedFirst
  <2> QED
    BY <1>4, <2>1 DEF ReplacesFirst
<1>6. (a \o b)[1].do # "write"
  BY <1>5 DEF C!Do
<1>7. /\ Follows(C!Rest(f), created) /\ Plain(flow[f].todo)
      /\ Ahead(C!Rest(f), "dotenv") => Ahead(flow[f].todo, "dotenv")
  BY <1>1, <1>2, RestFollows
<1> DEFINE u == a \o b
<1> HIDE DEF u
<1>8. /\ t \in Seq(Steps(created)) /\ WellFormed(t) /\ t # <<>> /\ t[1] = (a \o b)[1]
      /\ \A n \in names : Given(t, n)
      /\ \A n : \A i \in 1..Len(t) : Gives(t, i, n) => n \in names /\ t[i].with.value = new[n]
      /\ Ahead(t, "dotenv") => Ahead(flow[f].todo, "dotenv")
  <2>1. /\ u \in Seq(Steps(created)) /\ WellFormed(u) /\ u # <<>> /\ ~Ahead(u, "dotenv")
        /\ \A n \in names : Given(u, n)
        /\ \A n : \A i \in 1..Len(u) : Gives(u, i, n) => n \in names /\ u[i].with.value = new[n]
    BY <1>5 DEF u
  <2> DEFINE r == C!Rest(f)
  <2>2. r \in Seq(Steps(created)) /\ WellFormed(r) /\ Plain(r) /\ (r = <<>> \/ r[1].do # "write")
    BY <1>7 DEF Follows
  <2> HIDE DEF r
  <2>3. /\ u \o r \in Seq(Steps(created)) /\ WellFormed(u \o r)
        /\ u \o r # <<>> /\ (u \o r)[1] = u[1]
        /\ \A word : Ahead(u \o r, word) <=> Ahead(u, word) \/ Ahead(r, word)
        /\ \A n : Given(u \o r, n) <=> Given(u, n)
        /\ \A n : \A i \in 1..Len(u \o r) : Gives(u \o r, i, n) => i \in 1..Len(u) /\ Gives(u, i, n) /\ (u \o r)[i] = u[i]
    BY <2>1, <2>2, JoinedIsWellFormed
  <2>4. t = u \o r
    BY DEF t, u, r
  <2>5. Ahead(r, "dotenv") => Ahead(flow[f].todo, "dotenv")
    BY <1>7 DEF r
  <2> HIDE DEF t
  <2>6. \A n : \A i \in 1..Len(u \o r) : Gives(u \o r, i, n) => n \in names /\ (u \o r)[i].with.value = new[n]
    BY <2>1, <2>3
  <2>7. \A n \in names : Given(u \o r, n)
    BY <2>1, <2>3
  <2>8. t[1] = (a \o b)[1]
    BY <2>3, <2>4 DEF u
  <2> QED
    BY <2>1, <2>3, <2>4, <2>5, <2>6, <2>7, <2>8
<1> HIDE DEF t, a
<1>9. Moves(f, t)
  BY <1>1, <1>2, <1>8, GoesMoves
<1> QED
  BY <1>3, <1>6, <1>7, <1>8, <1>9 DEF Moves

\* What is left of the import of a project.
LEMMA ApplyLegacyOverlayMoves ==
    ASSUME ProjectTyped, NEW f \in Flows, WellFormed(flow[f].todo), C!ApplyLegacyOverlay(f)
    PROVE  /\ Moves(f, flow'[f].todo)
           /\ LET s == flow[f].todo
                  t == flow'[f].todo
                  known == {n \in Names : secrets[n] # C!Absent}
              IN  /\ WellFormed(t) /\ Plain(s) /\ t # <<>> /\ (t = <<>> \/ t[1].do # "write")
                  /\ \A n \in known : Given(t, n)
                  /\ \A n : \A i \in 1..Len(t) : Gives(t, i, n) => n \in known /\ t[i].with.value = 1
                  /\ Ahead(t, "dotenv") => Ahead(s, "dotenv")
                  /\ Ahead(s, "repo") => Ahead(t, "repo")
                  /\ ~C!Idle(f)
<1> DEFINE known == {n \in Names : secrets[n] # C!Absent}
           new == [n \in known |-> 1]
           t == C!SetSecrets(new) \o C!Rest(f)
<1>1. ~C!Idle(f) /\ Head(flow[f].todo).do = "legacy" /\ UNCHANGED created /\ C!Goes(f, t)
  BY DEF C!ApplyLegacyOverlay, C!At, C!github
<1>2. created \in Nat /\ created' \in Nat /\ created <= created'
  BY <1>1 DEF ProjectTyped
<1>3. new \in [known -> C!Values] /\ (\A n \in known : new[n] = 1) /\ known \in SUBSET Names
  BY DEF C!Values
<1>4. /\ Follows(C!Rest(f), created) /\ Plain(flow[f].todo)
      /\ Ahead(C!Rest(f), "dotenv") => Ahead(flow[f].todo, "dotenv")
      /\ Ahead(flow[f].todo, "repo") => Ahead(C!Rest(f), "repo")
  BY <1>1, <1>2, RestFollows
<1> HIDE DEF new, known
<1>5. /\ t \in Seq(Steps(created)) /\ WellFormed(t) /\ t # <<>>
      /\ \A n \in known : Given(t, n)
      /\ \A n : \A i \in 1..Len(t) : Gives(t, i, n) => n \in known /\ t[i].with.value = new[n]
      /\ Ahead(t, "dotenv") => Ahead(flow[f].todo, "dotenv")
      /\ Ahead(flow[f].todo, "repo") => Ahead(t, "repo")
      /\ t[1] = C!Do("clear")
  <2>1. ReplacesFirst(t, known, new, C!Rest(f), created)
    BY <1>2, <1>3, <1>4, ReplacedFirst
  <2> HIDE DEF t
  <2> QED
    BY <1>4, <2>1 DEF ReplacesFirst
<1>6. t[1].do # "write"
  BY <1>5 DEF C!Do
<1> HIDE DEF t
<1>7. Moves(f, t)
  BY <1>1, <1>2, <1>5, GoesMoves
<1> QED
  BY <1>1, <1>3, <1>4, <1>5, <1>6, <1>7 DEF Moves, known

\* A user gives a name a value.
LEMMA UpdateEnvironmentVariableMoves ==
    ASSUME ProjectTyped, NEW f \in Flows, NEW n \in Names, NEW v \in C!Values, C!UpdateEnvironmentVariable(f, n, v)
    PROVE  /\ Moves(f, flow'[f].todo) /\ C!Idle(f)
           /\ LET t == flow'[f].todo
              IN  /\ WellFormed(t) /\ t # <<>> /\ t[1] = C!Put(n, v) /\ Tail(t) = C!Update(C!Nothing)
                  /\ t[1].do = "put" /\ ~Ahead(t, "dotenv")
<1> DEFINE a == <<C!Put(n, v)>>
           b == C!Update(C!Nothing)
           t == a \o b
<1>1. C!Idle(f) /\ UNCHANGED created /\ C!Goes(f, t)
  BY DEF C!UpdateEnvironmentVariable, C!Begins, C!Spare, C!github
<1>2. created \in Nat /\ created' \in Nat /\ created <= created'
  BY <1>1 DEF ProjectTyped
<1>3. Follows(b, created) /\ ~Ahead(b, "dotenv")
  BY <1>2, UpdatesAreTyped, UpdateIsFit DEF Fit
<1>4. C!Put(n, v) \in Steps(created) /\ C!Put(n, v).do = "put"
  BY DEF C!Put, Steps
<1> HIDE DEF C!Put, b
<1>5. a \in Seq(Steps(created)) /\ WellFormed(a) /\ ~Ahead(a, "dotenv") /\ a # <<>> /\ a[1] = C!Put(n, v)
  BY <1>4 DEF WellFormed, Ahead
<1>6. /\ t \in Seq(Steps(created)) /\ WellFormed(t) /\ t # <<>> /\ t[1] = a[1]
      /\ ~Ahead(t, "dotenv")
  BY <1>3, <1>5, JoinedIsWellFormed DEF Follows
<1>7. Tail(t) = b
  <2>1. b \in Seq(Steps(created))
    BY <1>3 DEF Follows
  <2> QED
    BY <1>4, <2>1
<1> HIDE DEF t
<1>8. Moves(f, t)
  BY <1>1, <1>2, <1>6, GoesMoves
<1> QED
  BY <1>1, <1>4, <1>5, <1>6, <1>7, <1>8 DEF Moves, b

\* One secret more is put, or all are deleted: the rest follows.
LEMMA SecretsMove ==
    ASSUME ProjectTyped, NEW f \in Flows, WellFormed(flow[f].todo), C!PutSecret(f) \/ C!ClearSecrets(f)
    PROVE  /\ Moves(f, Tail(flow[f].todo)) /\ ~C!Idle(f) /\ UNCHANGED created
           /\ LET s == flow[f].todo
                  t == Tail(flow[f].todo)
              IN  /\ Head(s) = s[1] /\ s[1] \in Steps(created) /\ s # <<>>
                  /\ WellFormed(t) /\ ~Cleared(t) /\ (t = <<>> \/ t[1].do # "write")
                  /\ \A n : Given(s, n) => Given(t, n) \/ Gives(s, 1, n)
                  /\ \A n : \A i \in 1..Len(t) : Gives(t, i, n) => i + 1 \in 1..Len(s) /\ Gives(s, i + 1, n) /\ t[i] = s[i + 1]
                  /\ Ahead(t, "dotenv") => Ahead(s, "dotenv")
                  /\ Ahead(s, "repo") => Ahead(t, "repo")
<1> DEFINE s == flow[f].todo
           t == Tail(s)
<1>1. ~C!Idle(f) /\ Head(s).do \in {"put", "clear"} /\ UNCHANGED created /\ C!Goes(f, t)
  BY DEF C!PutSecret, C!ClearSecrets, C!At, C!github, C!Rest
<1>2. created \in Nat /\ created' \in Nat /\ created <= created'
  BY <1>1 DEF ProjectTyped
<1>3. s \in Seq(Steps(created)) /\ s # <<>>
  BY <1>1, <1>2, TodoIsTyped
<1> HIDE DEF s
<1>4. /\ Head(s) = s[1] /\ Head(s) \in Steps(created) /\ Len(s) \in Nat \ {0}
      /\ t \in Seq(Steps(created)) /\ Len(t) = Len(s) - 1
      /\ \A i \in 1..Len(t) : t[i] = s[i + 1] /\ i + 1 \in 2..Len(s)
      /\ \A i \in 2..Len(s) : s[i] = t[i - 1] /\ i - 1 \in 1..Len(t)
  BY <1>3, RestOfSteps
<1>5. WellFormed(t) /\ ~Cleared(t) /\ (t = <<>> \/ t[1].do # "write")
  BY <1>1, <1>3, <1>4, RestIsWellFormed DEF s
<1> HIDE DEF t
<1>6. Moves(f, t)
  BY <1>1, <1>2, <1>4, GoesMoves
<1>7. \A i \in 1..Len(s) : i = 1 \/ (s[i] = t[i - 1] /\ i - 1 \in 1..Len(t))
  <2> TAKE i \in 1..Len(s)
  <2>1. i = 1 \/ i \in 2..Len(s)
    BY <1>4
  <2> QED
    BY <1>4, <2>1
<1>8. ASSUME NEW n, Given(s, n) PROVE Given(t, n) \/ Gives(s, 1, n)
  BY <1>7, <1>8 DEF Given, Gives
<1>9. ASSUME NEW n, NEW i \in 1..Len(t), Gives(t, i, n)
      PROVE  i + 1 \in 1..Len(s) /\ Gives(s, i + 1, n) /\ t[i] = s[i + 1]
  BY <1>4, <1>9 DEF Gives
<1>10. Ahead(t, "dotenv") => Ahead(s, "dotenv")
  BY <1>4 DEF Ahead
<1>11. Ahead(s, "repo") => Ahead(t, "repo")
  BY <1>1, <1>4, <1>7 DEF Ahead
<1> QED
  BY <1>1, <1>3, <1>4, <1>5, <1>6, <1>8, <1>9, <1>10, <1>11 DEF s, t

-----------------------------------------------------------------------------
(* Types and lists of steps.                                               *)

\* Events are only ever counted.
LEMMA ProjectCounts ==
    ASSUME ProjectTyped, C!Next
    PROVE  used' \in [C!Kinds -> Nat] /\ \A K \in SUBSET C!Kinds : C!Never(K)' => C!Never(K)
<1>1. ASSUME UNCHANGED used PROVE \A K \in SUBSET C!Kinds : C!Never(K)' => C!Never(K)
  BY <1>1 DEF C!Never
<1>2. UNCHANGED used \/ \E kinds \in SUBSET C!Kinds : C!Uses(kinds)
  <2>1. ASSUME NEW f \in Flows, NEW event \in C!Kinds, NEW s, C!Begins(f, event, s)
        PROVE  \E kinds \in SUBSET C!Kinds : C!Uses(kinds)
    BY <2>1 DEF C!Begins, C!Kinds
  <2>2. ASSUME NEW f \in Flows,
               \/ C!RowRequests(f) \/ C!StartSync(f) \/ C!RemoveManagedCd(f) \/ C!Subscribe(f) \/ C!Quit(f)
               \/ C!StartDelete(f)
               \/ \E n \in Names, v \in C!Values \ {0} : C!UpdateEnvironmentVariable(f, n, v)
               \/ \E cd \in Setups : C!SetupManagedCd(f, cd)
        PROVE  \E event \in C!Kinds : \E s : C!Begins(f, event, s)
    BY <2>2 DEF C!RowRequests, C!UpdateProject, C!SetProjectQuota, C!ResetDeploymentKey, C!StartSync, C!RemoveManagedCd,
                C!Subscribe, C!Quit, C!StartDelete, C!UpdateEnvironmentVariable, C!SetupManagedCd, C!Kinds
  <2>3. ASSUME NEW f \in Flows,
               \/ C!StartDeploy(f) \/ C!HookRefused(f) \/ C!ApplyRepoData(f, {}) \/ C!ApplyRepoData(f, repo)
               \/ \E refused \in BOOLEAN : C!DeleteRepoWebhook(f, refused)
               \/ \E legacy \in BOOLEAN : C!CreateProject(f, legacy)
        PROVE  \E kinds \in SUBSET C!Kinds : C!Uses(kinds)
    BY <2>3 DEF C!StartDeploy, C!HookRefused, C!ApplyRepoData, C!DeleteRepoWebhook, C!CreateProject, C!Kinds
  <2>4. ASSUME NEW f \in Flows,
               \/ C!ReadProject(f) \/ C!WriteProject(f) \/ C!PutSecret(f) \/ C!ClearSecrets(f) \/ C!GetDotenv(f)
               \/ C!Unschedule(f) \/ C!RegisterScheduledDeploy(f) \/ C!EnsureGithubWebhook(f)
               \/ C!CreateRepoWebhook(f) \/ C!Unused(f) \/ C!Consumers(f) \/ C!ApplyLegacyOverlay(f)
               \/ C!ClearProjectWebhooks(f) \/ C!DeleteProject(f)
        PROVE  UNCHANGED used
    BY <2>4 DEF C!ReadProject, C!WriteProject, C!PutSecret, C!ClearSecrets, C!GetDotenv, C!Unschedule,
                C!RegisterScheduledDeploy, C!EnsureGithubWebhook, C!CreateRepoWebhook, C!Unused, C!Consumers,
                C!ApplyLegacyOverlay, C!ClearProjectWebhooks, C!DeleteProject
  <2>5. ASSUME \/ \E v \in C!Values : C!SetProjectAssignment(v)
               \/ \E names \in SUBSET Names : C!RepositoryMoves(names)
               \/ \E h \in hooks : C!HookLost(h)
               \/ C!Crash
        PROVE  \E kinds \in SUBSET C!Kinds : C!Uses(kinds)
    BY <2>5 DEF C!SetProjectAssignment, C!RepositoryMoves, C!HookLost, C!Crash, C!Kinds
  <2> QED
    BY <2>1, <2>2, <2>3, <2>4, <2>5 DEF C!Next
<1> QED
  BY <1>1, <1>2, ProjectEvents DEF ProjectTyped

\* What a step writes or puts.
LEMMA HeadIsTyped ==
    ASSUME ProjectTyped, NEW f \in Flows, ~C!Idle(f)
    PROVE  /\ Head(flow[f].todo) \in Steps(created)
           /\ Head(flow[f].todo).do = "write" => C!With(f) \in Updates(created)
           /\ Head(flow[f].todo).do = "put" => C!With(f) \in [name : Names, value : C!Values]
<1>1. flow[f].todo \in Seq(Steps(created)) /\ flow[f].todo # <<>>
  BY DEF ProjectTyped, Handled, C!Idle
<1>2. Head(flow[f].todo) \in Steps(created)
  BY <1>1, RestOfSteps
<1> QED
  BY <1>2 DEF Steps, Words, C!With

\* Updates change what they name.
LEMMA MergedType ==
    ASSUME NEW c \in Nat, NEW r \in ProjectRows(c), NEW u \in Updates(c)
    PROVE  /\ [C!Merged(r, u) EXCEPT !.exists = TRUE] \in ProjectRows(c)
           /\ \A x \in C!Fields : [C!Merged(r, u) EXCEPT !.exists = TRUE][x] = IF x \in DOMAIN u THEN u[x] ELSE r[x]
<1> DEFINE D == {"exists", "config", "quota", "key", "node", "names", "cicd", "hook"}
           m == C!Merged(r, u)
<1>1. DOMAIN r = D
  BY DEF ProjectRows
<1>2. m = [x \in D |-> IF x \in DOMAIN u THEN u[x] ELSE r[x]]
  BY <1>1 DEF C!Merged
<1>3. /\ DOMAIN u \subseteq {"config", "quota", "key", "names", "cicd", "hook"}
      /\ "config" \in DOMAIN u => u["config"] \in C!Values
      /\ "quota" \in DOMAIN u => u["quota"] \in C!Values
      /\ "key" \in DOMAIN u => u["key"] \in C!Values
      /\ "names" \in DOMAIN u => u["names"] \in SUBSET Names
      /\ "cicd" \in DOMAIN u => u["cicd"] \in Setups \cup {C!NoCd}
      /\ "hook" \in DOMAIN u => u["hook"] \in 0..c
  <2>1. CASE u = C!Nothing
    BY <2>1 DEF C!Nothing
  <2>2. CASE u \in [config : C!Values] \cup [quota : C!Values] \cup [key : C!Values]
    BY <2>2
  <2>3. CASE u \in [names : SUBSET Names] \cup [cicd : Setups \cup {C!NoCd}] \cup [hook : 0..c]
    BY <2>3
  <2> QED
    BY <2>1, <2>2, <2>3 DEF Updates
<1>4. [m EXCEPT !.exists = TRUE] \in ProjectRows(c)
  <2> DEFINE w == [m EXCEPT !.exists = TRUE]
  <2>1. /\ DOMAIN w = D /\ w = [x \in D |-> w[x]]
        /\ w["exists"] = TRUE
        /\ \A x \in D \ {"exists"} : w[x] = IF x \in DOMAIN u THEN u[x] ELSE r[x]
    BY <1>2
  <2> HIDE DEF w
  <2>2. /\ w["config"] \in C!Values /\ w["quota"] \in C!Values /\ w["key"] \in C!Values /\ w["node"] \in C!Values
        /\ w["names"] \in SUBSET Names /\ w["cicd"] \in Setups \cup {C!NoCd} /\ w["hook"] \in 0..c
    BY <1>3, <2>1 DEF ProjectRows
  <2> QED
    BY <2>1, <2>2 DEF ProjectRows, w
<1>5. \A x \in C!Fields : [m EXCEPT !.exists = TRUE][x] = IF x \in DOMAIN u THEN u[x] ELSE r[x]
  BY <1>2 DEF C!Fields
<1> QED
  BY <1>4, <1>5

\* What was asked for last after a write.
LEMMA AskedType ==
    ASSUME NEW c \in Nat, NEW u \in Updates(c), asked \in AskedFor,
           asked' = [x \in DOMAIN asked |-> IF x \in C!Fields \intersect DOMAIN u THEN u[x] ELSE asked[x]]
    PROVE  /\ asked' \in AskedFor /\ asked'.secrets = asked.secrets
           /\ \A x \in C!Fields : asked'[x] = IF x \in DOMAIN u THEN u[x] ELSE asked[x]
<1> DEFINE D == {"config", "quota", "key", "node", "secrets"}
<1>1. DOMAIN asked = D
  BY DEF AskedFor
<1>2. /\ DOMAIN asked' = D /\ asked' = [x \in D |-> asked'[x]]
      /\ \A x \in D : asked'[x] = IF x \in C!Fields \intersect DOMAIN u THEN u[x] ELSE asked[x]
  BY <1>1
<1>3. /\ DOMAIN u \subseteq {"config", "quota", "key", "names", "cicd", "hook"}
      /\ \A x \in C!Fields \intersect DOMAIN u : u[x] \in C!Values
  BY DEF Updates, C!Nothing, C!Fields
<1>4. /\ asked'["config"] \in C!Values /\ asked'["quota"] \in C!Values /\ asked'["key"] \in C!Values
      /\ asked'["node"] \in C!Values /\ asked'["secrets"] = asked["secrets"]
  BY <1>2, <1>3 DEF AskedFor, C!Fields
<1>5. asked' \in AskedFor
  BY <1>2, <1>4 DEF AskedFor
<1>6. \A x \in C!Fields : asked'[x] = IF x \in DOMAIN u THEN u[x] ELSE asked[x]
  BY <1>2 DEF C!Fields
<1> QED
  BY <1>4, <1>5, <1>6

\* What Walking steps do to the rest of the state.
LEMMA WalkingIsTyped ==
    ASSUME ProjectTyped, NEW f \in Flows, WellFormed(flow[f].todo), Walking(f), C!Next
    PROVE  ProjectTyped'
<1>1. Walks(f) /\ created' \in Nat /\ created <= created' /\ created \in Nat
  BY RequestsWalk, HooksAreCounted DEF ProjectTyped
<1>2. flow' \in [Flows -> Handled(created')] /\ used' \in [C!Kinds -> Nat]
  BY <1>1, ProjectCounts DEF Walks
<1>3. row \in ProjectRows(created') /\ hooks \subseteq 1..created'
  <2>1. 1..created \subseteq 1..created'
    BY <1>1
  <2> QED
    BY <1>1, <2>1, StepsGrow DEF ProjectTyped
<1>4. row' \in ProjectRows(created') /\ asked' \in AskedFor
  <2>1. CASE C!WriteProject(f)
    <3>1. C!With(f) \in Updates(created) /\ UNCHANGED created /\ flow[f].row \in ProjectRows(created)
      BY <2>1, HeadIsTyped DEF C!WriteProject, C!At, C!github, ProjectTyped, Handled
    <3>2. row' \in ProjectRows(created)
      BY <1>1, <2>1, <3>1, MergedType DEF C!WriteProject
    <3>3. asked' \in AskedFor
      <4>1. asked' = [x \in DOMAIN asked |-> IF x \in C!Fields \intersect DOMAIN C!With(f) THEN C!With(f)[x] ELSE asked[x]]
        BY <2>1 DEF C!WriteProject
      <4> QED
        BY <1>1, <3>1, <4>1, AskedType DEF ProjectTyped
    <3> QED
      BY <3>1, <3>2, <3>3
  <2>2. CASE \E legacy \in BOOLEAN : C!CreateProject(f, legacy)
    <3>1. C!NewRow \in ProjectRows(created')
      BY <1>1 DEF C!NewRow, ProjectRows, C!NoHook, C!Values
    <3>2. [C!NewRow EXCEPT !.node = row.node] \in ProjectRows(created')
      <4>1. row.node \in C!Values
        BY DEF ProjectTyped, ProjectRows
      <4> HIDE DEF C!NewRow
      <4> QED
        BY <3>1, <4>1 DEF ProjectRows
    <3>3. C!AskedOfNew \in AskedFor
      BY DEF C!AskedOfNew, AskedFor, C!Values
    <3>4. [asked EXCEPT !.config = 0, !.key = 0] \in AskedFor
      <4>1. asked \in AskedFor /\ 0 \in C!Values
        BY DEF ProjectTyped, C!Values
      <4> QED
        BY <4>1 DEF AskedFor
    <3> QED
      BY <2>2, <3>1, <3>2, <3>3, <3>4 DEF C!CreateProject
  <2>3. CASE C!DeleteProject(f)
    <3>1. C!NoRow \in ProjectRows(created')
      <4>1. C!NewRow \in ProjectRows(created')
        BY <1>1 DEF C!NewRow, ProjectRows, C!NoHook, C!Values
      <4> HIDE DEF C!NewRow
      <4> QED
        BY <4>1 DEF C!NoRow, ProjectRows
    <3> QED
      BY <2>3, <3>1 DEF C!DeleteProject, ProjectTyped
  <2>4. CASE UNCHANGED <<row, asked>>
    BY <1>3, <2>4 DEF ProjectTyped
  <2> QED
    BY <2>1, <2>2, <2>3, <2>4
    DEF Walking, C!ReadProject, C!RowRequests, C!StartSync, C!StartDeploy, C!GetDotenv,
        C!SetupManagedCd, C!RemoveManagedCd, C!Unschedule, C!RegisterScheduledDeploy, C!EnsureGithubWebhook,
        C!CreateRepoWebhook, C!HookRefused, C!Unused, C!Consumers, C!Subscribe, C!Quit, C!DeleteRepoWebhook,
        C!StartDelete, C!ClearProjectWebhooks, C!store
<1>5. secrets' = secrets /\ repo' = repo
  BY DEF Walking, C!ReadProject, C!WriteProject, C!RowRequests, C!StartSync, C!StartDeploy, C!GetDotenv,
         C!SetupManagedCd, C!RemoveManagedCd, C!Unschedule, C!RegisterScheduledDeploy, C!EnsureGithubWebhook,
         C!CreateRepoWebhook, C!HookRefused, C!Unused, C!Consumers, C!Subscribe, C!Quit, C!DeleteRepoWebhook,
         C!CreateProject, C!StartDelete, C!ClearProjectWebhooks, C!DeleteProject, C!store
<1>6. wants' \in BOOLEAN /\ task' \in BOOLEAN /\ missing' \subseteq Names
  BY DEF Walking, C!ReadProject, C!WriteProject, C!RowRequests, C!StartSync, C!StartDeploy, C!GetDotenv,
         C!SetupManagedCd, C!RemoveManagedCd, C!Unschedule, C!RegisterScheduledDeploy, C!EnsureGithubWebhook,
         C!CreateRepoWebhook, C!HookRefused, C!Unused, C!Consumers, C!Subscribe, C!Quit, C!DeleteRepoWebhook,
         C!CreateProject, C!StartDelete, C!ClearProjectWebhooks, C!DeleteProject, C!store, C!Unscheduled, ProjectTyped
<1>7. hooks' \subseteq 1..created'
  <2>1. CASE C!CreateRepoWebhook(f)
    <3>1. hooks' = hooks \union {created + 1} /\ created' = created + 1
      BY <2>1 DEF C!CreateRepoWebhook
    <3> QED
      BY <1>1, <1>3, <3>1
  <2>2. CASE hooks' \subseteq hooks
    BY <1>3, <2>2
  <2> QED
    BY <2>1, <2>2
    DEF Walking, C!ReadProject, C!WriteProject, C!RowRequests, C!StartSync, C!StartDeploy, C!GetDotenv,
        C!SetupManagedCd, C!RemoveManagedCd, C!Unschedule, C!RegisterScheduledDeploy, C!EnsureGithubWebhook,
        C!HookRefused, C!Unused, C!Consumers, C!Subscribe, C!Quit, C!DeleteRepoWebhook,
        C!CreateProject, C!StartDelete, C!ClearProjectWebhooks, C!DeleteProject, C!github
<1> QED
  BY <1>1, <1>2, <1>4, <1>5, <1>6, <1>7 DEF ProjectTyped

\* The lists of all requests are in order.
InOrder == \A f \in Flows : WellFormed(flow[f].todo)

\* The other steps of requests.
Putting(f) ==
    \/ C!PutSecret(f) \/ C!ClearSecrets(f)
    \/ \E n \in Names, v \in C!Values \ {0} : C!UpdateEnvironmentVariable(f, n, v)
    \/ \E names \in {{}, repo} : C!ApplyRepoData(f, names)
    \/ C!ApplyLegacyOverlay(f)
Around ==
    \/ \E v \in C!Values : C!SetProjectAssignment(v)
    \/ \E names \in SUBSET Names : C!RepositoryMoves(names)
    \/ \E h \in hooks : C!HookLost(h)
    \/ C!Crash

\* There are no others.
LEMMA NextIsOneOf == C!Next => (\E f \in Flows : Walking(f) \/ Putting(f)) \/ Around
<1> SUFFICES ASSUME C!Next PROVE (\E f \in Flows : Walking(f) \/ Putting(f)) \/ Around
  OBVIOUS
<1> QED
  BY DEF C!Next, Walking, Putting, Around

\* Putting secrets keeps the types and the order.
LEMMA PuttingIsTyped ==
    ASSUME ProjectTyped, NEW f \in Flows, WellFormed(flow[f].todo), Putting(f), C!Next
    PROVE  /\ ProjectTyped' /\ WellFormed(flow'[f].todo) /\ Moves(f, flow'[f].todo)
           /\ UNCHANGED <<row, created, repo, missing>>
           /\ flow'[f].todo = <<>> \/ flow'[f].todo[1].do # "write"
<1>1. UNCHANGED <<created, row, hooks, wants, task, repo, missing>>
  BY DEF Putting, C!PutSecret, C!ClearSecrets, C!UpdateEnvironmentVariable, C!ApplyRepoData, C!ApplyLegacyOverlay,
         C!store, C!github
<1>2. Moves(f, flow'[f].todo) /\ WellFormed(flow'[f].todo) /\ (flow'[f].todo = <<>> \/ flow'[f].todo[1].do # "write")
  <2>1. CASE C!PutSecret(f) \/ C!ClearSecrets(f)
    <3>1. /\ Moves(f, Tail(flow[f].todo)) /\ WellFormed(Tail(flow[f].todo))
          /\ Tail(flow[f].todo) = <<>> \/ Tail(flow[f].todo)[1].do # "write"
      BY <2>1, SecretsMove
    <3> QED
      BY <3>1 DEF Moves
  <2>2. ASSUME NEW n \in Names, NEW v \in C!Values \ {0}, C!UpdateEnvironmentVariable(f, n, v)
        PROVE  Moves(f, flow'[f].todo) /\ WellFormed(flow'[f].todo) /\ flow'[f].todo[1].do # "write"
    BY <2>2, UpdateEnvironmentVariableMoves
  <2>3. ASSUME NEW names \in {{}, repo}, C!ApplyRepoData(f, names)
        PROVE  Moves(f, flow'[f].todo) /\ WellFormed(flow'[f].todo) /\ flow'[f].todo[1].do # "write"
    <3>1. names \in SUBSET Names
      BY DEF ProjectTyped
    <3> QED
      BY <2>3, <3>1, ApplyRepoDataMoves
  <2>4. CASE C!ApplyLegacyOverlay(f)
    BY <2>4, ApplyLegacyOverlayMoves
  <2> QED
    BY <2>1, <2>2, <2>3, <2>4 DEF Putting
<1>3. secrets' \in [Names -> {C!Absent} \cup C!Values] /\ asked' \in AskedFor
  <2>1. CASE C!PutSecret(f)
    <3>1. C!With(f) \in [name : Names, value : C!Values]
      BY <2>1, HeadIsTyped DEF C!PutSecret, C!At
    <3>2. secrets' \in [Names -> {C!Absent} \cup C!Values]
      BY <2>1, <3>1 DEF C!PutSecret, ProjectTyped
    <3>3. asked' = asked \/ asked' = [asked EXCEPT !.secrets = [asked.secrets EXCEPT ![C!With(f).name] = C!With(f).value]]
      BY <2>1 DEF C!PutSecret
    <3>4. [asked.secrets EXCEPT ![C!With(f).name] = C!With(f).value] \in [Names -> C!Values]
      BY <3>1 DEF ProjectTyped, AskedFor
    <3>5. asked' \in AskedFor
      BY <3>3, <3>4 DEF ProjectTyped, AskedFor
    <3> QED
      BY <3>2, <3>5
  <2>2. CASE C!ClearSecrets(f)
    BY <2>2 DEF C!ClearSecrets, ProjectTyped
  <2>3. CASE C!ApplyLegacyOverlay(f)
    <3>1. secrets' = secrets
      BY <2>3 DEF C!ApplyLegacyOverlay, C!store
    <3>2. PICK new : /\ new = [n \in Names |-> IF n \in {x \in Names : secrets[x] # C!Absent} THEN 1 ELSE asked.secrets[n]]
                     /\ asked' = [asked EXCEPT !.secrets = new]
      BY <2>3 DEF C!ApplyLegacyOverlay
    <3>3. new \in [Names -> C!Values]
      BY <3>2 DEF ProjectTyped, AskedFor, C!Values
    <3>4. asked' \in AskedFor
      BY <3>2, <3>3 DEF ProjectTyped, AskedFor
    <3> QED
      BY <3>1, <3>4 DEF ProjectTyped
  <2>4. CASE UNCHANGED <<secrets, asked>>
    BY <2>4 DEF ProjectTyped
  <2> QED
    BY <2>1, <2>2, <2>3, <2>4 DEF Putting, C!UpdateEnvironmentVariable, C!ApplyRepoData, C!store
<1>4. used' \in [C!Kinds -> Nat]
  BY ProjectCounts
<1> QED
  BY <1>1, <1>2, <1>3, <1>4 DEF Moves, ProjectTyped

\* So does what is not done by requests.
LEMMA AroundIsTyped ==
    ASSUME ProjectTyped, InOrder, Around, C!Next
    PROVE  ProjectTyped' /\ InOrder'
<1>1. used' \in [C!Kinds -> Nat]
  BY ProjectCounts
<1>2. ASSUME NEW v \in C!Values, C!SetProjectAssignment(v) PROVE ProjectTyped' /\ InOrder'
  <2>1. row' = [row EXCEPT !.node = v] /\ asked' = [asked EXCEPT !.node = v]
    BY <1>2 DEF C!SetProjectAssignment
  <2>2. row' \in ProjectRows(created) /\ asked' \in AskedFor
    BY <2>1 DEF ProjectTyped, ProjectRows, AskedFor
  <2> QED
    BY <1>1, <1>2, <2>2 DEF C!SetProjectAssignment, ProjectTyped, InOrder, C!github
<1>3. CASE \E names \in SUBSET Names : C!RepositoryMoves(names)
  BY <1>1, <1>3 DEF C!RepositoryMoves, ProjectTyped, InOrder, C!github, C!store
<1>4. CASE \E h \in hooks : C!HookLost(h)
  BY <1>1, <1>4 DEF C!HookLost, ProjectTyped, InOrder, C!store
<1>5. CASE C!Crash
  <2>1. flow' = [f \in Flows |-> C!NoFlow] /\ created \in Nat
    BY <1>5 DEF C!Crash, ProjectTyped
  <2>2. flow' \in [Flows -> Handled(created)] /\ \A f \in Flows : flow'[f].todo = <<>>
    BY <2>1, NoFlowIsHandled
  <2>3. InOrder'
    BY <2>2 DEF InOrder, WellFormed
  <2>4. task' \in BOOLEAN
    BY <1>5 DEF C!Crash, C!Restored, C!Scheduled, ProjectTyped, ProjectRows
  <2> QED
    BY <1>1, <1>5, <2>2, <2>3, <2>4 DEF C!Crash, ProjectTyped, C!github, C!store
<1> QED
  BY <1>2, <1>3, <1>4, <1>5 DEF Around

-----------------------------------------------------------------------------
(* What the steps keep.                                                    *)

\* Walking leaves the secrets alone, and what was asked for them unless the project
\* is new; it begins to exist only when it is created or when an old row is written.
LEMMA WalkingKeepsSecrets ==
    ASSUME ProjectTyped, NEW f \in Flows, Walking(f)
    PROVE  /\ secrets' = secrets /\ repo' = repo
           /\ \/ asked'.secrets = asked.secrets /\ (row'.exists => row.exists \/ C!At(f, "write"))
              \/ asked' = C!AskedOfNew
           /\ missing' = missing \/ C!GetDotenv(f)
<1>1. secrets' = secrets /\ repo' = repo /\ (missing' = missing \/ C!GetDotenv(f))
  BY DEF Walking, C!ReadProject, C!WriteProject, C!RowRequests, C!StartSync, C!StartDeploy,
         C!SetupManagedCd, C!RemoveManagedCd, C!Unschedule, C!RegisterScheduledDeploy, C!EnsureGithubWebhook,
         C!CreateRepoWebhook, C!HookRefused, C!Unused, C!Consumers, C!Subscribe, C!Quit, C!DeleteRepoWebhook,
         C!CreateProject, C!StartDelete, C!ClearProjectWebhooks, C!DeleteProject, C!store, C!GetDotenv
<1>2. CASE C!WriteProject(f)
  <2>1. /\ C!At(f, "write")
        /\ asked' = [x \in DOMAIN asked |-> IF x \in C!Fields \intersect DOMAIN C!With(f) THEN C!With(f)[x] ELSE asked[x]]
    BY <1>2 DEF C!WriteProject
  <2>2. "secrets" \in DOMAIN asked /\ "secrets" \notin C!Fields
    BY DEF ProjectTyped, AskedFor, C!Fields
  <2>3. asked'.secrets = asked.secrets
    BY <2>1, <2>2
  <2> QED
    BY <1>1, <2>1, <2>3
<1>3. CASE \E legacy \in BOOLEAN : C!CreateProject(f, legacy)
  <2>1. \/ row.exists /\ asked' = [asked EXCEPT !.config = 0, !.key = 0]
        \/ asked' = C!AskedOfNew
    BY <1>3 DEF C!CreateProject
  <2>2. asked \in AskedFor
    BY DEF ProjectTyped
  <2> QED
    BY <1>1, <2>1, <2>2 DEF AskedFor
<1>4. CASE C!DeleteProject(f)
  <2>1. row' = C!NoRow /\ asked' = asked
    BY <1>4 DEF C!DeleteProject
  <2> QED
    BY <1>1, <2>1 DEF C!NoRow, C!NewRow
<1>5. CASE UNCHANGED <<row, asked>>
  BY <1>1, <1>5
<1> QED
  BY <1>2, <1>3, <1>4, <1>5
  DEF Walking, C!ReadProject, C!RowRequests, C!StartSync, C!StartDeploy, C!GetDotenv,
      C!SetupManagedCd, C!RemoveManagedCd, C!Unschedule, C!RegisterScheduledDeploy, C!EnsureGithubWebhook,
      C!CreateRepoWebhook, C!HookRefused, C!Unused, C!Consumers, C!Subscribe, C!Quit, C!DeleteRepoWebhook,
      C!StartDelete, C!ClearProjectWebhooks, C!store

\* While requests take turns, nobody else's is in progress when one takes a step.
LEMMA OthersAreIdle ==
    ASSUME ProjectTyped, InOrder, OneAtATime, NEW f \in Flows, Walking(f) \/ Putting(f), C!Next, C!Never({"overlap"})'
    PROVE  /\ \A g \in Flows : g # f => C!Idle(g) /\ flow'[g] = flow[g]
           /\ C!Idle(f) => C!Quiet
           /\ OneAtATime'
<1>1. /\ \A g \in Flows : g # f => flow'[g] = flow[g]
      /\ C!Idle(f) => C!Quiet
  <2>1. CASE Walking(f)
    BY <2>1, RequestsWalk DEF InOrder, Walks
  <2>2. CASE Putting(f)
    <3>1. \A g \in Flows : g # f => flow'[g] = flow[g]
      BY <2>2, PuttingIsTyped DEF InOrder, Moves
    <3>2. CASE \E n \in Names, v \in C!Values \ {0} : C!UpdateEnvironmentVariable(f, n, v)
      <4>1. "env" \in C!Kinds
        BY DEF C!Kinds
      <4> QED
        BY <3>1, <3>2, <4>1, BeginsAlone DEF C!UpdateEnvironmentVariable, C!Begins
    <3>3. CASE ~C!Idle(f)
      BY <3>1, <3>3
    <3> QED
      BY <2>2, <3>2, <3>3 DEF Putting, C!PutSecret, C!ClearSecrets, C!ApplyRepoData, C!ApplyLegacyOverlay, C!At
  <2> QED
    BY <2>1, <2>2
<1>2. \A g \in Flows : g # f => C!Idle(g)
  BY <1>1 DEF OneAtATime, C!Quiet
<1>3. \A g \in Flows : g # f => flow'[g].todo = <<>>
  BY <1>1, <1>2 DEF C!Idle
<1>4. OneAtATime'
  BY <1>3 DEF OneAtATime, C!Idle
<1> QED
  BY <1>1, <1>2, <1>4

\* What is stored of the fields is what was asked for.
Stored == row.exists => \A x \in C!Fields : row[x] = asked[x] \/ (x = "quota" /\ ~C!Never({"over"}))

\* While requests take turns, what is written is what was read, and what is stored
\* is what was asked for.
LEMMA TurnsPreserved ==
    ASSUME ProjectTyped, InOrder, OneAtATime, ReadsAreFresh, Stored, C!Next, C!Never({"overlap"})'
    PROVE  OneAtATime' /\ ReadsAreFresh' /\ Stored'
<1>0. C!Never({"over"})' => C!Never({"over"})
  BY ProjectCounts DEF C!Kinds
<1>1. ASSUME NEW f \in Flows, Walking(f) PROVE OneAtATime' /\ ReadsAreFresh' /\ Stored'
  <2>1. Walks(f) /\ OneAtATime' /\ \A g \in Flows : g # f => C!Idle(g) /\ flow'[g] = flow[g]
    BY <1>1, RequestsWalk, OthersAreIdle DEF InOrder
  <2>2. ReadsAreFresh'
    <3> SUFFICES ASSUME NEW g \in Flows, C!At(g, "write")' PROVE row'.exists /\ flow'[g].row = row'
      BY DEF ReadsAreFresh
    <3>1. g = f
      BY <2>1 DEF C!At, C!Idle
    <3>2. flow'[f].todo # <<>> /\ Head(flow'[f].todo).do = "write"
      BY <3>1 DEF C!At, C!Idle
    <3>3. flow'[f].todo \in Seq(Steps(created'))
      BY <2>1 DEF Walks, Handled
    <3>4. flow'[f].todo[1].do = "write"
      BY <3>2, <3>3, RestOfSteps
    <3> QED
      BY <2>1, <3>1, <3>2, <3>4 DEF Walks
  <2>3. Stored'
    <3>1. CASE C!WriteProject(f)
      <4>1. /\ C!With(f) \in Updates(created) /\ row.exists /\ flow[f].row = row
            /\ row' = [C!Merged(row, C!With(f)) EXCEPT !.exists = TRUE]
            /\ asked' = [x \in DOMAIN asked |-> IF x \in C!Fields \intersect DOMAIN C!With(f) THEN C!With(f)[x] ELSE asked[x]]
        BY <3>1, HeadIsTyped DEF C!WriteProject, ReadsAreFresh, C!At
      <4>2. \A x \in C!Fields : row'[x] = IF x \in DOMAIN C!With(f) THEN C!With(f)[x] ELSE row[x]
        BY <4>1, MergedType DEF ProjectTyped
      <4>3. \A x \in C!Fields : asked'[x] = IF x \in DOMAIN C!With(f) THEN C!With(f)[x] ELSE asked[x]
        BY <4>1, AskedType DEF ProjectTyped
      <4> QED
        BY <1>0, <4>1, <4>2, <4>3 DEF Stored
    <3>2. CASE \E legacy \in BOOLEAN : C!CreateProject(f, legacy)
      <4>1. CASE ~row.exists
        <5>1. row' = C!NewRow /\ asked' = C!AskedOfNew
          BY <3>2, <4>1 DEF C!CreateProject
        <5> QED
          BY <5>1 DEF C!NewRow, C!AskedOfNew, C!Fields, Stored
      <4>2. CASE row.exists
        <5>1. row' = [C!NewRow EXCEPT !.node = row.node] /\ asked' = [asked EXCEPT !.config = 0, !.key = 0]
          BY <3>2, <4>2 DEF C!CreateProject
        <5>2. ~C!Never({"over"})' /\ row.node = asked.node
          BY <3>2, <4>2, CreateIsCounted DEF Stored, C!Fields
        <5>3. row'.config = 0 /\ row'.key = 0 /\ row'.node = row.node
          BY <5>1 DEF C!NewRow
        <5>4. asked'.config = 0 /\ asked'.key = 0 /\ asked'.node = asked.node
          BY <5>1 DEF ProjectTyped, AskedFor
        <5> QED
          BY <5>2, <5>3, <5>4 DEF C!Fields, Stored
      <4> QED
        BY <4>1, <4>2
    <3>3. CASE C!DeleteProject(f)
      <4>1. row' = C!NoRow
        BY <3>3 DEF C!DeleteProject
      <4> QED
        BY <4>1 DEF C!NoRow, C!NewRow, Stored
    <3>4. CASE UNCHANGED <<row, asked>>
      BY <1>0, <3>4 DEF Stored
    <3> QED
      BY <1>1, <3>1, <3>2, <3>3, <3>4
      DEF Walking, C!ReadProject, C!RowRequests, C!StartSync, C!StartDeploy, C!GetDotenv,
          C!SetupManagedCd, C!RemoveManagedCd, C!Unschedule, C!RegisterScheduledDeploy, C!EnsureGithubWebhook,
          C!CreateRepoWebhook, C!HookRefused, C!Unused, C!Consumers, C!Subscribe, C!Quit, C!DeleteRepoWebhook,
          C!StartDelete, C!ClearProjectWebhooks, C!store
  <2> QED
    BY <2>1, <2>2, <2>3
<1>2. ASSUME NEW f \in Flows, Putting(f) PROVE OneAtATime' /\ ReadsAreFresh' /\ Stored'
  <2>1. /\ OneAtATime' /\ \A g \in Flows : g # f => C!Idle(g) /\ flow'[g] = flow[g]
        /\ row' = row /\ Moves(f, flow'[f].todo)
        /\ flow'[f].todo = <<>> \/ flow'[f].todo[1].do # "write"
    BY <1>2, PuttingIsTyped, OthersAreIdle DEF InOrder
  <2>2. \A g \in Flows : ~C!At(g, "write")'
    <3> SUFFICES ASSUME NEW g \in Flows, C!At(g, "write")' PROVE FALSE
      OBVIOUS
    <3>1. g = f
      BY <2>1 DEF C!At, C!Idle
    <3>2. flow'[f].todo # <<>> /\ Head(flow'[f].todo).do = "write"
      BY <3>1 DEF C!At, C!Idle
    <3>3. flow'[f].todo \in Seq(Steps(created'))
      BY <2>1 DEF Moves, Handled
    <3>4. flow'[f].todo[1].do = "write"
      BY <3>2, <3>3, RestOfSteps
    <3> QED
      BY <2>1, <3>2, <3>4
  <2>3. \A x \in C!Fields : asked'[x] = asked[x]
    BY <1>2 DEF Putting, C!PutSecret, C!ClearSecrets, C!UpdateEnvironmentVariable, C!ApplyRepoData,
                C!ApplyLegacyOverlay, C!Fields, ProjectTyped, AskedFor
  <2> QED
    BY <1>0, <2>1, <2>2, <2>3 DEF ReadsAreFresh, Stored
<1>3. CASE Around
  <2>1. ASSUME NEW v \in C!Values, C!SetProjectAssignment(v) PROVE OneAtATime' /\ ReadsAreFresh' /\ Stored'
    <3>1. row' = [row EXCEPT !.node = v] /\ asked' = [asked EXCEPT !.node = v] /\ flow' = flow
      BY <2>1 DEF C!SetProjectAssignment
    <3>2. C!Quiet
      <4>1. "assign" \in C!Kinds
        BY DEF C!Kinds
      <4> QED
        BY <2>1, <4>1, BeginsAlone DEF C!SetProjectAssignment
    <3>3. OneAtATime' /\ ReadsAreFresh'
      BY <3>1, <3>2 DEF OneAtATime, ReadsAreFresh, C!Quiet, C!At, C!Idle
    <3>4. Stored'
      BY <1>0, <3>1 DEF Stored, C!Fields, ProjectTyped, ProjectRows, AskedFor
    <3> QED
      BY <3>3, <3>4
  <2>2. CASE C!Crash
    <3>1. flow' = [f \in Flows |-> C!NoFlow] /\ row' = row /\ asked' = asked
      BY <2>2 DEF C!Crash, C!store
    <3>2. \A f \in Flows : flow'[f].todo = <<>>
      BY <3>1 DEF C!NoFlow
    <3> QED
      BY <1>0, <3>1, <3>2 DEF OneAtATime, ReadsAreFresh, Stored, C!At, C!Idle
  <2>3. CASE (\E names \in SUBSET Names : C!RepositoryMoves(names)) \/ \E h \in hooks : C!HookLost(h)
    <3>1. flow' = flow /\ row' = row /\ asked' = asked
      BY <2>3 DEF C!RepositoryMoves, C!HookLost, C!store
    <3> QED
      BY <1>0, <3>1 DEF OneAtATime, ReadsAreFresh, Stored, C!At, C!Idle
  <2> QED
    BY <1>3, <2>1, <2>2, <2>3 DEF Around
<1> QED
  BY <1>1, <1>2, <1>3, NextIsOneOf

\* A list without secrets to put holds what is there.
LEMMA PlainHolds ==
    ASSUME NEW S, NEW s \in Seq(S), Plain(s), NEW n, NEW v
    PROVE  Holds(s, n, v, v) /\ ~Given(s, n) /\ ~Cleared(s)
<1>1. s # <<>> => 1 \in 1..Len(s)
  OBVIOUS
<1>2. ~Given(s, n) /\ ~Cleared(s) /\ \A i \in 1..Len(s) : ~Gives(s, i, n)
  BY <1>1 DEF Plain, Given, Gives, Cleared
<1> QED
  BY <1>2 DEF Holds

\* What the only request in progress holds is held.
LEMMA HeldByOne ==
    ASSUME NEW f \in Flows, \A g \in Flows : g # f => flow'[g].todo = <<>>,
           \A n \in Names : asked'.secrets[n] # 0 => Holds(flow'[f].todo, n, secrets'[n], asked'.secrets[n])
    PROVE  ValuesHeld'
<1> SUFFICES ASSUME NEW n \in Names, asked'.secrets[n] # 0
             PROVE  /\ C!Quiet' => secrets'[n] = asked'.secrets[n]
                    /\ \A g \in Flows : ~C!Idle(g)' => Holds(flow'[g].todo, n, secrets'[n], asked'.secrets[n])
  BY DEF ValuesHeld
<1>1. Holds(flow'[f].todo, n, secrets'[n], asked'.secrets[n])
  OBVIOUS
<1>2. ASSUME C!Quiet' PROVE secrets'[n] = asked'.secrets[n]
  <2>1. flow'[f].todo = <<>>
    BY <1>2 DEF C!Quiet, C!Idle
  <2>2. ~Given(<<>>, n)
    BY DEF Given
  <2> QED
    BY <1>1, <2>1, <2>2 DEF Holds
<1>3. ASSUME NEW g \in Flows, ~C!Idle(g)' PROVE Holds(flow'[g].todo, n, secrets'[n], asked'.secrets[n])
  BY <1>1, <1>3 DEF C!Idle
<1> QED
  BY <1>2, <1>3

\* A step puts the value it was told to put; it counts as asked for if it is a user's.
LEMMA PutSecretGives ==
    ASSUME ProjectTyped, NEW f \in Flows, C!PutSecret(f)
    PROVE  /\ flow[f].todo[1].do = "put" /\ C!With(f) = flow[f].todo[1].with
           /\ C!With(f).name \in Names /\ C!With(f).value \in C!Values
           /\ \A n \in Names : secrets'[n] = IF n = C!With(f).name THEN C!With(f).value ELSE secrets[n]
           /\ \A n \in Names : asked'.secrets[n] =
                IF C!Rest(f) = C!Update(C!Nothing) /\ n = C!With(f).name THEN C!With(f).value ELSE asked.secrets[n]
<1>1. ~C!Idle(f) /\ Head(flow[f].todo).do = "put"
  BY DEF C!PutSecret, C!At
<1>2. C!With(f) \in [name : Names, value : C!Values]
  BY <1>1, HeadIsTyped
<1>3. flow[f].todo \in Seq(Steps(created)) /\ flow[f].todo # <<>>
  BY <1>1 DEF ProjectTyped, Handled, C!Idle
<1>4. Head(flow[f].todo) = flow[f].todo[1]
  BY <1>3, RestOfSteps
<1>5. \A n \in Names : secrets'[n] = IF n = C!With(f).name THEN C!With(f).value ELSE secrets[n]
  BY <1>2 DEF C!PutSecret, ProjectTyped
<1>6. asked.secrets \in [Names -> C!Values] /\ asked \in AskedFor
  BY DEF ProjectTyped, AskedFor
<1>7. CASE C!Rest(f) = C!Update(C!Nothing)
  <2>1. asked' = [asked EXCEPT !.secrets = [asked.secrets EXCEPT ![C!With(f).name] = C!With(f).value]]
    BY <1>7 DEF C!PutSecret
  <2>2. asked'.secrets = [asked.secrets EXCEPT ![C!With(f).name] = C!With(f).value]
    BY <1>6, <2>1 DEF AskedFor
  <2> QED
    BY <1>1, <1>2, <1>4, <1>5, <1>6, <1>7, <2>2 DEF C!With
<1>8. CASE C!Rest(f) # C!Update(C!Nothing)
  <2>1. asked' = asked
    BY <1>8 DEF C!PutSecret
  <2> QED
    BY <1>1, <1>2, <1>4, <1>5, <1>8, <2>1 DEF C!With
<1> QED
  BY <1>7, <1>8

\* The events that put what users gave at risk.
Risks == {"overlap", "crash", "unread", "moved"}

\* What users gave to the names of the repository is there or about to be put back.
LEMMA ValuesHeldPreserved ==
    ASSUME ProjectTyped, InOrder, OneAtATime, ReadsAreFresh, repo = Names, row.exists => ValuesHeld,
           C!Next, ProjectTyped', C!Never(Risks)', row'.exists
    PROVE  ValuesHeld'
<1>1. C!Never({"overlap"})' /\ ~(used'["crash"] > 0) /\ ~(used'["unread"] > 0) /\ ~(used'["moved"] > 0)
  BY DEF C!Never, Risks
<1>2. \A n \in Names : asked.secrets[n] \in C!Values /\ asked'.secrets[n] \in C!Values
  BY DEF ProjectTyped, AskedFor
<1>3. ASSUME NEW f \in Flows, Walking(f) PROVE ValuesHeld'
  <2>1. /\ Walks(f) /\ \A g \in Flows : g # f => C!Idle(g) /\ flow'[g] = flow[g]
        /\ C!Idle(f) => C!Quiet
    BY <1>1, <1>3, RequestsWalk, OthersAreIdle DEF InOrder
  <2>2. CASE asked' = C!AskedOfNew
    BY <2>2 DEF C!AskedOfNew, ValuesHeld
  <2>3. CASE asked'.secrets = asked.secrets /\ (row.exists \/ C!At(f, "write"))
    <3>1. ValuesHeld /\ secrets' = secrets
      BY <1>3, <2>3, WalkingKeepsSecrets DEF ReadsAreFresh
    <3>2. flow'[f].todo \in Seq(Steps(created')) /\ Plain(flow'[f].todo)
      BY <2>1 DEF Walks, Handled
    <3>3. ASSUME NEW n \in Names, asked.secrets[n] # 0 PROVE secrets[n] = asked.secrets[n]
      <4>1. CASE C!Idle(f)
        BY <2>1, <3>1, <3>3, <4>1 DEF ValuesHeld
      <4>2. CASE ~C!Idle(f)
        <5>1. Plain(flow[f].todo) /\ flow[f].todo \in Seq(Steps(created))
          BY <2>1, <4>2 DEF Walks, ProjectTyped, Handled
        <5>2. Holds(flow[f].todo, n, secrets[n], asked.secrets[n])
          BY <3>1, <3>3, <4>2 DEF ValuesHeld
        <5>3. ~Given(flow[f].todo, n)
          BY <5>1, PlainHolds
        <5> QED
          BY <5>2, <5>3 DEF Holds
      <4> QED
        BY <4>1, <4>2
    <3>4. \A n \in Names : asked'.secrets[n] # 0 => Holds(flow'[f].todo, n, secrets'[n], asked'.secrets[n])
      BY <2>3, <3>1, <3>2, <3>3, PlainHolds
    <3>5. \A g \in Flows : g # f => flow'[g].todo = <<>>
      BY <2>1 DEF C!Idle
    <3> QED
      BY <3>4, <3>5, HeldByOne
  <2> QED
    BY <1>3, <2>2, <2>3, WalkingKeepsSecrets
<1>4. ASSUME NEW f \in Flows, Putting(f) PROVE ValuesHeld'
  <2> DEFINE s == flow[f].todo
             t == flow'[f].todo
  <2>1. /\ \A g \in Flows : g # f => C!Idle(g) /\ flow'[g] = flow[g]
        /\ C!Idle(f) => C!Quiet
        /\ row' = row /\ ValuesHeld
    BY <1>1, <1>4, OthersAreIdle, PuttingIsTyped DEF InOrder
  <2>2. \A g \in Flows : g # f => flow'[g].todo = <<>>
    BY <2>1 DEF C!Idle
  <2>3. \A n \in Names : asked.secrets[n] # 0 /\ ~C!Idle(f) => Holds(s, n, secrets[n], asked.secrets[n])
    BY <2>1 DEF ValuesHeld
  <2>4. SUFFICES ASSUME NEW n \in Names, asked'.secrets[n] # 0
                 PROVE  Holds(t, n, secrets'[n], asked'.secrets[n])
    BY <2>2, HeldByOne
  <2>5. s \in Seq(Steps(created)) /\ t \in Seq(Steps(created'))
    BY DEF ProjectTyped, Handled
  <2>6. CASE C!PutSecret(f)
    <3>0. t = Tail(s) /\ WellFormed(s)
      BY <2>6, SecretsMove DEF InOrder, Moves
    <3>1. /\ t = Tail(s) /\ ~C!Idle(f) /\ ~Cleared(t)
          /\ Given(s, n) => Given(t, n) \/ Gives(s, 1, n)
          /\ \A i \in 1..Len(t) : Gives(t, i, n) => i + 1 \in 1..Len(s) /\ Gives(s, i + 1, n) /\ t[i] = s[i + 1]
      <4>1. ~C!Idle(f) /\ ~Cleared(Tail(s)) /\ Head(s) = s[1] /\ s # <<>>
        BY <2>6, <3>0, SecretsMove
      <4>2. Given(s, n) => Given(Tail(s), n) \/ Gives(s, 1, n)
        BY <2>6, <3>0, SecretsMove
      <4>3. \A i \in 1..Len(Tail(s)) :
              Gives(Tail(s), i, n) => i + 1 \in 1..Len(s) /\ Gives(s, i + 1, n) /\ Tail(s)[i] = s[i + 1]
        BY <2>6, <3>0, SecretsMove
      <4> HIDE DEF s, t
      <4> QED
        BY <3>0, <4>1, <4>2, <4>3
    <3>2. /\ s[1].do = "put" /\ C!With(f) = s[1].with
          /\ secrets'[n] = IF n = C!With(f).name THEN C!With(f).value ELSE secrets[n]
          /\ asked'.secrets[n] =
               IF t = C!Update(C!Nothing) /\ n = C!With(f).name THEN C!With(f).value ELSE asked.secrets[n]
      BY <2>6, <3>1, PutSecretGives DEF C!Rest
    <3>3. CASE t = C!Update(C!Nothing)
      <4>1. Plain(t)
        BY <3>3, UpdatesAreTyped, UpdateIsFit DEF Fit, Follows, ProjectTyped
      <4>2. CASE n = C!With(f).name
        BY <2>5, <3>2, <3>3, <4>1, <4>2, PlainHolds
      <4>3. CASE n # C!With(f).name
        <5>1. Holds(s, n, secrets[n], asked.secrets[n])
          BY <2>3, <2>4, <3>1, <3>2, <4>3
        <5>2. ~Given(t, n) /\ ~Gives(s, 1, n)
          BY <2>5, <3>2, <4>1, <4>3, PlainHolds DEF Gives
        <5>3. secrets[n] = asked.secrets[n]
          BY <3>1, <5>1, <5>2 DEF Holds
        <5> QED
          BY <2>5, <3>2, <4>1, <4>3, <5>3, PlainHolds
      <4> QED
        BY <4>2, <4>3
    <3>4. CASE t # C!Update(C!Nothing)
      <4>1. asked'.secrets[n] = asked.secrets[n] /\ Holds(s, n, secrets[n], asked.secrets[n])
        BY <2>3, <2>4, <3>1, <3>2, <3>4
      <4>2. \A i \in 1..Len(s) : Gives(s, i, n) => s[i].with.value = asked.secrets[n]
        BY <3>1, <3>4, <4>1 DEF Holds
      <4>3. \A i \in 1..Len(t) : Gives(t, i, n) => t[i].with.value = asked.secrets[n]
        BY <3>1, <4>2
      <4>4. CASE n = C!With(f).name
        <5>1. 1 \in 1..Len(s) /\ Gives(s, 1, n)
          <6>1. Len(s) \in Nat /\ s # <<>>
            BY <2>5, <3>1 DEF C!Idle
          <6> QED
            BY <2>5, <3>2, <4>4, <6>1 DEF Gives
        <5>2. secrets'[n] = asked.secrets[n]
          BY <3>2, <4>2, <4>4, <5>1
        <5> QED
          BY <3>1, <4>1, <4>3, <5>2 DEF Holds
      <4>5. CASE n # C!With(f).name
        <5>1. ~Gives(s, 1, n) /\ secrets'[n] = secrets[n]
          BY <3>2, <4>5 DEF Gives
        <5> QED
          BY <3>1, <4>1, <4>3, <5>1 DEF Holds
      <4> QED
        BY <4>4, <4>5
    <3> QED
      BY <3>3, <3>4
  <2>7. CASE C!ClearSecrets(f)
    <3>0. t = Tail(s) /\ WellFormed(s)
      BY <2>7, SecretsMove DEF InOrder, Moves
    <3>1. /\ t = Tail(s) /\ ~C!Idle(f) /\ ~Cleared(t) /\ Head(s) = s[1] /\ s # <<>>
          /\ Given(s, n) => Given(t, n) \/ Gives(s, 1, n)
          /\ \A i \in 1..Len(t) : Gives(t, i, n) => i + 1 \in 1..Len(s) /\ Gives(s, i + 1, n) /\ t[i] = s[i + 1]
      <4>1. ~C!Idle(f) /\ ~Cleared(Tail(s)) /\ Head(s) = s[1] /\ s # <<>>
        BY <2>7, <3>0, SecretsMove
      <4>2. Given(s, n) => Given(Tail(s), n) \/ Gives(s, 1, n)
        BY <2>7, <3>0, SecretsMove
      <4>3. \A i \in 1..Len(Tail(s)) :
              Gives(Tail(s), i, n) => i + 1 \in 1..Len(s) /\ Gives(s, i + 1, n) /\ Tail(s)[i] = s[i + 1]
        BY <2>7, <3>0, SecretsMove
      <4> HIDE DEF s, t
      <4> QED
        BY <3>0, <4>1, <4>2, <4>3
    <3>2. s[1].do = "clear" /\ asked' = asked
      BY <2>7, <3>1 DEF C!ClearSecrets, C!At
    <3>3. Holds(s, n, secrets[n], asked.secrets[n]) /\ Cleared(s) /\ ~Gives(s, 1, n)
      BY <2>3, <2>4, <3>1, <3>2 DEF Cleared, Gives
    <3>4. Given(t, n)
      BY <3>1, <3>3 DEF Holds
    <3>5. t # C!Update(C!Nothing)
      <4>1. Plain(C!Update(C!Nothing)) /\ C!Update(C!Nothing) \in Seq(Steps(created))
        BY UpdatesAreTyped, UpdateIsFit DEF Fit, Follows, ProjectTyped
      <4> QED
        BY <3>4, <4>1, PlainHolds
    <3>6. \A i \in 1..Len(t) : Gives(t, i, n) => t[i].with.value = asked.secrets[n]
      BY <3>1, <3>3, <3>5 DEF Holds
    <3> QED
      BY <3>2, <3>4, <3>6 DEF Holds
  <2>8. ASSUME NEW m \in Names, NEW v \in C!Values \ {0}, C!UpdateEnvironmentVariable(f, m, v)
        PROVE  Holds(t, n, secrets'[n], asked'.secrets[n])
    <3>1. C!Idle(f) /\ t[1].do = "put" /\ Tail(t) = C!Update(C!Nothing)
      BY <2>8, UpdateEnvironmentVariableMoves
    <3>2. secrets' = secrets /\ asked' = asked
      BY <2>8 DEF C!UpdateEnvironmentVariable, C!store
    <3>3. secrets[n] = asked.secrets[n]
      BY <2>1, <2>4, <3>1, <3>2 DEF ValuesHeld
    <3> QED
      BY <3>1, <3>2, <3>3 DEF Holds, Cleared
  <2>9. ASSUME NEW names \in {{}, repo}, C!ApplyRepoData(f, names)
        PROVE  Holds(t, n, secrets'[n], asked'.secrets[n])
    <3>1. names = repo
      <4>1. CASE names # repo
        <5>1. {"unread"} \in SUBSET C!Kinds /\ C!Uses({"unread"})
          BY <2>9, <4>1 DEF C!ApplyRepoData, C!Kinds
        <5>2. used'["unread"] > 0
          BY <5>1, ProjectEvents DEF ProjectTyped
        <5> QED
          BY <1>1, <5>2
      <4> QED
        BY <4>1
    <3>2. /\ Plain(s) /\ Given(t, n)
          /\ \A i \in 1..Len(t) : Gives(t, i, n) => t[i].with.value = C!ValueOf(n)
      BY <2>9, <3>1, ApplyRepoDataMoves DEF InOrder
    <3>3. secrets' = secrets /\ asked' = asked /\ ~C!Idle(f)
      BY <2>9 DEF C!ApplyRepoData, C!store, C!At
    <3>4. Holds(s, n, secrets[n], asked.secrets[n]) /\ ~Given(s, n)
      BY <2>3, <2>4, <2>5, <3>2, <3>3, PlainHolds
    <3>5. C!ValueOf(n) = asked.secrets[n]
      BY <1>2, <3>4 DEF Holds, C!ValueOf, C!Absent, C!Values
    <3> QED
      BY <3>2, <3>3, <3>5 DEF Holds
  <2>10. CASE C!ApplyLegacyOverlay(f)
    <3> DEFINE known == {m \in Names : secrets[m] # C!Absent}
    <3>1. /\ Plain(s) /\ ~C!Idle(f)
          /\ n \in known => Given(t, n)
          /\ \A i \in 1..Len(t) : Gives(t, i, n) => n \in known /\ t[i].with.value = 1
      BY <2>10, ApplyLegacyOverlayMoves DEF InOrder
    <3>2. secrets' = secrets /\ asked'.secrets[n] = IF n \in known THEN 1 ELSE asked.secrets[n]
      BY <2>10 DEF C!ApplyLegacyOverlay, C!store, ProjectTyped, AskedFor
    <3>3. n \in known
      <4> SUFFICES ASSUME n \notin known PROVE FALSE
        OBVIOUS
      <4>1. Holds(s, n, secrets[n], asked.secrets[n]) /\ ~Given(s, n)
        BY <2>3, <2>4, <2>5, <3>1, <3>2, PlainHolds
      <4> QED
        BY <1>2, <4>1 DEF Holds, C!Absent, C!Values
    <3> QED
      BY <3>1, <3>2, <3>3 DEF Holds
  <2> QED
    BY <1>4, <2>6, <2>7, <2>8, <2>9, <2>10 DEF Putting
<1>5. CASE Around
  <2>1. ~C!Crash /\ \A names \in SUBSET Names : ~C!RepositoryMoves(names)
    <3>1. C!Uses({"crash"}) => used'["crash"] > 0
      BY KindsAreCounted, ProjectEvents DEF ProjectTyped
    <3>2. C!Uses({"moved"}) => used'["moved"] > 0
      BY KindsAreCounted, ProjectEvents DEF ProjectTyped
    <3> QED
      BY <1>1, <3>1, <3>2 DEF C!Crash, C!RepositoryMoves
  <2>2. secrets' = secrets /\ asked'.secrets = asked.secrets /\ flow' = flow /\ row.exists
    <3>1. ASSUME NEW v \in C!Values, C!SetProjectAssignment(v)
          PROVE  secrets' = secrets /\ asked'.secrets = asked.secrets /\ flow' = flow /\ row.exists
      BY <3>1 DEF C!SetProjectAssignment, ProjectTyped, AskedFor
    <3>2. CASE \E h \in hooks : C!HookLost(h)
      BY <3>2 DEF C!HookLost, C!store
    <3> QED
      BY <1>5, <2>1, <3>1, <3>2 DEF Around
  <2> QED
    BY <2>2 DEF ValuesHeld, C!Quiet, C!Idle
<1> QED
  BY <1>3, <1>4, <1>5, NextIsOneOf

\* While requests take turns and the repository and its .env hold still, a deployment
\* is given all names.
LEMMA SyncedPreserved ==
    ASSUME ProjectTyped, InOrder, OneAtATime, repo = Names, missing = {}, DeploysAreSynced,
           C!Next, ProjectTyped', C!Never({"overlap", "unread", "moved"})'
    PROVE  missing' = {} /\ DeploysAreSynced'
<1>1. C!Never({"overlap"})' /\ ~(used'["unread"] > 0) /\ ~(used'["moved"] > 0)
  BY DEF C!Never
<1>2. \A f \in Flows : flow[f].todo \in Seq(Steps(created)) /\ flow'[f].todo \in Seq(Steps(created'))
  BY DEF ProjectTyped, Handled
<1>3. ASSUME NEW s, NEW values, s \in Seq(Steps(created)) \/ s \in Seq(Steps(created')), Plain(s)
      PROVE  Synced(s, values) <=> \A n \in Names : values[n] # C!Absent
  BY <1>3, PlainHolds DEF Synced
<1>4. ASSUME NEW f \in Flows, \A g \in Flows : g # f => flow'[g].todo = <<>>,
             Ahead(flow'[f].todo, "dotenv") => Ahead(flow'[f].todo, "repo") \/ Synced(flow'[f].todo, secrets')
      PROVE  DeploysAreSynced'
  BY <1>4 DEF DeploysAreSynced, Ahead
<1>5. ASSUME NEW f \in Flows, Walking(f) PROVE missing' = {} /\ DeploysAreSynced'
  <2> DEFINE s == flow[f].todo
             t == flow'[f].todo
  <2>1. Walks(f) /\ \A g \in Flows : g # f => C!Idle(g) /\ flow'[g] = flow[g]
    BY <1>1, <1>5, RequestsWalk, OthersAreIdle DEF InOrder
  <2>2. secrets' = secrets /\ (missing' = missing \/ C!GetDotenv(f))
    BY <1>5, WalkingKeepsSecrets
  <2>3. Ahead(t, "dotenv") => Ahead(t, "repo") \/ Synced(t, secrets')
    <3>1. CASE C!Idle(f)
      BY <2>1, <3>1 DEF Walks
    <3>2. CASE ~C!Idle(f)
      <4>1. Plain(s) /\ Plain(t) /\ (Ahead(t, "dotenv") => Ahead(s, "dotenv") /\ (Ahead(s, "repo") => Ahead(t, "repo")))
        BY <2>1, <3>2 DEF Walks
      <4>2. Ahead(s, "dotenv") => Ahead(s, "repo") \/ Synced(s, secrets)
        BY DEF DeploysAreSynced
      <4>3. Synced(s, secrets) => Synced(t, secrets')
        BY <1>2, <1>3, <2>2, <4>1
      <4> QED
        BY <4>1, <4>2, <4>3
    <3> QED
      BY <3>1, <3>2
  <2>4. missing' = {}
    <3>1. CASE C!GetDotenv(f)
      <4>1. ~C!Idle(f) /\ Head(s).do = "dotenv"
        BY <3>1 DEF C!GetDotenv, C!At
      <4>2. s # <<>> /\ Head(s) = s[1] /\ Len(s) \in Nat \ {0}
        BY <1>2, <4>1, RestOfSteps DEF C!Idle
      <4>3. Len(s) = 1 /\ Ahead(s, "dotenv") /\ ~Ahead(s, "repo")
        <5>1. WellFormed(s) /\ 1 \in 1..Len(s)
          BY <4>2 DEF InOrder
        <5>2. Len(s) = 1
          BY <4>1, <4>2, <5>1 DEF WellFormed
        <5> QED
          BY <4>1, <4>2, <5>2 DEF Ahead
      <4>4. Plain(s)
        BY <2>1, <4>1 DEF Walks
      <4>5. \A n \in Names : secrets[n] # C!Absent
        BY <1>2, <1>3, <4>3, <4>4 DEF DeploysAreSynced
      <4> QED
        BY <3>1, <4>5 DEF C!GetDotenv
    <3>2. CASE missing' = missing
      BY <3>2
    <3> QED
      BY <2>2, <3>1, <3>2
  <2>5. \A g \in Flows : g # f => flow'[g].todo = <<>>
    BY <2>1 DEF C!Idle
  <2> QED
    BY <1>4, <2>3, <2>4, <2>5
<1>6. ASSUME NEW f \in Flows, Putting(f) PROVE missing' = {} /\ DeploysAreSynced'
  <2> DEFINE s == flow[f].todo
             t == flow'[f].todo
  <2>1. /\ \A g \in Flows : g # f => C!Idle(g) /\ flow'[g] = flow[g]
        /\ missing' = missing
    BY <1>1, <1>6, OthersAreIdle, PuttingIsTyped DEF InOrder
  <2>2. \A g \in Flows : g # f => flow'[g].todo = <<>>
    BY <2>1 DEF C!Idle
  <2>3. SUFFICES ASSUME Ahead(t, "dotenv") PROVE Ahead(t, "repo") \/ Synced(t, secrets')
    BY <1>4, <2>1, <2>2
  <2>4. Ahead(s, "dotenv") => Ahead(s, "repo") \/ Synced(s, secrets)
    BY DEF DeploysAreSynced
  <2>5. CASE C!PutSecret(f) \/ C!ClearSecrets(f)
    <3>0. t = Tail(s) /\ WellFormed(s)
      BY <2>5, SecretsMove DEF InOrder, Moves
    <3>1. /\ ~C!Idle(f) /\ ~Cleared(t) /\ Head(s) = s[1] /\ s # <<>>
          /\ \A n \in Names : Given(s, n) => Given(t, n) \/ Gives(s, 1, n)
          /\ Ahead(t, "dotenv") => Ahead(s, "dotenv")
          /\ Ahead(s, "repo") => Ahead(t, "repo")
      BY <2>5, <3>0, SecretsMove
    <3>2. SUFFICES ASSUME Synced(s, secrets) PROVE Synced(t, secrets')
      BY <2>3, <2>4, <3>1
    <3>3. CASE C!PutSecret(f)
      <4>1. /\ C!With(f) = s[1].with /\ C!With(f).value \in C!Values
            /\ \A n \in Names : secrets'[n] = IF n = C!With(f).name THEN C!With(f).value ELSE secrets[n]
        BY <3>3, PutSecretGives
      <4>2. C!With(f).value # C!Absent
        BY <4>1 DEF C!Values, C!Absent
      <4> QED
        BY <3>1, <3>2, <4>1, <4>2 DEF Synced, Gives
    <3>4. CASE C!ClearSecrets(f)
      <4>1. s[1].do = "clear"
        BY <3>1, <3>4 DEF C!ClearSecrets, C!At
      <4> QED
        BY <3>1, <3>2, <4>1 DEF Synced, Cleared, Gives
    <3> QED
      BY <2>5, <3>3, <3>4
  <2>6. CASE \E n \in Names, v \in C!Values \ {0} : C!UpdateEnvironmentVariable(f, n, v)
    <3>1. ~Ahead(t, "dotenv")
      BY <2>6, UpdateEnvironmentVariableMoves
    <3> QED
      BY <2>3, <3>1
  <2>7. ASSUME NEW names \in {{}, repo}, C!ApplyRepoData(f, names) PROVE Synced(t, secrets')
    <3>1. names = repo
      <4>1. CASE names # repo
        <5>1. {"unread"} \in SUBSET C!Kinds /\ C!Uses({"unread"})
          BY <2>7, <4>1 DEF C!ApplyRepoData, C!Kinds
        <5>2. used'["unread"] > 0
          BY <5>1, ProjectEvents DEF ProjectTyped
        <5> QED
          BY <1>1, <5>2
      <4> QED
        BY <4>1
    <3>2. \A n \in Names : Given(t, n)
      BY <2>7, <3>1, ApplyRepoDataMoves DEF InOrder
    <3> QED
      BY <3>2 DEF Synced
  <2>8. CASE C!ApplyLegacyOverlay(f)
    <3>1. /\ Plain(s) /\ \A n \in {m \in Names : secrets[m] # C!Absent} : Given(t, n)
          /\ Ahead(t, "dotenv") => Ahead(s, "dotenv")
          /\ Ahead(s, "repo") => Ahead(t, "repo")
      BY <2>8, ApplyLegacyOverlayMoves DEF InOrder
    <3>2. ASSUME Synced(s, secrets) PROVE Synced(t, secrets')
      <4>1. \A n \in Names : secrets[n] # C!Absent
        BY <1>2, <1>3, <3>1, <3>2
      <4> QED
        BY <3>1, <4>1 DEF Synced
    <3> QED
      BY <2>3, <2>4, <3>1, <3>2
  <2> QED
    BY <1>6, <2>5, <2>6, <2>7, <2>8 DEF Putting
<1>7. CASE Around
  <2>1. \A names \in SUBSET Names : ~C!RepositoryMoves(names)
    <3>1. C!Uses({"moved"}) => used'["moved"] > 0
      BY KindsAreCounted, ProjectEvents DEF ProjectTyped
    <3> QED
      BY <1>1, <3>1 DEF C!RepositoryMoves
  <2>2. CASE C!Crash
    <3>1. missing' = missing /\ flow' = [f \in Flows |-> C!NoFlow]
      BY <2>2 DEF C!Crash
    <3>2. \A f \in Flows : flow'[f].todo = <<>>
      BY <3>1 DEF C!NoFlow
    <3> QED
      BY <3>1, <3>2 DEF DeploysAreSynced, Ahead
  <2>3. CASE ~C!Crash
    <3>1. secrets' = secrets /\ missing' = missing /\ flow' = flow
      BY <1>7, <2>1, <2>3 DEF Around, C!SetProjectAssignment, C!HookLost, C!store
    <3> QED
      BY <3>1 DEF DeploysAreSynced
  <2> QED
    BY <2>2, <2>3
<1> QED
  BY <1>5, <1>6, <1>7, NextIsOneOf

-----------------------------------------------------------------------------
(* The invariant.                                                          *)

ProjectInv ==
    /\ ProjectTyped /\ InOrder
    /\ C!Never({"overlap"}) => OneAtATime /\ ReadsAreFresh /\ Stored
    /\ C!Never({"moved"}) => repo = Names
    /\ C!Never(Risks) /\ row.exists => ValuesHeld
    /\ C!Never({"overlap", "unread", "moved"}) => missing = {} /\ DeploysAreSynced

\* Every step of the composition keeps it: the other components leave its variables
\* alone.
LEMMA ProjectInvPreserved ==
    ProjectInv /\ [Next]_<<part, cVars, aVars, rVars>> => ProjectInv'
<1> SUFFICES ASSUME ProjectInv, [Next]_<<part, cVars, aVars, rVars>> PROVE ProjectInv'
  OBVIOUS
<1>1. CASE C!Next
  <2>1. ProjectTyped /\ InOrder
    BY DEF ProjectInv
  <2>2. \A K \in SUBSET C!Kinds : C!Never(K)' => C!Never(K)
    BY <1>1, <2>1, ProjectCounts
  <2>3. ProjectTyped' /\ InOrder'
    <3>1. ASSUME NEW f \in Flows, Walking(f) PROVE ProjectTyped' /\ InOrder'
      <4>1. ProjectTyped' /\ Walks(f)
        BY <1>1, <2>1, <3>1, WalkingIsTyped, RequestsWalk DEF InOrder
      <4> QED
        BY <2>1, <4>1 DEF InOrder, Walks
    <3>2. ASSUME NEW f \in Flows, Putting(f) PROVE ProjectTyped' /\ InOrder'
      <4>1. ProjectTyped' /\ WellFormed(flow'[f].todo) /\ Moves(f, flow'[f].todo)
        BY <1>1, <2>1, <3>2, PuttingIsTyped DEF InOrder
      <4> QED
        BY <2>1, <4>1 DEF InOrder, Moves
    <3> QED
      BY <1>1, <2>1, <3>1, <3>2, AroundIsTyped, NextIsOneOf
  <2>4. /\ {"overlap"} \in SUBSET C!Kinds /\ {"moved"} \in SUBSET C!Kinds /\ Risks \in SUBSET C!Kinds
        /\ {"overlap", "unread", "moved"} \in SUBSET C!Kinds
    BY DEF C!Kinds, Risks
  <2>5. /\ C!Never(Risks) => C!Never({"overlap"}) /\ C!Never({"moved"})
        /\ C!Never({"overlap", "unread", "moved"}) => C!Never({"overlap"}) /\ C!Never({"moved"})
    BY DEF C!Never, Risks
  <2>6. ASSUME C!Never({"overlap"})' PROVE OneAtATime' /\ ReadsAreFresh' /\ Stored'
    BY <1>1, <2>1, <2>2, <2>4, <2>6, TurnsPreserved DEF ProjectInv
  <2>7. ASSUME C!Never({"moved"})' PROVE repo' = Names
    <3>1. ASSUME NEW names \in SUBSET Names, C!RepositoryMoves(names) PROVE FALSE
      <4>1. used'["moved"] > 0
        BY <2>1, <2>4, <3>1, ProjectEvents DEF C!RepositoryMoves, ProjectTyped
      <4> QED
        BY <2>7, <4>1 DEF C!Never
    <3>2. ASSUME NEW f \in Flows, Walking(f) \/ Putting(f) PROVE repo' = repo
      BY <1>1, <2>1, <3>2, WalkingKeepsSecrets, PuttingIsTyped DEF InOrder
    <3>3. CASE Around
      BY <2>2, <2>4, <2>7, <3>1, <3>3 DEF ProjectInv, Around, C!SetProjectAssignment, C!HookLost, C!Crash
    <3> QED
      BY <1>1, <2>2, <2>4, <2>7, <3>2, <3>3, NextIsOneOf DEF ProjectInv
  <2>8. ASSUME C!Never(Risks)', row'.exists PROVE ValuesHeld'
    <3>1. OneAtATime /\ ReadsAreFresh /\ repo = Names /\ (row.exists => ValuesHeld)
      BY <2>2, <2>4, <2>5, <2>8 DEF ProjectInv
    <3> QED
      BY <1>1, <2>1, <2>3, <2>8, <3>1, ValuesHeldPreserved
  <2>9. ASSUME C!Never({"overlap", "unread", "moved"})' PROVE missing' = {} /\ DeploysAreSynced'
    <3>1. OneAtATime /\ repo = Names /\ missing = {} /\ DeploysAreSynced
      BY <2>2, <2>4, <2>5, <2>9 DEF ProjectInv
    <3> QED
      BY <1>1, <2>1, <2>3, <2>9, <3>1, SyncedPreserved
  <2> QED
    BY <2>3, <2>6, <2>7, <2>8, <2>9 DEF ProjectInv
<1>2. CASE UNCHANGED cVars
  <2>1. /\ row' = row /\ secrets' = secrets /\ wants' = wants /\ task' = task /\ hooks' = hooks /\ created' = created
        /\ repo' = repo /\ flow' = flow /\ asked' = asked /\ missing' = missing /\ used' = used
    BY <1>2 DEF cVars
  <2> QED
    BY <2>1 DEF ProjectInv, ProjectTyped, InOrder, OneAtATime, ReadsAreFresh, Stored, ValuesHeld, DeploysAreSynced,
                C!Never, C!Quiet, C!Idle, C!At
<1> QED
  BY <1>1, <1>2 DEF Next

\* A new project, and no requests.
LEMMA ProjectInvInitially == Init => ProjectInv
<1> SUFFICES ASSUME Init PROVE ProjectInv
  OBVIOUS
<1>1. C!Init
  BY DEF Init
<1>2. flow = [f \in Flows |-> C!NoFlow] /\ \A f \in Flows : flow[f].todo = <<>>
  BY <1>1 DEF C!Init, C!NoFlow
<1>3. ProjectTyped
  <2>1. flow \in [Flows -> Handled(0)]
    BY <1>2, NoFlowIsHandled
  <2>2. row \in ProjectRows(0) /\ asked \in AskedFor
    BY <1>1 DEF C!Init, C!NewRow, C!AskedOfNew, ProjectRows, AskedFor, C!Values, C!NoHook
  <2> QED
    BY <1>1, <2>1, <2>2 DEF C!Init, ProjectTyped
<1>4. InOrder /\ OneAtATime /\ ReadsAreFresh /\ DeploysAreSynced
  BY <1>2 DEF InOrder, WellFormed, OneAtATime, ReadsAreFresh, DeploysAreSynced, Ahead, C!Idle, C!At
<1>5. Stored /\ ValuesHeld
  BY <1>1 DEF C!Init, Stored, ValuesHeld, C!NewRow, C!AskedOfNew, C!Fields
<1> QED
  BY <1>1, <1>3, <1>4, <1>5 DEF C!Init, ProjectInv

\* A project keeps what its users asked for (projectController.ts, secretController.ts,
\* deployController.ts:134-140): every field of its row as long as requests take turns,
\* every value given to a variable unless the leader stops or the checkout cannot be
\* read or changes, and a deployment has all variables the repository names.
THEOREM ProjectsAreKept == Spec => []ProjectIsKept
<1>1. ProjectInv => C!TypeOK
  BY DEF ProjectInv, ProjectTyped, ProjectRows, C!TypeOK
<1>2. ProjectInv => C!WritesAreKept
  BY DEF ProjectInv, Stored, C!WritesAreKept
<1>3. ProjectInv => C!UserValuesSurvive
  <2> SUFFICES ASSUME ProjectInv, C!Never(Risks), C!Quiet, row.exists, NEW n \in repo, asked.secrets[n] # 0
               PROVE  secrets[n] = asked.secrets[n]
    BY DEF C!UserValuesSurvive, Risks
  <2>1. n \in Names /\ ValuesHeld
    BY DEF ProjectInv, ProjectTyped
  <2> QED
    BY <2>1 DEF ValuesHeld
<1>4. ProjectInv => C!DotenvIsComplete
  BY DEF ProjectInv, C!DotenvIsComplete
<1>5. ProjectInv => ProjectIsKept
  BY <1>1, <1>2, <1>3, <1>4 DEF ProjectIsKept
<1> QED
  BY <1>5, ProjectInvInitially, ProjectInvPreserved, PTL DEF Spec

-----------------------------------------------------------------------------
(* Triggers: the strengthening. What a request that changes them still has *)
(* to do is one of a few lists.                                            *)

Then(x, t) == <<x>> \o t

\* A setup ends by scheduling, if there is something to schedule.
Scheduling(due) == IF due THEN <<C!Do("schedule")>> ELSE <<>>
Ensuring(due) == Then(C!Do("ensure"), Scheduling(due))
Hooking(due) == Then(C!Do("hook"), Scheduling(due))
\* The hook h is stored, or that there is none.
Noting(h, due) == Then(C!Write([hook |-> h]), Scheduling(due))
Storing(h, due) == Then(C!Do("read"), Noting(h, due))

\* What follows the configuration: w is how its request stops the old task.
Changes(w, cd) == \/ w = "replace" /\ cd \in Setups
                  \/ w = "unschedule" /\ cd = C!NoCd
Afterwards(w, cd) ==
    IF w = "unschedule" THEN <<C!Do("unused")>>
    ELSE IF cd.triggers # {"schedule"} THEN Ensuring(C!Scheduled(cd)) ELSE Scheduling(C!Scheduled(cd))
Writing(w, cd) == Then(C!Write([cicd |-> cd]), Afterwards(w, cd))
Changing(w, cd) == Then(C!Do("read"), Writing(w, cd))
Stopping(w, cd) == Then(C!Do(w), Changing(w, cd))
Starting(w, cd) == Then(C!Do("read"), Stopping(w, cd))

\* The other requests leave the triggers alone.
Inert(s) ==
    \A i \in 1..Len(s) :
        \/ s[i].do \in {"read", "put", "clear", "repo", "dotenv", "legacy"}
        \/ s[i].do = "write" /\ "hook" \notin DOMAIN s[i].with /\ "cicd" \notin DOMAIN s[i].with

\* The task is that of the configuration, unless the request is about to make it so;
\* GitHub has the hook h and no other; whoever needs events has a hook.
Timed(due) ==
    C!Never({"refused"}) =>
        IF due THEN C!Scheduled(row.cicd) /\ (C!Never({"over"}) => ~task)
        ELSE (C!Scheduled(row.cicd) => task) /\ (task /\ C!Never({"over"}) => C!Scheduled(row.cicd))
Untimed == C!Never({"refused"}) /\ C!Never({"over"}) => ~task
Registered(h) ==
    /\ C!Never({"crash", "lost"}) => h = C!NoHook \/ h \in hooks
    /\ C!Never({"crash", "lost", "kept"}) /\ C!Never({"over"}) => hooks \subseteq {h} \ {C!NoHook}
EventDriven(cd) == \E event \in C!Events : C!EventTriggersDeploy(cd, event)
Needs == EventDriven(row.cicd) \/ (wants /\ C!Never({"over"}))
Served == C!Never({"crash", "lost", "refused"}) /\ Needs => row.hook # C!NoHook
Known == Registered(row.hook) /\ Served
Normal == Timed(FALSE) /\ Known

Stage(f) ==
    LET s == flow[f].todo
        fresh == flow[f].row = row
    IN  \/ Inert(s) /\ Normal
        \/ \E w \in {"replace", "unschedule"}, cd \in Setups \cup {C!NoCd} : Changes(w, cd) /\
             \/ s = Starting(w, cd) /\ Normal
             \/ s = Stopping(w, cd) /\ fresh /\ Normal
             \/ s \in {Changing(w, cd), Writing(w, cd)} /\ Untimed /\ Known
        \/ s = <<C!Do("unused")>> /\ Normal
        \/ s = <<C!Do("consumers")>> /\ fresh /\ Normal /\ row.hook # C!NoHook
        \/ s = <<C!Do("unhook")>> /\ fresh /\ Timed(FALSE) /\ Registered(row.hook) /\ row.hook # C!NoHook /\ ~Needs
        \/ \E due \in BOOLEAN : Timed(due) /\
             \/ s = Ensuring(due) /\ Registered(row.hook)
             \/ s = Hooking(due) /\ Registered(row.hook) /\ row.hook = C!NoHook
             \/ \E h \in 0..created : /\ s \in {Storing(h, due), Noting(h, due)}
                                      /\ Registered(h) /\ (h = C!NoHook => ~Needs)
             \/ s = <<C!Do("schedule")>> /\ due /\ Known

TriggersFollow ==
    /\ row.exists
    /\ C!Quiet => Normal
    /\ \A f \in Flows : ~C!Idle(f) => Stage(f)

TriggersInv == C!Never({"overlap", "delete"}) => TriggersFollow

-----------------------------------------------------------------------------
(* Their lists.                                                            *)

Opens(s, x, t) == s # <<>> /\ Head(s) = x /\ Tail(s) = t

\* A step in front of others.
LEMMA ThenOpens ==
    ASSUME NEW S, NEW t \in Seq(S), NEW x
    PROVE  Opens(Then(x, t), x, t) /\ Then(x, t) \in Seq(S \cup {x})
<1> DEFINE T == S \cup {x}
<1>1. t \in Seq(T) /\ x \in T
  OBVIOUS
<1> HIDE DEF T
<1>2. <<x>> \o t \in Seq(T) /\ <<x>> \o t # <<>> /\ Head(<<x>> \o t) = x /\ Tail(<<x>> \o t) = t
  <2>1. <<x>> \in Seq(T) /\ Len(<<x>>) = 1
    BY <1>1
  <2>2. <<x>> \o t \in Seq(T) /\ Len(<<x>> \o t) = 1 + Len(t) /\ (<<x>> \o t)[1] = x
        /\ \A i \in 1..Len(t) : (<<x>> \o t)[i + 1] = t[i]
    BY <1>1, <2>1
  <2> QED
    BY <1>1, <2>2
<1> QED
  BY <1>2 DEF Then, Opens, T

\* A single step.
LEMMA OneOpens == \A x : Opens(<<x>>, x, <<>>)
BY DEF Opens

\* Everything they consist of are steps.
LEMMA ListsOpen ==
    /\ \A due \in BOOLEAN :
         /\ Opens(Ensuring(due), C!Do("ensure"), Scheduling(due))
         /\ Opens(Hooking(due), C!Do("hook"), Scheduling(due))
         /\ \A h : /\ Opens(Noting(h, due), C!Write([hook |-> h]), Scheduling(due))
                   /\ Opens(Storing(h, due), C!Do("read"), Noting(h, due))
    /\ \A w, cd :
         /\ Opens(Writing(w, cd), C!Write([cicd |-> cd]), Afterwards(w, cd))
         /\ Opens(Changing(w, cd), C!Do("read"), Writing(w, cd))
         /\ Opens(Stopping(w, cd), C!Do(w), Changing(w, cd))
         /\ Opens(Starting(w, cd), C!Do("read"), Stopping(w, cd))
<1>1. \A due \in BOOLEAN : Scheduling(due) \in Seq({C!Do("schedule")})
  <2>1. \A x : <<>> \in Seq({x}) /\ <<x>> \in Seq({x})
    OBVIOUS
  <2> QED
    BY <2>1 DEF Scheduling
<1>2. ASSUME NEW due \in BOOLEAN
      PROVE  /\ Opens(Ensuring(due), C!Do("ensure"), Scheduling(due))
             /\ Ensuring(due) \in Seq({C!Do("schedule")} \cup {C!Do("ensure")})
             /\ Opens(Hooking(due), C!Do("hook"), Scheduling(due))
  BY <1>1, ThenOpens DEF Ensuring, Hooking
<1>3. ASSUME NEW due \in BOOLEAN, NEW h
      PROVE  /\ Opens(Noting(h, due), C!Write([hook |-> h]), Scheduling(due))
             /\ Opens(Storing(h, due), C!Do("read"), Noting(h, due))
  <2>1. /\ Opens(Noting(h, due), C!Write([hook |-> h]), Scheduling(due))
        /\ Noting(h, due) \in Seq({C!Do("schedule")} \cup {C!Write([hook |-> h])})
    BY <1>1, ThenOpens DEF Noting
  <2> QED
    BY <2>1, ThenOpens DEF Storing
<1>4. ASSUME NEW w, NEW cd
      PROVE  /\ Opens(Writing(w, cd), C!Write([cicd |-> cd]), Afterwards(w, cd))
             /\ Opens(Changing(w, cd), C!Do("read"), Writing(w, cd))
             /\ Opens(Stopping(w, cd), C!Do(w), Changing(w, cd))
             /\ Opens(Starting(w, cd), C!Do("read"), Stopping(w, cd))
  <2>1. \E S : Afterwards(w, cd) \in Seq(S)
    <3>1. CASE w = "unschedule"
      <4>1. <<C!Do("unused")>> \in Seq({C!Do("unused")})
        OBVIOUS
      <4> QED
        BY <3>1, <4>1 DEF Afterwards
    <3>2. CASE w # "unschedule"
      <4>1. C!Scheduled(cd) \in BOOLEAN
        BY DEF C!Scheduled
      <4> QED
        BY <1>1, <1>2, <3>2, <4>1 DEF Afterwards
    <3> QED
      BY <3>1, <3>2
  <2>2. PICK S : Afterwards(w, cd) \in Seq(S)
    BY <2>1
  <2>3. Opens(Writing(w, cd), C!Write([cicd |-> cd]), Afterwards(w, cd)) /\ \E T : Writing(w, cd) \in Seq(T)
    BY <2>2, ThenOpens DEF Writing
  <2>4. Opens(Changing(w, cd), C!Do("read"), Writing(w, cd)) /\ \E T : Changing(w, cd) \in Seq(T)
    BY <2>3, ThenOpens DEF Changing
  <2>5. Opens(Stopping(w, cd), C!Do(w), Changing(w, cd)) /\ \E T : Stopping(w, cd) \in Seq(T)
    BY <2>4, ThenOpens DEF Stopping
  <2> QED
    BY <2>3, <2>4, <2>5, ThenOpens DEF Starting
<1> QED
  BY <1>2, <1>3, <1>4

\* What requests begin with.
LEMMA ListsBegin ==
    /\ <<C!Do("ensure")>> = Ensuring(FALSE)
    /\ \A cd : /\ <<C!Do("read"), C!Do("unschedule")>> \o C!Update([cicd |-> cd]) \o <<C!Do("unused")>>
                    = Starting("unschedule", cd)
               /\ <<C!Do("read"), C!Do("replace")>> \o C!Update([cicd |-> cd])
                    \o (IF cd.triggers # {"schedule"} THEN <<C!Do("ensure")>> ELSE <<>>)
                    \o (IF C!Scheduled(cd) THEN <<C!Do("schedule")>> ELSE <<>>)
                    = Starting("replace", cd)
    /\ \A h : \A due \in BOOLEAN : C!Update([hook |-> h]) \o Scheduling(due) = Storing(h, due)
    /\ \A due \in BOOLEAN : <<C!Do("hook")>> \o Scheduling(due) = Hooking(due)
<1>1. <<C!Do("ensure")>> = Ensuring(FALSE)
  BY DEF Ensuring, Scheduling, Then
<1>2. ASSUME NEW cd PROVE <<C!Do("read"), C!Do("unschedule")>> \o C!Update([cicd |-> cd]) \o <<C!Do("unused")>>
                    = Starting("unschedule", cd)
  BY DEF Starting, Stopping, Changing, Writing, Afterwards, Then, C!Update
<1>3. ASSUME NEW cd
      PROVE  <<C!Do("read"), C!Do("replace")>> \o C!Update([cicd |-> cd])
                    \o (IF cd.triggers # {"schedule"} THEN <<C!Do("ensure")>> ELSE <<>>)
                    \o (IF C!Scheduled(cd) THEN <<C!Do("schedule")>> ELSE <<>>)
                    = Starting("replace", cd)
  BY DEF Starting, Stopping, Changing, Writing, Afterwards, Then, C!Update, Ensuring, Scheduling
<1>4. ASSUME NEW h, NEW due \in BOOLEAN
      PROVE  C!Update([hook |-> h]) \o Scheduling(due) = Storing(h, due)
  BY DEF Storing, Noting, Scheduling, Then, C!Update
<1>5. \A due \in BOOLEAN : <<C!Do("hook")>> \o Scheduling(due) = Hooking(due)
  BY DEF Hooking, Then
<1> QED
  BY <1>1, <1>2, <1>3, <1>4, <1>5

\* Requests that leave the triggers alone go on doing so.
LEMMA InertRest ==
    ASSUME NEW S, NEW s \in Seq(S), s # <<>>, Inert(s)
    PROVE  /\ Inert(Tail(s))
           /\ \/ Head(s).do \in {"read", "put", "clear", "repo", "dotenv", "legacy"}
              \/ Head(s).do = "write" /\ "hook" \notin DOMAIN Head(s).with /\ "cicd" \notin DOMAIN Head(s).with
<1>1. /\ Head(s) = s[1] /\ Len(s) \in Nat \ {0}
      /\ \A i \in 1..Len(Tail(s)) : Tail(s)[i] = s[i + 1] /\ i + 1 \in 2..Len(s)
  BY RestOfSteps
<1>2. Inert(Tail(s))
  BY <1>1 DEF Inert
<1> QED
  BY <1>1, <1>2 DEF Inert

\* So do two lists of steps.
LEMMA InertJoin ==
    ASSUME NEW S, NEW s \in Seq(S), NEW t \in Seq(S), Inert(s), Inert(t)
    PROVE  Inert(s \o t)
<1> SUFFICES ASSUME NEW i \in 1..Len(s \o t)
             PROVE  \/ (s \o t)[i].do \in {"read", "put", "clear", "repo", "dotenv", "legacy"}
                    \/ /\ (s \o t)[i].do = "write"
                       /\ "hook" \notin DOMAIN (s \o t)[i].with /\ "cicd" \notin DOMAIN (s \o t)[i].with
  BY DEF Inert
<1>1. /\ Len(s \o t) = Len(s) + Len(t) /\ Len(s) \in Nat /\ Len(t) \in Nat
      /\ i <= Len(s) => (s \o t)[i] = s[i]
      /\ i > Len(s) => (s \o t)[i] = t[i - Len(s)]
  OBVIOUS
<1>2. CASE i <= Len(s)
  BY <1>1, <1>2 DEF Inert
<1>3. CASE i > Len(s)
  <2>1. i - Len(s) \in 1..Len(t)
    BY <1>1, <1>3
  <2> QED
    BY <1>1, <1>3, <2>1 DEF Inert
<1> QED
  BY <1>1, <1>2, <1>3

\* The lists that do.
LEMMA InertLists ==
    /\ Inert(<<>>)
    /\ \A w \in {"read", "put", "clear", "repo", "dotenv", "legacy"} : Inert(<<C!Do(w)>>)
    /\ \A u : "hook" \notin DOMAIN u /\ "cicd" \notin DOMAIN u => Inert(C!Update(u)) /\ Inert(<<C!Do("read"), C!Write(u)>>)
    /\ \A n, v : Inert(<<C!Put(n, v)>>)
<1>1. \A w : C!Do(w).do = w
  BY DEF C!Do
<1>2. \A u : C!Write(u).do = "write" /\ C!Write(u).with = u
  BY DEF C!Write
<1>3. \A n, v : C!Put(n, v).do = "put"
  BY DEF C!Put
<1> HIDE DEF C!Do, C!Write, C!Put
<1> QED
  BY <1>1, <1>2, <1>3 DEF Inert, C!Update

\* What a request still has to do, by what it does next.
Upcoming(s, word, fresh) ==
    /\ word \in {"put", "clear", "repo", "dotenv", "legacy"} => Inert(s) /\ Normal
    /\ word = "read" => \/ Inert(s) /\ Normal
                        \/ \E w, cd : Changes(w, cd) /\ \/ s = Starting(w, cd) /\ Normal
                                                        \/ s = Changing(w, cd) /\ Untimed /\ Known
                        \/ \E due \in BOOLEAN, h \in 0..created :
                              s = Storing(h, due) /\ Timed(due) /\ Registered(h) /\ (h = C!NoHook => ~Needs)
    /\ word = "write" => \/ Inert(s) /\ Normal
                         \/ \E w, cd : Changes(w, cd) /\ s = Writing(w, cd) /\ Untimed /\ Known
                         \/ \E due \in BOOLEAN, h \in 0..created :
                               s = Noting(h, due) /\ Timed(due) /\ Registered(h) /\ (h = C!NoHook => ~Needs)
    /\ word \in {"replace", "unschedule"} =>
         \E w, cd : Changes(w, cd) /\ word = w /\ s = Stopping(w, cd) /\ fresh /\ Normal
    /\ word = "unused" => s = <<C!Do("unused")>> /\ Normal
    /\ word = "consumers" => s = <<C!Do("consumers")>> /\ fresh /\ Normal /\ row.hook # C!NoHook
    /\ word = "unhook" => /\ s = <<C!Do("unhook")>> /\ fresh /\ Timed(FALSE) /\ Registered(row.hook)
                          /\ row.hook # C!NoHook /\ ~Needs
    /\ word = "ensure" => \E due \in BOOLEAN : s = Ensuring(due) /\ Timed(due) /\ Registered(row.hook)
    /\ word = "hook" => \E due \in BOOLEAN :
         s = Hooking(due) /\ Timed(due) /\ Registered(row.hook) /\ row.hook = C!NoHook
    /\ word = "schedule" => s = <<C!Do("schedule")>> /\ Timed(TRUE) /\ Known
    /\ word \notin {"webhooks", "project"}

\* The lists tell.
LEMMA StageTells ==
    ASSUME ProjectTyped, NEW f \in Flows, ~C!Idle(f), Stage(f)
    PROVE  Upcoming(flow[f].todo, Head(flow[f].todo).do, flow[f].row = row)
<1>1. PICK s, word, fresh : s = flow[f].todo /\ word = Head(s).do /\ fresh = (flow[f].row = row)
  OBVIOUS
<1> SUFFICES Upcoming(s, word, fresh)
  BY <1>1
<1>0. s \in Seq(Steps(created)) /\ s # <<>>
  BY <1>1 DEF ProjectTyped, Handled, C!Idle
<1>2. /\ \A u : C!Do(u).do = u
      /\ \A u : C!Write(u).do = "write" /\ C!Write(u).with = u
  BY DEF C!Do, C!Write
<1>3. ASSUME NEW x, NEW t, Opens(s, x, t) PROVE word = x.do
  BY <1>1, <1>3 DEF Opens
<1>4. Stage(f) <=>
      \/ Inert(s) /\ Normal
      \/ \E w \in {"replace", "unschedule"}, cd \in Setups \cup {C!NoCd} : Changes(w, cd) /\
           \/ s = Starting(w, cd) /\ Normal
           \/ s = Stopping(w, cd) /\ fresh /\ Normal
           \/ s \in {Changing(w, cd), Writing(w, cd)} /\ Untimed /\ Known
      \/ s = <<C!Do("unused")>> /\ Normal
      \/ s = <<C!Do("consumers")>> /\ fresh /\ Normal /\ row.hook # C!NoHook
      \/ s = <<C!Do("unhook")>> /\ fresh /\ Timed(FALSE) /\ Registered(row.hook) /\ row.hook # C!NoHook /\ ~Needs
      \/ \E due \in BOOLEAN : Timed(due) /\
           \/ s = Ensuring(due) /\ Registered(row.hook)
           \/ s = Hooking(due) /\ Registered(row.hook) /\ row.hook = C!NoHook
           \/ \E h \in 0..created : /\ s \in {Storing(h, due), Noting(h, due)}
                                    /\ Registered(h) /\ (h = C!NoHook => ~Needs)
           \/ s = <<C!Do("schedule")>> /\ due /\ Known
  BY <1>1 DEF Stage
<1>5. CASE Inert(s) /\ Normal
  <2>1. Inert(s) => word \in {"read", "put", "clear", "repo", "dotenv", "legacy", "write"}
    BY <1>0, <1>1, InertRest
  <2> QED
    BY <1>5, <2>1 DEF Upcoming
<1>6. ASSUME NEW w \in {"replace", "unschedule"}, NEW cd \in Setups \cup {C!NoCd}, Changes(w, cd),
             \/ s = Starting(w, cd) /\ Normal
             \/ s = Stopping(w, cd) /\ fresh /\ Normal
             \/ s \in {Changing(w, cd), Writing(w, cd)} /\ Untimed /\ Known
      PROVE  Upcoming(s, word, fresh)
  <2>1. CASE s = Starting(w, cd) /\ Normal
    <3>1. word = "read"
      BY <1>2, <1>3, <2>1, ListsOpen
    <3> QED
      BY <1>6, <2>1, <3>1 DEF Upcoming
  <2>2. CASE s = Stopping(w, cd) /\ fresh /\ Normal
    <3>1. word = w
      BY <1>2, <1>3, <2>2, ListsOpen
    <3> QED
      BY <1>6, <2>2, <3>1 DEF Upcoming
  <2>3. CASE s = Changing(w, cd) /\ Untimed /\ Known
    <3>1. word = "read"
      BY <1>2, <1>3, <2>3, ListsOpen
    <3> QED
      BY <1>6, <2>3, <3>1 DEF Upcoming
  <2>4. CASE s = Writing(w, cd) /\ Untimed /\ Known
    <3>0. Opens(s, C!Write([cicd |-> cd]), Afterwards(w, cd)) /\ C!Write([cicd |-> cd]).do = "write"
      BY <2>4, ListsOpen DEF C!Write
    <3>1. word = "write"
      BY <1>3, <3>0
    <3> QED
      BY <1>6, <2>4, <3>1 DEF Upcoming
  <2> QED
    BY <1>6, <2>1, <2>2, <2>3, <2>4
<1>7. \A u : s = <<C!Do(u)>> => word = u
  BY <1>2, <1>3, OneOpens
<1>8. CASE s = <<C!Do("unused")>> /\ Normal
  <2>1. word = "unused"
    BY <1>7, <1>8
  <2> QED
    BY <1>8, <2>1 DEF Upcoming
<1>9. CASE s = <<C!Do("consumers")>> /\ fresh /\ Normal /\ row.hook # C!NoHook
  <2>1. word = "consumers"
    BY <1>7, <1>9
  <2> QED
    BY <1>9, <2>1 DEF Upcoming
<1>10. CASE s = <<C!Do("unhook")>> /\ fresh /\ Timed(FALSE) /\ Registered(row.hook) /\ row.hook # C!NoHook /\ ~Needs
  <2>1. word = "unhook"
    BY <1>7, <1>10
  <2> QED
    BY <1>10, <2>1 DEF Upcoming
<1>11. ASSUME NEW due \in BOOLEAN, Timed(due),
              \/ s = Ensuring(due) /\ Registered(row.hook)
              \/ s = Hooking(due) /\ Registered(row.hook) /\ row.hook = C!NoHook
              \/ \E h \in 0..created : /\ s \in {Storing(h, due), Noting(h, due)}
                                       /\ Registered(h) /\ (h = C!NoHook => ~Needs)
              \/ s = <<C!Do("schedule")>> /\ due /\ Known
       PROVE  Upcoming(s, word, fresh)
  <2>1. CASE s = Ensuring(due) /\ Registered(row.hook)
    <3>1. word = "ensure"
      BY <1>2, <1>3, <2>1, ListsOpen
    <3> QED
      BY <1>11, <2>1, <3>1 DEF Upcoming
  <2>2. CASE s = Hooking(due) /\ Registered(row.hook) /\ row.hook = C!NoHook
    <3>1. word = "hook"
      BY <1>2, <1>3, <2>2, ListsOpen
    <3> QED
      BY <1>11, <2>2, <3>1 DEF Upcoming
  <2>3. ASSUME NEW h \in 0..created, s = Storing(h, due), Registered(h), h = C!NoHook => ~Needs
        PROVE  Upcoming(s, word, fresh)
    <3>1. word = "read"
      BY <1>2, <1>3, <2>3, ListsOpen
    <3> QED
      BY <1>11, <2>3, <3>1 DEF Upcoming
  <2>4. ASSUME NEW h \in 0..created, s = Noting(h, due), Registered(h), h = C!NoHook => ~Needs
        PROVE  Upcoming(s, word, fresh)
    <3>0. Opens(s, C!Write([hook |-> h]), Scheduling(due)) /\ C!Write([hook |-> h]).do = "write"
      BY <2>4, ListsOpen DEF C!Write
    <3>1. word = "write"
      BY <1>3, <3>0
    <3> QED
      BY <1>11, <2>4, <3>1 DEF Upcoming
  <2>5. CASE s = <<C!Do("schedule")>> /\ due /\ Known
    <3>1. word = "schedule" /\ due = TRUE
      BY <1>7, <2>5
    <3> QED
      BY <1>11, <2>5, <3>1 DEF Upcoming
  <2> QED
    BY <1>11, <2>1, <2>2, <2>3, <2>4, <2>5
<1> QED
  BY <1>4, <1>5, <1>6, <1>8, <1>9, <1>10, <1>11

-----------------------------------------------------------------------------
(* What the steps keep of the triggers.                                    *)

\* What is known of the task and of the hook stays known as long as they, the
\* configuration and who wants events are the same.
LEMMA KnownStays ==
    ASSUME \A K \in SUBSET C!Kinds : C!Never(K)' => C!Never(K)
    PROVE  /\ row'.cicd = row.cicd /\ task' = task =>
                /\ \A due \in BOOLEAN : Timed(due) => Timed(due)'
                /\ Untimed => Untimed'
           /\ hooks' = hooks => \A h : Registered(h) => Registered(h)'
           /\ row'.cicd = row.cicd /\ wants' = wants => (Needs' => Needs)
           /\ row'.cicd = row.cicd /\ wants' = wants /\ row'.hook = row.hook => (Served => Served')
           /\ row'.cicd = row.cicd /\ wants' = wants /\ row'.hook = row.hook /\ hooks' = hooks => (Known => Known')
           /\ row'.cicd = row.cicd /\ wants' = wants /\ row'.hook = row.hook /\ hooks' = hooks /\ task' = task
                => (Normal => Normal')
<1>1. /\ {"refused"} \in SUBSET C!Kinds /\ {"over"} \in SUBSET C!Kinds /\ {"crash", "lost"} \in SUBSET C!Kinds
      /\ {"crash", "lost", "kept"} \in SUBSET C!Kinds /\ {"crash", "lost", "refused"} \in SUBSET C!Kinds
  BY DEF C!Kinds
<1>2. ASSUME row'.cicd = row.cicd, task' = task
      PROVE  (\A due \in BOOLEAN : Timed(due) => Timed(due)') /\ (Untimed => Untimed')
  BY <1>1, <1>2 DEF Timed, Untimed
<1>3. ASSUME hooks' = hooks PROVE \A h : Registered(h) => Registered(h)'
  BY <1>1, <1>3 DEF Registered
<1>4. ASSUME row'.cicd = row.cicd, wants' = wants PROVE Needs' => Needs
  BY <1>1, <1>4 DEF Needs
<1>5. ASSUME row'.cicd = row.cicd, wants' = wants, row'.hook = row.hook PROVE Served => Served'
  BY <1>1, <1>4, <1>5 DEF Served
<1>6. ASSUME row'.cicd = row.cicd, wants' = wants, row'.hook = row.hook, hooks' = hooks PROVE Known => Known'
  BY <1>3, <1>5, <1>6 DEF Known
<1>7. ASSUME row'.cicd = row.cicd, wants' = wants, row'.hook = row.hook, hooks' = hooks, task' = task
      PROVE  Normal => Normal'
  BY <1>2, <1>6, <1>7 DEF Normal
<1> QED
  BY <1>2, <1>3, <1>4, <1>5, <1>6, <1>7

\* A request goes on with other steps, having read what it had read.
LEMMA GoesOn ==
    ASSUME ProjectTyped, NEW f \in Flows, NEW s, C!Goes(f, s)
    PROVE  flow'[f].todo = s /\ (s # <<>> => flow'[f].row = flow[f].row)
<1>1. flow \in [Flows -> Handled(created)]
  BY DEF ProjectTyped
<1>2. CASE s = <<>>
  <2>1. flow' = [flow EXCEPT ![f] = C!NoFlow]
    BY <1>2 DEF C!Goes
  <2> QED
    BY <1>1, <1>2, <2>1, NothingIsFit, NoFlowIsHandled DEF C!NoFlow
<1>3. CASE s # <<>>
  <2>1. flow' = [flow EXCEPT ![f] = [flow[f] EXCEPT !.todo = s]]
    BY <1>3 DEF C!Goes
  <2>2. [flow[f] EXCEPT !.todo = s].todo = s /\ [flow[f] EXCEPT !.todo = s].row = flow[f].row
    BY <1>1 DEF Handled
  <2> QED
    BY <1>1, <2>1, <2>2
<1> QED
  BY <1>2, <1>3

\* What a write makes of the row as it is.
LEMMA WriteKeeps ==
    ASSUME ProjectTyped, ReadsAreFresh, NEW f \in Flows, C!WriteProject(f)
    PROVE  LET u == Head(flow[f].todo).with
           IN  /\ row'.exists
               /\ row'.cicd = IF "cicd" \in DOMAIN u THEN u["cicd"] ELSE row.cicd
               /\ row'.hook = IF "hook" \in DOMAIN u THEN u["hook"] ELSE row.hook
<1> DEFINE u == Head(flow[f].todo).with
           D == {"exists", "config", "quota", "key", "node", "names", "cicd", "hook"}
<1>1. flow[f].row = row /\ row' = [C!Merged(row, u) EXCEPT !.exists = TRUE]
  BY DEF C!WriteProject, ReadsAreFresh, C!With
<1>2. DOMAIN row = D
  BY DEF ProjectTyped, ProjectRows
<1> HIDE DEF u
<1>3. C!Merged(row, u) = [x \in D |-> IF x \in DOMAIN u THEN u[x] ELSE row[x]]
  BY <1>2 DEF C!Merged
<1> QED
  BY <1>1, <1>3 DEF u

\* Requests that begin, one at a time.
LEMMA BeginningFollows ==
    ASSUME ProjectTyped, OneAtATime, TriggersFollow, C!Next, C!Never({"overlap"})', C!Never({"delete"})', NEW f \in Flows,
           \/ C!RowRequests(f) \/ C!StartSync(f) \/ C!StartDeploy(f)
           \/ \E n \in Names, v \in C!Values \ {0} : C!UpdateEnvironmentVariable(f, n, v)
           \/ \E cd \in Setups : C!SetupManagedCd(f, cd)
           \/ C!RemoveManagedCd(f) \/ C!Subscribe(f) \/ C!Quit(f) \/ C!StartDelete(f)
           \/ \E legacy \in BOOLEAN : C!CreateProject(f, legacy)
    PROVE  Stage(f)' /\ row'.exists
<1>1. \A K \in SUBSET C!Kinds : C!Never(K)' => C!Never(K)
  BY ProjectCounts
<1>2. ASSUME NEW event \in C!Kinds, NEW s, C!Begins(f, event, s)
      PROVE  C!Quiet /\ Normal /\ flow'[f].todo = s
  <2>1. C!Quiet
    BY <1>2, BeginsAlone DEF C!Begins
  <2> QED
    BY <1>2, <2>1, GoesOn DEF TriggersFollow, C!Begins
<1>3. row.exists
  BY DEF TriggersFollow
<1>4. ASSUME NEW s, flow'[f].todo = s, Inert(s), Normal, UNCHANGED <<row, wants, task, hooks>>
      PROVE  Stage(f)' /\ row'.exists
  <2>1. Normal'
    BY <1>1, <1>4, KnownStays
  <2> QED
    BY <1>3, <1>4, <2>1 DEF Stage
<1> DEFINE Leaves == UNCHANGED <<row, wants, task, hooks>>
<1>5. CASE C!RowRequests(f)
  <2>1. Leaves
    BY <1>5 DEF C!RowRequests, C!store, C!github
  <2>2. ASSUME NEW v \in C!Values,
               C!UpdateProject(f, v) \/ C!SetProjectQuota(f, v) \/ C!ResetDeploymentKey(f, v)
        PROVE  Stage(f)' /\ row'.exists
    <3>1. "config" \in C!Kinds /\ "quota" \in C!Kinds /\ "key" \in C!Kinds
      BY DEF C!Kinds
    <3>2. /\ Inert(C!Update([config |-> v])) /\ Inert(C!Update([quota |-> v])) /\ Inert(C!Update([key |-> v]))
          /\ Inert(<<C!Do("read")>>)
      BY InertLists
    <3>3. Inert(<<C!Do("read")>> \o C!Update([key |-> v]))
      <4>1. PICK S : <<C!Do("read")>> \in Seq(S) /\ C!Update([key |-> v]) \in Seq(S)
        <5>1. <<C!Do("read")>> \in Seq({C!Do("read"), C!Write([key |-> v])})
          OBVIOUS
        <5>2. C!Update([key |-> v]) \in Seq({C!Do("read"), C!Write([key |-> v])})
          BY DEF C!Update
        <5> QED
          BY <5>1, <5>2
      <4> QED
        BY <3>2, <4>1, InertJoin
    <3>4. \E s : flow'[f].todo = s /\ Inert(s) /\ Normal
      BY <1>2, <2>2, <3>1, <3>2, <3>3 DEF C!UpdateProject, C!SetProjectQuota, C!ResetDeploymentKey
    <3> QED
      BY <1>4, <2>1, <3>4
  <2> QED
    BY <1>5, <2>2 DEF C!RowRequests
<1>6. Inert(C!SyncProjectToRepoData) /\ Inert(C!SyncProjectToRepoData \o <<C!Do("dotenv")>>)
  <2>1. C!Do("read").do = "read" /\ C!Do("repo").do = "repo"
    BY DEF C!Do
  <2>2. Inert(C!SyncProjectToRepoData)
    <3> HIDE DEF C!Do
    <3> QED
      BY <2>1 DEF Inert, C!SyncProjectToRepoData
  <2>3. /\ C!SyncProjectToRepoData \in Seq({C!Do("read"), C!Do("repo"), C!Do("dotenv")})
        /\ <<C!Do("dotenv")>> \in Seq({C!Do("read"), C!Do("repo"), C!Do("dotenv")})
    BY DEF C!SyncProjectToRepoData
  <2> QED
    BY <2>2, <2>3, InertLists, InertJoin
<1>7. CASE C!StartSync(f)
  <2>1. Leaves
    BY <1>7 DEF C!StartSync, C!store, C!github
  <2>2. "sync" \in C!Kinds
    BY DEF C!Kinds
  <2> QED
    BY <1>2, <1>4, <1>6, <1>7, <2>1, <2>2 DEF C!StartSync
<1>8. CASE C!StartDeploy(f)
  <2>1. Leaves
    BY <1>8 DEF C!StartDeploy, C!store, C!github
  <2>2. "deploy" \in C!Kinds
    BY DEF C!Kinds
  <2>3. C!Quiet /\ Normal
    BY <1>8, <2>2, BeginsAlone DEF C!StartDeploy, TriggersFollow
  <2>4. flow'[f].todo = C!SyncProjectToRepoData \o <<C!Do("dotenv")>>
    BY <1>8 DEF C!StartDeploy, ProjectTyped
  <2> QED
    BY <1>4, <1>6, <2>1, <2>3, <2>4
<1>9. ASSUME NEW n \in Names, NEW v \in C!Values \ {0}, C!UpdateEnvironmentVariable(f, n, v)
      PROVE  Stage(f)' /\ row'.exists
  <2>1. Leaves
    BY <1>9 DEF C!UpdateEnvironmentVariable, C!store, C!github
  <2>2. "env" \in C!Kinds
    BY DEF C!Kinds
  <2>3. Inert(<<C!Put(n, v)>>) /\ Inert(C!Update(C!Nothing))
    BY InertLists DEF C!Nothing
  <2>4. Inert(<<C!Put(n, v)>> \o C!Update(C!Nothing))
    <3>1. PICK S : <<C!Put(n, v)>> \in Seq(S) /\ C!Update(C!Nothing) \in Seq(S)
      <4>1. <<C!Put(n, v)>> \in Seq({C!Put(n, v), C!Do("read"), C!Write(C!Nothing)})
        OBVIOUS
      <4>2. C!Update(C!Nothing) \in Seq({C!Put(n, v), C!Do("read"), C!Write(C!Nothing)})
        BY DEF C!Update
      <4> QED
        BY <4>1, <4>2
    <3> QED
      BY <2>3, <3>1, InertJoin
  <2> QED
    BY <1>2, <1>4, <1>9, <2>1, <2>2, <2>4 DEF C!UpdateEnvironmentVariable
<1>10. ASSUME NEW cd \in Setups, C!SetupManagedCd(f, cd) PROVE Stage(f)' /\ row'.exists
  <2>1. Leaves
    BY <1>10 DEF C!SetupManagedCd, C!store, C!github
  <2>2. "setup" \in C!Kinds
    BY DEF C!Kinds
  <2>3. flow'[f].todo = Starting("replace", cd) /\ Normal
    BY <1>2, <1>10, <2>2, ListsBegin DEF C!SetupManagedCd
  <2>4. Normal'
    BY <1>1, <2>1, <2>3, KnownStays
  <2>5. Changes("replace", cd)
    BY DEF Changes
  <2> QED
    BY <1>3, <2>1, <2>3, <2>4, <2>5 DEF Stage
<1>11. CASE C!RemoveManagedCd(f)
  <2>1. Leaves
    BY <1>11 DEF C!RemoveManagedCd, C!store, C!github
  <2>2. "remove" \in C!Kinds
    BY DEF C!Kinds
  <2>3. flow'[f].todo = Starting("unschedule", C!NoCd) /\ Normal
    BY <1>2, <1>11, <2>2, ListsBegin DEF C!RemoveManagedCd
  <2>4. Normal'
    BY <1>1, <2>1, <2>3, KnownStays
  <2>5. Changes("unschedule", C!NoCd)
    BY DEF Changes
  <2> QED
    BY <1>3, <2>1, <2>3, <2>4, <2>5 DEF Stage
<1>12. CASE C!Subscribe(f)
  <2>1. UNCHANGED <<row, task, hooks>>
    BY <1>12 DEF C!Subscribe, C!github
  <2>2. "subscribe" \in C!Kinds
    BY DEF C!Kinds
  <2>3. flow'[f].todo = Ensuring(FALSE) /\ Normal
    BY <1>2, <1>12, <2>2, ListsBegin DEF C!Subscribe
  <2>4. Timed(FALSE)' /\ Registered(row.hook)'
    BY <1>1, <2>1, <2>3, KnownStays DEF Normal, Known
  <2> QED
    BY <1>3, <2>1, <2>3, <2>4 DEF Stage
<1>13. CASE C!Quit(f)
  <2>1. UNCHANGED <<row, task, hooks>> /\ wants' = FALSE
    BY <1>13 DEF C!Quit, C!github
  <2>2. "quit" \in C!Kinds
    BY DEF C!Kinds
  <2>3. flow'[f].todo = <<C!Do("unused")>> /\ Normal
    BY <1>2, <1>13, <2>2 DEF C!Quit
  <2>4. Timed(FALSE)' /\ Registered(row.hook)'
    BY <1>1, <2>1, <2>3, KnownStays DEF Normal, Known
  <2>5. Served'
    <3>1. Served /\ {"crash", "lost", "refused"} \in SUBSET C!Kinds
      BY <2>3 DEF Normal, Known, C!Kinds
    <3>2. Needs' => Needs
      BY <1>1, <2>1 DEF Needs, C!Kinds
    <3> QED
      BY <1>1, <2>1, <3>1, <3>2 DEF Served
  <2>6. Normal'
    BY <2>4, <2>5 DEF Normal, Known
  <2> QED
    BY <1>3, <2>1, <2>3, <2>6 DEF Stage
<1>14. CASE C!StartDelete(f)
  <2>1. C!Uses(IF C!Quiet THEN {"delete"} ELSE {"delete", "overlap"})
    BY <1>14 DEF C!StartDelete, C!Begins
  <2>2. (IF C!Quiet THEN {"delete"} ELSE {"delete", "overlap"}) \in SUBSET C!Kinds
    BY DEF C!Kinds
  <2>3. used'["delete"] > 0
    BY <2>1, <2>2, ProjectEvents DEF ProjectTyped
  <2> QED
    BY <2>3 DEF C!Never
<1>15. ASSUME NEW legacy \in BOOLEAN, C!CreateProject(f, legacy) PROVE Stage(f)' /\ row'.exists
  <2> DEFINE a == C!SyncProjectToRepoData
             u == [config |-> 1]
             b == <<C!Do("read"), C!Write(u), C!Do("legacy")>>
  <2>1. C!Quiet /\ ~C!Never({"over"})'
    BY <1>3, <1>15, CreateIsCounted
  <2>2. /\ row' = [C!NewRow EXCEPT !.node = row.node] /\ UNCHANGED <<wants, task, hooks>>
        /\ flow'[f].todo = a \o (IF legacy THEN b ELSE <<>>)
    BY <1>3, <1>15, GoesOn DEF C!CreateProject, C!github
  <2>3. Inert(a \o <<>>) /\ Inert(a \o b)
    <3>1. "hook" \notin DOMAIN u /\ "cicd" \notin DOMAIN u
      OBVIOUS
    <3>2. /\ C!Do("read").do = "read" /\ C!Do("legacy").do = "legacy"
          /\ C!Write(u).do = "write" /\ C!Write(u).with = u
      BY DEF C!Do, C!Write
    <3>3. Inert(b)
      <4> HIDE DEF C!Do, C!Write, u
      <4> QED
        BY <3>1, <3>2 DEF Inert
    <3>4. LET S == {C!Do("read"), C!Do("repo"), C!Write(u), C!Do("legacy")}
          IN  a \in Seq(S) /\ b \in Seq(S) /\ <<>> \in Seq(S)
      <4> HIDE DEF C!Do, C!Write, u
      <4> QED
        BY DEF C!SyncProjectToRepoData
    <3> HIDE DEF a, b
    <3> QED
      BY <1>6, <3>3, <3>4, InertLists, InertJoin DEF a
  <2>4. row'.exists /\ row'.cicd = C!NoCd /\ row'.hook = C!NoHook
    BY <2>2 DEF C!NewRow
  <2>5. ~C!Scheduled(C!NoCd) /\ ~EventDriven(C!NoCd)
    BY DEF C!NoCd, C!Scheduled, EventDriven, C!EventTriggersDeploy
  <2>6. Normal'
    BY <2>1, <2>4, <2>5 DEF Normal, Known, Timed, Registered, Served, Needs
  <2> HIDE DEF a, b
  <2> QED
    BY <2>2, <2>3, <2>4, <2>6 DEF Stage
<1> QED
  BY <1>5, <1>7, <1>8, <1>9, <1>10, <1>11, <1>12, <1>13, <1>14, <1>15

\* A request that reads the row, or writes it.
LEMMA RowStepsFollow ==
    ASSUME ProjectTyped, ReadsAreFresh, TriggersFollow, C!Next, NEW f \in Flows, C!ReadProject(f) \/ C!WriteProject(f)
    PROVE  Stage(f)' /\ row'.exists
<1> DEFINE s == flow[f].todo
           fresh == flow[f].row = row
<1>1. \A K \in SUBSET C!Kinds : C!Never(K)' => C!Never(K)
  BY ProjectCounts
<1>2. ~C!Idle(f) /\ s \in Seq(Steps(created)) /\ s # <<>> /\ C!Rest(f) = Tail(s)
  BY DEF C!ReadProject, C!WriteProject, C!At, C!Idle, ProjectTyped, Handled, C!Rest
<1>3. Upcoming(s, Head(s).do, fresh)
  BY <1>2, StageTells DEF TriggersFollow
<1>4. UNCHANGED <<wants, task, hooks, created>> /\ created \in Nat
  BY DEF C!ReadProject, C!WriteProject, C!store, C!github, ProjectTyped
<1>5. CASE C!ReadProject(f)
  <2>1. row' = row /\ row.exists /\ Head(s).do = "read"
    BY <1>5 DEF C!ReadProject, C!store, TriggersFollow, C!At
  <2>2. flow'[f].todo = Tail(s) /\ (Tail(s) # <<>> => flow'[f].row = row')
    <3>1. flow' = [flow EXCEPT ![f] = IF Tail(s) = <<>> THEN C!NoFlow ELSE [flow[f] EXCEPT !.todo = Tail(s), !.row = row]]
      BY <1>2, <1>5, <2>1 DEF C!ReadProject, C!Reads
    <3>2. flow \in [Flows -> Handled(created)]
      BY DEF ProjectTyped
    <3>3. CASE Tail(s) = <<>>
      BY <3>1, <3>2, <3>3 DEF C!NoFlow
    <3>4. CASE Tail(s) # <<>>
      <4>1. flow'[f] = [flow[f] EXCEPT !.todo = Tail(s), !.row = row] /\ flow[f] \in Handled(created)
        BY <3>1, <3>2, <3>4
      <4> QED
        BY <2>1, <4>1 DEF Handled
    <3> QED
      BY <3>3, <3>4
  <2>3. CASE Inert(s) /\ Normal
    <3>1. Inert(Tail(s)) /\ Normal'
      BY <1>1, <1>2, <1>4, <2>1, <2>3, InertRest, KnownStays
    <3> QED
      BY <2>1, <2>2, <3>1 DEF Stage
  <2>4. ASSUME NEW w, NEW cd, Changes(w, cd), s = Starting(w, cd), Normal
        PROVE  Stage(f)'
    <3>1. Opens(Starting(w, cd), C!Do("read"), Stopping(w, cd)) /\ Opens(Stopping(w, cd), C!Do(w), Changing(w, cd))
      BY ListsOpen
    <3>2. flow'[f].todo = Stopping(w, cd) /\ flow'[f].row = row'
      BY <2>2, <2>4, <3>1 DEF Opens
    <3>3. Normal' /\ w \in {"replace", "unschedule"} /\ cd \in Setups \cup {C!NoCd}
      BY <1>1, <1>4, <2>1, <2>4, KnownStays DEF Changes
    <3> QED
      BY <2>4, <3>2, <3>3 DEF Stage
  <2>5. ASSUME NEW w, NEW cd, Changes(w, cd), s = Changing(w, cd), Untimed, Known
        PROVE  Stage(f)'
    <3>1. Opens(Changing(w, cd), C!Do("read"), Writing(w, cd))
      BY ListsOpen
    <3>2. flow'[f].todo = Writing(w, cd)
      BY <2>2, <2>5, <3>1 DEF Opens
    <3>3. Untimed' /\ Known' /\ w \in {"replace", "unschedule"} /\ cd \in Setups \cup {C!NoCd}
      BY <1>1, <1>4, <2>1, <2>5, KnownStays DEF Changes
    <3> QED
      BY <2>5, <3>2, <3>3 DEF Stage
  <2>6. ASSUME NEW due \in BOOLEAN, NEW h \in 0..created,
               s = Storing(h, due), Timed(due), Registered(h), h = C!NoHook => ~Needs
        PROVE  Stage(f)'
    <3>1. Opens(Storing(h, due), C!Do("read"), Noting(h, due))
      BY ListsOpen
    <3>2. flow'[f].todo = Noting(h, due)
      BY <2>2, <2>6, <3>1 DEF Opens
    <3>3. Timed(due)' /\ Registered(h)' /\ (h = C!NoHook => ~Needs') /\ h \in 0..created'
      BY <1>1, <1>4, <2>1, <2>6, KnownStays
    <3> QED
      BY <3>2, <3>3 DEF Stage
  <2> QED
    BY <1>3, <2>1, <2>3, <2>4, <2>5, <2>6 DEF Upcoming
<1>6. CASE C!WriteProject(f)
  <2>1. Head(s).do = "write" /\ C!Goes(f, Tail(s))
    BY <1>2, <1>6 DEF C!WriteProject, C!At
  <2>2. flow'[f].todo = Tail(s)
    BY <2>1, GoesOn
  <2>3. /\ row'.exists
        /\ row'.cicd = IF "cicd" \in DOMAIN Head(s).with THEN Head(s).with["cicd"] ELSE row.cicd
        /\ row'.hook = IF "hook" \in DOMAIN Head(s).with THEN Head(s).with["hook"] ELSE row.hook
    BY <1>6, WriteKeeps
  <2>4. CASE Inert(s) /\ Normal
    <3>1. Inert(Tail(s)) /\ "hook" \notin DOMAIN Head(s).with /\ "cicd" \notin DOMAIN Head(s).with
      BY <1>2, <2>1, <2>4, InertRest
    <3>2. Normal'
      BY <1>1, <1>4, <2>3, <2>4, <3>1, KnownStays
    <3> QED
      BY <2>2, <2>3, <3>1, <3>2 DEF Stage
  <2>5. ASSUME NEW w, NEW cd, Changes(w, cd), s = Writing(w, cd), Untimed, Known
        PROVE  Stage(f)'
    <3>1. Opens(Writing(w, cd), C!Write([cicd |-> cd]), Afterwards(w, cd))
      BY ListsOpen
    <3>2. flow'[f].todo = Afterwards(w, cd) /\ Head(s).with = [cicd |-> cd]
      BY <2>2, <2>5, <3>1 DEF Opens, C!Write
    <3>3. row'.cicd = cd /\ row'.hook = row.hook
      BY <2>3, <3>2
    <3>4. /\ Registered(row.hook)' /\ {"refused"} \in SUBSET C!Kinds /\ {"crash", "lost", "refused"} \in SUBSET C!Kinds
          /\ {"over"} \in SUBSET C!Kinds
      BY <1>1, <1>4, <2>5, <3>3, KnownStays DEF Known, C!Kinds
    <3>5. Untimed'
      BY <1>1, <1>4, <2>5, <3>4 DEF Untimed
    <3>6. ASSUME ~EventDriven(cd) PROVE Known'
      <4>1. Needs' => Needs
        BY <1>1, <1>4, <3>3, <3>4, <3>6 DEF Needs
      <4>2. Served'
        BY <1>1, <2>5, <3>3, <3>4, <4>1 DEF Served, Known
      <4> QED
        BY <3>4, <4>2 DEF Known
    <3>7. ASSUME ~C!Scheduled(cd) PROVE Timed(FALSE)'
      BY <3>3, <3>5, <3>7 DEF Timed, Untimed
    <3>8. ASSUME C!Scheduled(cd) PROVE Timed(TRUE)'
      BY <3>3, <3>5, <3>8 DEF Timed, Untimed
    <3>9. CASE w = "unschedule"
      <4>1. cd = C!NoCd /\ Afterwards(w, cd) = <<C!Do("unused")>>
        BY <2>5, <3>9 DEF Changes, Afterwards
      <4>2. ~EventDriven(cd) /\ ~C!Scheduled(cd)
        BY <4>1 DEF EventDriven, C!EventTriggersDeploy, C!NoCd, C!Scheduled
      <4>3. Normal'
        BY <3>6, <3>7, <4>2 DEF Normal
      <4> QED
        BY <3>2, <4>1, <4>3 DEF Stage
    <3>10. CASE w # "unschedule" /\ cd.triggers # {"schedule"}
      <4>1. flow'[f].todo = Ensuring(C!Scheduled(cd)) /\ C!Scheduled(cd) \in BOOLEAN
        BY <3>2, <3>10 DEF Afterwards, C!Scheduled
      <4>2. Timed(C!Scheduled(cd))'
        <5>1. CASE C!Scheduled(cd)
          <6>1. C!Scheduled(cd) = TRUE
            BY <4>1, <5>1
          <6> QED
            BY <3>8, <5>1, <6>1
        <5>2. CASE ~C!Scheduled(cd)
          <6>1. C!Scheduled(cd) = FALSE
            BY <4>1, <5>2
          <6> QED
            BY <3>7, <5>2, <6>1
        <5> QED
          BY <5>1, <5>2
      <4> QED
        BY <3>4, <4>1, <4>2 DEF Stage
    <3>11. CASE w # "unschedule" /\ cd.triggers = {"schedule"}
      <4>1. ~EventDriven(cd)
        BY <3>11 DEF EventDriven, C!EventTriggersDeploy
      <4>2. flow'[f].todo = Scheduling(C!Scheduled(cd)) /\ Known'
        BY <3>2, <3>6, <3>11, <4>1 DEF Afterwards
      <4>3. CASE C!Scheduled(cd)
        BY <3>8, <4>2, <4>3 DEF Stage, Scheduling
      <4>4. CASE ~C!Scheduled(cd)
        BY <3>7, <4>2, <4>4, InertLists DEF Stage, Scheduling, Normal
      <4> QED
        BY <4>3, <4>4
    <3> QED
      BY <3>9, <3>10, <3>11
  <2>6. ASSUME NEW due \in BOOLEAN, NEW h \in 0..created,
               s = Noting(h, due), Timed(due), Registered(h), h = C!NoHook => ~Needs
        PROVE  Stage(f)'
    <3>1. Opens(Noting(h, due), C!Write([hook |-> h]), Scheduling(due))
      BY ListsOpen
    <3>2. flow'[f].todo = Scheduling(due) /\ Head(s).with = [hook |-> h]
      BY <2>2, <2>6, <3>1 DEF Opens, C!Write
    <3>3. row'.cicd = row.cicd /\ row'.hook = h
      BY <2>3, <3>2
    <3>4. Timed(due)' /\ Registered(h)' /\ (h = C!NoHook => ~Needs')
      BY <1>1, <1>4, <2>6, <3>3, KnownStays
    <3>5. Known'
      BY <3>3, <3>4 DEF Known, Served, Registered
    <3>6. CASE due = TRUE
      BY <3>2, <3>4, <3>5, <3>6 DEF Stage, Scheduling
    <3>7. CASE due = FALSE
      BY <3>2, <3>4, <3>5, <3>7, InertLists DEF Stage, Scheduling, Normal
    <3> QED
      BY <3>6, <3>7
  <2> QED
    BY <1>3, <2>1, <2>3, <2>4, <2>5, <2>6 DEF Upcoming
<1> QED
  BY <1>5, <1>6

\* A request that stops the task or starts it, or that deals with the hook.
LEMMA TriggerStepsFollow ==
    ASSUME ProjectTyped, TriggersFollow, C!Next, NEW f \in Flows,
           \/ C!Unschedule(f) \/ C!RegisterScheduledDeploy(f)
           \/ C!EnsureGithubWebhook(f) \/ C!CreateRepoWebhook(f) \/ C!HookRefused(f)
           \/ C!Unused(f) \/ C!Consumers(f) \/ \E refused \in BOOLEAN : C!DeleteRepoWebhook(f, refused)
    PROVE  Stage(f)' /\ row'.exists
<1> DEFINE s == flow[f].todo
           fresh == flow[f].row = row
<1>1. /\ \A K \in SUBSET C!Kinds : C!Never(K)' => C!Never(K)
      /\ {"refused"} \in SUBSET C!Kinds /\ {"crash", "lost"} \in SUBSET C!Kinds
      /\ {"crash", "lost", "kept"} \in SUBSET C!Kinds /\ {"crash", "lost", "refused"} \in SUBSET C!Kinds
      /\ {"kept"} \in SUBSET C!Kinds /\ {"over"} \in SUBSET C!Kinds /\ {} \in SUBSET C!Kinds
  BY ProjectCounts DEF C!Kinds
<1>2. ~C!Idle(f) /\ s \in Seq(Steps(created)) /\ s # <<>> /\ C!Rest(f) = Tail(s)
  BY DEF C!Unschedule, C!RegisterScheduledDeploy, C!EnsureGithubWebhook, C!CreateRepoWebhook, C!HookRefused,
         C!Unused, C!Consumers, C!DeleteRepoWebhook, C!At, C!Idle, ProjectTyped, Handled, C!Rest
<1>3. Upcoming(s, Head(s).do, fresh)
  BY <1>2, StageTells DEF TriggersFollow
<1>4. UNCHANGED <<row, wants>> /\ row'.exists /\ created \in Nat
  BY DEF C!Unschedule, C!RegisterScheduledDeploy, C!EnsureGithubWebhook, C!CreateRepoWebhook, C!HookRefused,
         C!Unused, C!Consumers, C!DeleteRepoWebhook, C!store, TriggersFollow, ProjectTyped
<1>5. \A x : <<x>> \o <<>> = <<x>> /\ Tail(<<x>>) = <<>>
  OBVIOUS
<1>6. ASSUME flow'[f].todo = <<>>, Normal' PROVE Stage(f)'
  BY <1>6, InertLists DEF Stage
<1>7. CASE C!Unschedule(f)
  <2>1. /\ Head(s).do \in {"replace", "unschedule"} /\ C!Goes(f, Tail(s)) /\ hooks' = hooks
        /\ task' = IF Head(s).do = "unschedule" \/ C!Managed(flow[f].row.cicd) THEN FALSE ELSE task
    BY <1>2, <1>7 DEF C!Unschedule, C!At, C!github, C!Unscheduled
  <2>2. PICK w, cd : Changes(w, cd) /\ Head(s).do = w /\ s = Stopping(w, cd) /\ fresh /\ Normal
    BY <1>3, <2>1 DEF Upcoming
  <2>3. Opens(Stopping(w, cd), C!Do(w), Changing(w, cd))
    BY ListsOpen
  <2>4. flow'[f].todo = Changing(w, cd)
    BY <2>1, <2>2, <2>3, GoesOn DEF Opens
  <2>5. Known'
    BY <1>1, <1>4, <2>1, <2>2, KnownStays DEF Normal
  <2>6. Untimed'
    <3>1. C!Scheduled(row.cicd) => C!Managed(row.cicd)
      BY DEF C!Scheduled, C!Managed
    <3>2. C!Never({"refused"})' /\ C!Never({"over"})' => (task <=> C!Scheduled(row.cicd))
      BY <1>1, <2>2 DEF Normal, Timed
    <3> QED
      BY <2>1, <2>2, <3>1, <3>2 DEF Untimed
  <2>7. w \in {"replace", "unschedule"} /\ cd \in Setups \cup {C!NoCd}
    BY <2>2 DEF Changes
  <2> QED
    BY <1>4, <2>2, <2>4, <2>5, <2>6, <2>7 DEF Stage
<1>8. CASE C!RegisterScheduledDeploy(f)
  <2>1. Head(s).do = "schedule" /\ C!Goes(f, Tail(s)) /\ hooks' = hooks /\ task' = TRUE
    BY <1>2, <1>8 DEF C!RegisterScheduledDeploy, C!At, C!github
  <2>2. s = <<C!Do("schedule")>> /\ Timed(TRUE) /\ Known
    BY <1>3, <2>1 DEF Upcoming
  <2>3. flow'[f].todo = <<>>
    BY <1>5, <2>1, <2>2, GoesOn
  <2>4. Timed(FALSE)'
    BY <1>1, <1>4, <2>1, <2>2 DEF Timed
  <2>5. Known'
    BY <1>1, <1>4, <2>1, <2>2, KnownStays
  <2> QED
    BY <1>4, <1>6, <2>3, <2>4, <2>5 DEF Normal
<1>9. CASE C!EnsureGithubWebhook(f)
  <2>1. /\ Head(s).do = "ensure" /\ hooks' = hooks /\ task' = task
        /\ C!Goes(f, IF row.hook # C!NoHook THEN Tail(s) ELSE <<C!Do("hook")>> \o Tail(s))
    BY <1>2, <1>9 DEF C!EnsureGithubWebhook, C!At, C!github, C!Provisioned, TriggersFollow
  <2>2. PICK due \in BOOLEAN : s = Ensuring(due) /\ Timed(due) /\ Registered(row.hook)
    BY <1>3, <2>1 DEF Upcoming
  <2>3. Tail(s) = Scheduling(due)
    BY <2>2, ListsOpen DEF Opens
  <2>4. Timed(due)' /\ Registered(row.hook)'
    BY <1>1, <1>4, <2>1, <2>2, KnownStays
  <2>5. CASE row.hook # C!NoHook
    <3>1. flow'[f].todo = Scheduling(due)
      BY <2>1, <2>3, <2>5, GoesOn
    <3>2. Known'
      BY <1>4, <2>4, <2>5 DEF Known, Served
    <3>3. CASE due = TRUE
      BY <1>4, <2>4, <3>1, <3>2, <3>3 DEF Stage, Scheduling
    <3>4. CASE due = FALSE
      BY <1>4, <1>6, <2>4, <3>1, <3>2, <3>4 DEF Scheduling, Normal
    <3> QED
      BY <3>3, <3>4
  <2>6. CASE row.hook = C!NoHook
    <3>1. flow'[f].todo = Hooking(due)
      BY <2>1, <2>3, <2>6, GoesOn, ListsBegin
    <3> QED
      BY <1>4, <2>4, <2>6, <3>1 DEF Stage
  <2> QED
    BY <2>5, <2>6
<1>10. ASSUME Head(s).do = "hook"
       PROVE  \E due \in BOOLEAN : /\ s = Hooking(due) /\ Timed(due) /\ Registered(row.hook) /\ row.hook = C!NoHook
                                   /\ Tail(s) = Scheduling(due)
  BY <1>3, <1>10, ListsOpen DEF Upcoming, Opens
<1>11. CASE C!CreateRepoWebhook(f)
  <2>1. PICK h : h = created + 1
    OBVIOUS
  <2>2. /\ Head(s).do = "hook" /\ task' = task /\ created' = h /\ hooks' = hooks \union {h}
        /\ C!Goes(f, C!Update([hook |-> h]) \o Tail(s))
    BY <1>2, <1>11, <2>1 DEF C!CreateRepoWebhook, C!At
  <2>3. PICK due \in BOOLEAN : /\ Timed(due) /\ Registered(row.hook) /\ row.hook = C!NoHook
                               /\ Tail(s) = Scheduling(due)
    BY <1>10, <2>2
  <2>4. flow'[f].todo = Storing(h, due)
    BY <2>2, <2>3, GoesOn, ListsBegin
  <2>5. Timed(due)'
    BY <1>1, <1>4, <2>2, <2>3, KnownStays
  <2>6. h \in 0..created' /\ h # C!NoHook
    BY <1>4, <2>1, <2>2 DEF C!NoHook
  <2>7. Registered(h)'
    <3>1. C!Never({"crash", "lost", "kept"})' /\ C!Never({"over"})' => hooks = {}
      BY <1>1, <2>3 DEF Registered
    <3> QED
      BY <2>2, <2>6, <3>1 DEF Registered
  <2> QED
    BY <1>4, <2>4, <2>5, <2>6, <2>7 DEF Stage
<1>12. CASE C!HookRefused(f)
  <2>1. Head(s).do = "hook" /\ task' = task /\ hooks' = hooks /\ C!Goes(f, <<>>) /\ C!Uses({"refused"})
    BY <1>12 DEF C!HookRefused, C!At, C!github, C!Ends
  <2>2. used'["refused"] > 0
    BY <1>1, <2>1, ProjectEvents DEF ProjectTyped
  <2>3. Registered(row.hook)'
    BY <1>1, <1>4, <1>10, <2>1, KnownStays
  <2>4. Normal'
    BY <2>2, <2>3 DEF Normal, Timed, Known, Served, C!Never
  <2> QED
    BY <1>4, <1>6, <2>1, <2>4, GoesOn
<1>13. CASE C!Unused(f)
  <2>1. Head(s).do = "unused" /\ task' = task /\ hooks' = hooks
    BY <1>13 DEF C!Unused, C!At, C!github
  <2>2. s = <<C!Do("unused")>> /\ Normal /\ Tail(s) = <<>>
    BY <1>3, <1>5, <2>1 DEF Upcoming
  <2>3. Normal'
    BY <1>1, <1>4, <2>1, <2>2, KnownStays
  <2>4. CASE row.hook = C!NoHook
    <3>1. C!Goes(f, <<>>)
      BY <1>2, <1>13, <2>2, <2>4 DEF C!Unused
    <3> QED
      BY <1>4, <1>6, <2>3, <3>1, GoesOn
  <2>5. CASE row.hook # C!NoHook
    <3>1. flow' = [flow EXCEPT ![f].todo = <<C!Do("consumers")>> \o <<>>, ![f].row = row]
      BY <1>2, <1>13, <2>2, <2>5 DEF C!Unused, TriggersFollow
    <3>2. flow \in [Flows -> Handled(created)] /\ flow[f] \in Handled(created)
      BY DEF ProjectTyped
    <3>3. flow'[f].todo = <<C!Do("consumers")>> /\ flow'[f].row = row'
      BY <1>4, <1>5, <3>1, <3>2 DEF Handled
    <3> QED
      BY <1>4, <2>3, <2>5, <3>3 DEF Stage
  <2> QED
    BY <2>4, <2>5
<1>14. CASE C!Consumers(f)
  <2>1. /\ Head(s).do = "consumers" /\ task' = task /\ hooks' = hooks
        /\ C!Goes(f, IF C!Managed(flow[f].row.cicd) \/ wants THEN Tail(s) ELSE <<C!Do("unhook")>> \o Tail(s))
    BY <1>2, <1>14 DEF C!Consumers, C!At, C!github, C!WebhookConsumersExist
  <2>2. s = <<C!Do("consumers")>> /\ flow[f].row = row /\ Normal /\ row.hook # C!NoHook /\ Tail(s) = <<>>
    BY <1>3, <1>5, <2>1 DEF Upcoming
  <2>3. Normal'
    BY <1>1, <1>4, <2>1, <2>2, KnownStays
  <2>4. CASE C!Managed(row.cicd) \/ wants
    BY <1>4, <1>6, <2>1, <2>2, <2>3, <2>4, GoesOn
  <2>5. CASE ~(C!Managed(row.cicd) \/ wants)
    <3>1. C!Goes(f, <<C!Do("unhook")>>)
      BY <1>5, <2>1, <2>2, <2>5
    <3>2. flow'[f].todo = <<C!Do("unhook")>> /\ flow'[f].row = row'
      BY <1>4, <2>2, <3>1, GoesOn
    <3>3. ~Needs'
      BY <1>4, <2>5 DEF Needs, EventDriven, C!EventTriggersDeploy, C!Managed
    <3>4. Timed(FALSE)' /\ Registered(row.hook)'
      BY <2>3 DEF Normal, Known
    <3> QED
      BY <1>4, <2>2, <3>2, <3>3, <3>4 DEF Stage
  <2> QED
    BY <2>4, <2>5
<1>15. ASSUME NEW refused \in BOOLEAN, C!DeleteRepoWebhook(f, refused) PROVE Stage(f)'
  <2>1. /\ Head(s).do = "unhook" /\ task' = task /\ created' = created
        /\ hooks' = IF refused THEN hooks ELSE hooks \ {flow[f].row.hook}
        /\ C!Goes(f, C!Update([hook |-> C!NoHook]) \o Tail(s))
        /\ C!Uses(IF refused THEN {"kept"} ELSE {})
    BY <1>2, <1>15 DEF C!DeleteRepoWebhook, C!At
  <2>2. /\ s = <<C!Do("unhook")>> /\ flow[f].row = row /\ Timed(FALSE) /\ Registered(row.hook) /\ ~Needs
        /\ Tail(s) = <<>>
    BY <1>3, <1>5, <2>1 DEF Upcoming
  <2>3. flow'[f].todo = Storing(C!NoHook, FALSE)
    <3>1. Tail(s) = Scheduling(FALSE)
      BY <2>2 DEF Scheduling
    <3> QED
      BY <2>1, <3>1, GoesOn, ListsBegin
  <2>4. Timed(FALSE)' /\ ~Needs'
    BY <1>1, <1>4, <2>1, <2>2, KnownStays
  <2>5. Registered(C!NoHook)'
    <3>1. C!Never({"crash", "lost", "kept"})' => ~refused
      <4>1. refused => used'["kept"] > 0
        BY <1>1, <2>1, ProjectEvents DEF ProjectTyped
      <4> QED
        BY <4>1 DEF C!Never
    <3>2. C!Never({"crash", "lost", "kept"})' /\ C!Never({"over"})' => hooks \subseteq {row.hook}
      BY <1>1, <2>2 DEF Registered
    <3> QED
      BY <2>1, <2>2, <3>1, <3>2 DEF Registered
  <2>6. C!NoHook \in 0..created'
    BY <1>4, <2>1 DEF C!NoHook
  <2> QED
    BY <2>3, <2>4, <2>5, <2>6 DEF Stage
<1> QED
  BY <1>4, <1>7, <1>8, <1>9, <1>11, <1>12, <1>13, <1>14, <1>15

\* Replacing the secrets leaves the triggers alone.
LEMMA SetSecretsIsInert ==
    ASSUME NEW c \in Nat, NEW names \in SUBSET Names, NEW new \in [names -> C!Values]
    PROVE  C!SetSecrets(new) \in Seq(Steps(c)) /\ Inert(C!SetSecrets(new))
<1> DEFINE s == C!SetSecrets(new)
<1>1. Replaces(s, names, new, c)
  BY SecretsAreGiven
<1> HIDE DEF s
<1>2. /\ s \in Seq(Steps(c)) /\ s[1].do = "clear"
      /\ \A i \in 2..Len(s) : s[i].do = "put"
  BY <1>1 DEF Replaces, C!Do
<1>3. \A i \in 1..Len(s) : i = 1 \/ i \in 2..Len(s)
  BY <1>2
<1>4. Inert(s)
  BY <1>2, <1>3 DEF Inert
<1> QED
  BY <1>2, <1>4 DEF s

\* A request that synchronises or gives values.
LEMMA SecretStepsFollow ==
    ASSUME ProjectTyped, TriggersFollow, C!Next, NEW f \in Flows,
           \/ C!GetDotenv(f) \/ C!PutSecret(f) \/ C!ClearSecrets(f)
           \/ \E names \in {{}, repo} : C!ApplyRepoData(f, names)
           \/ C!ApplyLegacyOverlay(f) \/ C!ClearProjectWebhooks(f) \/ C!DeleteProject(f)
    PROVE  Stage(f)' /\ row'.exists
<1> DEFINE s == flow[f].todo
           fresh == flow[f].row = row
<1>1. \A K \in SUBSET C!Kinds : C!Never(K)' => C!Never(K)
  BY ProjectCounts
<1>2. ~C!Idle(f) /\ s \in Seq(Steps(created)) /\ s # <<>> /\ C!Rest(f) = Tail(s)
  BY DEF C!GetDotenv, C!PutSecret, C!ClearSecrets, C!ApplyRepoData, C!ApplyLegacyOverlay, C!ClearProjectWebhooks,
         C!DeleteProject, C!At, C!Idle, ProjectTyped, Handled, C!Rest
<1>3. Upcoming(s, Head(s).do, fresh)
  BY <1>2, StageTells DEF TriggersFollow
<1>4. Head(s).do \notin {"webhooks", "project"}
  BY <1>3 DEF Upcoming
<1>5. ~C!ClearProjectWebhooks(f) /\ ~C!DeleteProject(f)
  BY <1>4 DEF C!ClearProjectWebhooks, C!DeleteProject, C!At
<1>6. Head(s).do \in {"put", "clear", "repo", "dotenv", "legacy"} /\ UNCHANGED <<row, wants, task, hooks>>
  BY <1>5 DEF C!GetDotenv, C!PutSecret, C!ClearSecrets, C!ApplyRepoData, C!ApplyLegacyOverlay, C!At, C!store, C!github
<1>7. Inert(s) /\ Normal /\ row.exists
  BY <1>3, <1>6 DEF Upcoming, TriggersFollow
<1>8. Normal' /\ row'.exists
  BY <1>1, <1>6, <1>7, KnownStays
<1>9. Inert(Tail(s)) /\ Tail(s) \in Seq(Steps(created)) /\ created \in Nat
  BY <1>2, <1>7, InertRest, RestOfSteps DEF ProjectTyped
<1>10. ASSUME NEW t, C!Goes(f, t), Inert(t) PROVE Stage(f)'
  BY <1>8, <1>10, GoesOn DEF Stage
<1> HIDE DEF s
<1>11. CASE C!GetDotenv(f)
  BY <1>8, <1>10, <1>11, InertLists DEF C!GetDotenv, C!Ends
<1>12. CASE C!PutSecret(f) \/ C!ClearSecrets(f)
  BY <1>2, <1>8, <1>9, <1>10, <1>12 DEF C!PutSecret, C!ClearSecrets
<1>13. ASSUME NEW names \in {{}, repo}, C!ApplyRepoData(f, names) PROVE Stage(f)'
  <2> DEFINE new == [n \in names |-> C!ValueOf(n)]
             a == C!SetSecrets(new)
             b == C!Update([names |-> names])
  <2>1. names \in SUBSET Names /\ new \in [names -> C!Values]
    BY DEF C!ValueOf, ProjectTyped, C!Values
  <2>2. C!Goes(f, (a \o b) \o Tail(s))
    BY <1>2, <1>13 DEF C!ApplyRepoData
  <2>3. a \in Seq(Steps(created)) /\ Inert(a)
    <3> HIDE DEF new
    <3> QED
      BY <1>9, <2>1, SetSecretsIsInert
  <2>4. b \in Seq(Steps(created)) /\ Inert(b)
    BY <1>9, <2>1, UpdatesAreTyped, UpdateIsFit, InertLists DEF Fit, Follows
  <2> HIDE DEF a, b
  <2>5. a \o b \in Seq(Steps(created)) /\ Inert(a \o b)
    BY <2>3, <2>4, InertJoin
  <2>6. Inert((a \o b) \o Tail(s))
    BY <1>9, <2>5, InertJoin
  <2> QED
    BY <1>10, <2>2, <2>6
<1>14. CASE C!ApplyLegacyOverlay(f)
  <2> DEFINE known == {n \in Names : secrets[n] # C!Absent}
             new == [n \in known |-> 1]
             a == C!SetSecrets(new)
  <2>1. known \in SUBSET Names /\ new \in [known -> C!Values]
    BY DEF C!Values
  <2>2. C!Goes(f, a \o Tail(s))
    BY <1>2, <1>14 DEF C!ApplyLegacyOverlay
  <2>3. a \in Seq(Steps(created)) /\ Inert(a)
    <3> HIDE DEF new, known
    <3> QED
      BY <1>9, <2>1, SetSecretsIsInert
  <2> HIDE DEF a
  <2> QED
    BY <1>8, <1>9, <1>10, <2>2, <2>3, InertJoin
<1> QED
  BY <1>5, <1>8, <1>11, <1>12, <1>13, <1>14

-----------------------------------------------------------------------------
(* The invariant of triggers.                                              *)

\* While nobody deletes the project and requests take turns.
LEMMA TriggersFollowPreserved ==
    ASSUME ProjectTyped, InOrder, OneAtATime, ReadsAreFresh, TriggersFollow, C!Next,
           C!Never({"overlap"})', C!Never({"delete"})'
    PROVE  TriggersFollow'
<1>1. \A K \in SUBSET C!Kinds : C!Never(K)' => C!Never(K)
  BY ProjectCounts
<1>2. ASSUME NEW f \in Flows, Walking(f) \/ Putting(f) PROVE TriggersFollow'
  <2>1. \A g \in Flows : g # f => flow'[g].todo = <<>>
    BY <1>2, OthersAreIdle DEF C!Idle
  <2>2. Stage(f)' /\ row'.exists
    <3>1. CASE C!ReadProject(f) \/ C!WriteProject(f)
      BY <3>1, RowStepsFollow
    <3>2. CASE \/ C!RowRequests(f) \/ C!StartSync(f) \/ C!StartDeploy(f)
               \/ \E n \in Names, v \in C!Values \ {0} : C!UpdateEnvironmentVariable(f, n, v)
               \/ \E cd \in Setups : C!SetupManagedCd(f, cd)
               \/ C!RemoveManagedCd(f) \/ C!Subscribe(f) \/ C!Quit(f) \/ C!StartDelete(f)
               \/ \E legacy \in BOOLEAN : C!CreateProject(f, legacy)
      BY <3>2, BeginningFollows
    <3>3. CASE \/ C!Unschedule(f) \/ C!RegisterScheduledDeploy(f)
               \/ C!EnsureGithubWebhook(f) \/ C!CreateRepoWebhook(f) \/ C!HookRefused(f)
               \/ C!Unused(f) \/ C!Consumers(f) \/ \E refused \in BOOLEAN : C!DeleteRepoWebhook(f, refused)
      BY <3>3, TriggerStepsFollow
    <3>4. CASE \/ C!GetDotenv(f) \/ C!PutSecret(f) \/ C!ClearSecrets(f)
               \/ \E names \in {{}, repo} : C!ApplyRepoData(f, names)
               \/ C!ApplyLegacyOverlay(f) \/ C!ClearProjectWebhooks(f) \/ C!DeleteProject(f)
      BY <3>4, SecretStepsFollow
    <3> QED
      BY <1>2, <3>1, <3>2, <3>3, <3>4 DEF Walking, Putting
  <2>3. C!Quiet' => Normal'
    <3> SUFFICES ASSUME flow'[f].todo = <<>> PROVE Normal'
      BY DEF C!Quiet, C!Idle
    <3>1. /\ \A due \in BOOLEAN : /\ Ensuring(due) # <<>> /\ Hooking(due) # <<>>
                                  /\ \A h : Noting(h, due) # <<>> /\ Storing(h, due) # <<>>
          /\ \A w, cd : Writing(w, cd) # <<>> /\ Changing(w, cd) # <<>> /\ Stopping(w, cd) # <<>> /\ Starting(w, cd) # <<>>
          /\ \A x : <<x>> # <<>>
      BY ListsOpen, OneOpens DEF Opens
    <3> QED
      BY <2>2, <3>1 DEF Stage
  <2>4. \A g \in Flows : ~C!Idle(g)' => Stage(g)'
    BY <2>1, <2>2 DEF C!Idle
  <2> QED
    BY <2>2, <2>3, <2>4 DEF TriggersFollow
<1>3. ASSUME NEW v \in C!Values, C!SetProjectAssignment(v) PROVE TriggersFollow'
  <2>1. "assign" \in C!Kinds
    BY DEF C!Kinds
  <2>2. C!Quiet /\ row' = [row EXCEPT !.node = v] /\ UNCHANGED <<wants, task, hooks, flow>>
    BY <1>3, <2>1, BeginsAlone DEF C!SetProjectAssignment, C!github
  <2>3. row'.cicd = row.cicd /\ row'.hook = row.hook /\ row'.exists = row.exists
    BY <2>2 DEF ProjectTyped, ProjectRows
  <2>4. Normal'
    BY <1>1, <2>2, <2>3, KnownStays DEF TriggersFollow
  <2> QED
    BY <2>2, <2>3, <2>4 DEF TriggersFollow, C!Quiet, C!Idle
<1>4. CASE (\E names \in SUBSET Names : C!RepositoryMoves(names)) \/ \E h \in hooks : C!HookLost(h)
  <2>1. UNCHANGED <<row, wants, task, flow, created>> /\ (hooks' = hooks \/ ~C!Never({"lost"})')
    <3>1. CASE \E names \in SUBSET Names : C!RepositoryMoves(names)
      BY <3>1 DEF C!RepositoryMoves, C!store, C!github
    <3>2. CASE \E h \in hooks : C!HookLost(h)
      <4>1. C!Uses({"lost"}) /\ {"lost"} \in SUBSET C!Kinds
        BY <3>2 DEF C!HookLost, C!Kinds
      <4>2. used'["lost"] > 0
        BY <4>1, ProjectEvents DEF ProjectTyped
      <4> QED
        BY <3>2, <4>2 DEF C!HookLost, C!store, C!Never
    <3> QED
      BY <1>4, <3>1, <3>2
  <2>2. \A h : Registered(h) => Registered(h)'
    <3>1. CASE hooks' = hooks
      BY <1>1, <3>1, KnownStays
    <3>2. CASE ~C!Never({"lost"})'
      BY <3>2 DEF Registered, C!Never
    <3> QED
      BY <2>1, <3>1, <3>2
  <2>3. /\ \A due \in BOOLEAN : Timed(due) => Timed(due)'
        /\ Untimed => Untimed'
        /\ Needs' => Needs
        /\ Served => Served'
    BY <1>1, <2>1, KnownStays
  <2>4. Registered(row.hook) => Registered(row.hook)'
    BY <2>1, <2>2
  <2>5. (Known => Known') /\ (Normal => Normal')
    BY <2>3, <2>4 DEF Known, Normal
  <2>6. ASSUME NEW f \in Flows, Stage(f) PROVE Stage(f)'
    BY <2>1, <2>2, <2>3, <2>4, <2>5, <2>6 DEF Stage
  <2> QED
    BY <2>1, <2>5, <2>6 DEF TriggersFollow, C!Quiet, C!Idle
<1>5. CASE C!Crash
  <2>1. /\ flow' = [f \in Flows |-> C!NoFlow] /\ task' = (row.exists /\ C!Scheduled(row.cicd))
        /\ row' = row /\ C!Uses({"crash"}) /\ row.exists
    BY <1>5 DEF C!Crash, C!store, C!Restored, TriggersFollow
  <2>2. \A f \in Flows : flow'[f].todo = <<>>
    BY <2>1 DEF C!NoFlow
  <2>3. ~C!Never({"crash"})'
    <3>1. {"crash"} \in SUBSET C!Kinds
      BY DEF C!Kinds
    <3>2. used'["crash"] > 0
      BY <2>1, <3>1, ProjectEvents DEF ProjectTyped
    <3> QED
      BY <3>2 DEF C!Never
  <2>4. Known'
    BY <2>3 DEF Known, Registered, Served, C!Never
  <2>5. Timed(FALSE)'
    BY <2>1 DEF Timed
  <2> QED
    BY <2>1, <2>2, <2>4, <2>5 DEF TriggersFollow, Normal, C!Idle
<1> QED
  BY <1>2, <1>3, <1>4, <1>5, NextIsOneOf DEF Around

\* Together with what is kept of projects, it is kept by every step.
LEMMA TriggersInvPreserved ==
    ProjectInv /\ TriggersInv /\ [Next]_<<part, cVars, aVars, rVars>> => TriggersInv'
<1> SUFFICES ASSUME ProjectInv, TriggersInv, [Next]_<<part, cVars, aVars, rVars>>, C!Never({"overlap", "delete"})'
             PROVE  TriggersFollow'
  BY DEF TriggersInv
<1>1. CASE C!Next
  <2>1. ProjectTyped /\ InOrder
    BY DEF ProjectInv
  <2>2. {"overlap", "delete"} \in SUBSET C!Kinds
    BY DEF C!Kinds
  <2>3. C!Never({"overlap", "delete"}) /\ C!Never({"overlap"})' /\ C!Never({"delete"})' /\ C!Never({"overlap"})
    BY <1>1, <2>1, <2>2, ProjectCounts DEF C!Never
  <2> QED
    BY <1>1, <2>1, <2>3, TriggersFollowPreserved DEF ProjectInv, TriggersInv
<1>2. CASE UNCHANGED cVars
  <2>1. /\ row' = row /\ wants' = wants /\ task' = task /\ hooks' = hooks /\ created' = created
        /\ flow' = flow /\ used' = used
    BY <1>2 DEF cVars
  <2>2. TriggersFollow
    BY <2>1 DEF TriggersInv, C!Never
  <2> QED
    BY <2>1, <2>2 DEF TriggersFollow, Stage, Normal, Known, Served, Registered, Timed, Untimed, Needs,
                      C!Never, C!Quiet, C!Idle
<1> QED
  BY <1>1, <1>2 DEF Next

\* No hook, no task, and nobody who needs them.
LEMMA TriggersInvInitially == Init => TriggersInv
<1> SUFFICES ASSUME Init PROVE TriggersFollow
  BY DEF TriggersInv
<1>1. /\ row = C!NewRow /\ ~wants /\ ~task /\ hooks = {} /\ flow = [f \in Flows |-> C!NoFlow]
  BY DEF Init, C!Init
<1>2. \A f \in Flows : C!Idle(f)
  BY <1>1 DEF C!NoFlow, C!Idle
<1>3. row.exists /\ row.hook = C!NoHook /\ row.cicd = C!NoCd
  BY <1>1 DEF C!NewRow
<1>4. ~C!Scheduled(C!NoCd) /\ ~EventDriven(C!NoCd)
  BY DEF C!NoCd, C!Scheduled, EventDriven, C!EventTriggersDeploy
<1> QED
  BY <1>1, <1>2, <1>3, <1>4 DEF TriggersFollow, Normal, Known, Timed, Registered, Served, Needs

\* GitHub holds the hook of a project and no other, who subscribed to its events gets
\* them, and the cron task is that of its schedule (cicdController.ts, cdScheduler.ts,
\* githubWebhookProvisioning.ts), when no request is under way, they took turns and
\* the project was not deleted; each unless something happened that it excludes.
THEOREM TriggersAreRight == Spec => []TriggersMatchConfig
<1>1. TriggersInv => C!HookIsOurs
  <2> SUFFICES ASSUME TriggersInv, C!Never({"overlap", "crash", "lost", "kept", "delete"}), C!Quiet
               PROVE  /\ row.hook # C!NoHook => row.hook \in hooks
                      /\ C!Never({"over"}) => hooks \subseteq {row.hook} \ {C!NoHook}
    BY DEF C!HookIsOurs
  <2>1. Registered(row.hook)
    BY DEF TriggersInv, TriggersFollow, Normal, Known, C!Never
  <2>2. C!Never({"crash", "lost"}) /\ C!Never({"crash", "lost", "kept"})
    BY DEF C!Never
  <2> QED
    BY <2>1, <2>2 DEF Registered
<1>2. TriggersInv => C!ConsumersAreServed
  <2> SUFFICES ASSUME TriggersInv, C!Never({"overlap", "crash", "lost", "refused", "delete"}), C!Quiet, row.exists,
                      NEW event \in C!Events
               PROVE  /\ C!EventTriggersDeploy(row.cicd, event) => "deploy" \in C!Answers(event)
                      /\ wants /\ C!Never({"over"}) => C!Answers(event) \intersect {"accepted", "deploy"} # {}
    BY DEF C!ConsumersAreServed
  <2>1. Registered(row.hook) /\ Served
    BY DEF TriggersInv, TriggersFollow, Normal, Known, C!Never
  <2>2. C!Never({"crash", "lost"}) /\ C!Never({"crash", "lost", "refused"})
    BY DEF C!Never
  <2>3. C!EventTriggersDeploy(row.cicd, event) \/ (wants /\ C!Never({"over"})) => row.hook # C!NoHook /\ row.hook \in hooks
    BY <2>1, <2>2 DEF Registered, Served, Needs, EventDriven
  <2>4. event.type # "ping"
    BY DEF C!Events, C!Event
  <2>5. C!EventTriggersDeploy(row.cicd, event) => C!Managed(row.cicd)
    BY DEF C!EventTriggersDeploy, C!Managed
  <2>6. ASSUME row.hook # C!NoHook
        PROVE  /\ C!EventTriggersDeploy(row.cicd, event) => C!HandleGithubWebhook(row.hook, event) = "deploy"
               /\ C!HandleGithubWebhook(row.hook, event) \in {"accepted", "deploy"}
    BY <2>4, <2>5, <2>6 DEF C!HandleGithubWebhook
  <2>7. row.hook \in hooks => C!HandleGithubWebhook(row.hook, event) \in C!Answers(event)
    BY DEF C!Answers
  <2> QED
    BY <2>3, <2>6, <2>7
<1>3. TriggersInv => C!ScheduleMatchesConfig
  <2> SUFFICES ASSUME TriggersInv, C!Never({"overlap", "refused", "delete"}), C!Quiet
               PROVE  /\ C!Scheduled(row.cicd) => task
                      /\ task /\ C!Never({"over"}) => C!Scheduled(row.cicd)
    BY DEF C!ScheduleMatchesConfig
  <2>1. Timed(FALSE) /\ C!Never({"refused"})
    BY DEF TriggersInv, TriggersFollow, Normal, C!Never
  <2> QED
    BY <2>1 DEF Timed
<1>4. TriggersInv => TriggersMatchConfig
  BY <1>1, <1>2, <1>3 DEF TriggersMatchConfig
<1> QED
  BY <1>4, ProjectInvInitially, ProjectInvPreserved, TriggersInvInitially, TriggersInvPreserved, PTL DEF Spec

-----------------------------------------------------------------------------
(* Reserved ports: how often events have happened.                         *)

\* Counting events keeps the counts natural numbers, and counts those named.
LEMMA ReservationEvents ==
    ASSUME rUsed \in [R!Kinds -> Nat], NEW kinds \in SUBSET R!Kinds, R!Uses(kinds)
    PROVE  /\ rUsed' \in [R!Kinds -> Nat]
           /\ \A k \in kinds : rUsed'[k] > 0
           /\ \A K \in SUBSET R!Kinds : R!Never(K)' => R!Never(K)
<1>1. rUsed' = [k \in R!Kinds |-> rUsed[k] + (IF k \in kinds THEN 1 ELSE 0)]
  BY DEF R!Uses
<1>2. \A k \in R!Kinds : rUsed'[k] = rUsed[k] + (IF k \in kinds THEN 1 ELSE 0)
  BY <1>1
<1>3. rUsed' \in [R!Kinds -> Nat]
  BY <1>1
<1>4. \A k \in R!Kinds : rUsed'[k] = 0 => rUsed[k] = 0
  BY <1>2
<1>5. \A K \in SUBSET R!Kinds : R!Never(K)' => R!Never(K)
  BY <1>4 DEF R!Never
<1> QED
  BY <1>2, <1>3, <1>5

-----------------------------------------------------------------------------
(* The strengthening.                                                      *)

Reservation == [node : Nodes, port : Ports \ System, project : Projects, env : EnvVars]
Deployment == [node : Nodes \cup {"none"}, port : Ports \cup {0}, own : SUBSET Reservation,
               pool : SUBSET Ports, at : {"none", "pool", "allocate", "start", "up"}]

Typed == /\ node \in [Projects -> Nodes \cup {"none"}]
         /\ reserved \subseteq Reservation
         /\ request \in [ReservationRequests -> Reservation \cup {R!Free}]
         /\ plan \in [Projects -> Deployment]
         /\ running \in [Projects -> Deployment]
         /\ \A p \in Projects : running[p].pool = {}
         /\ rUsed \in [R!Kinds -> Nat]

\* Reservations of which there may be one only.
Rivals(x, y) == x.node = y.node /\ (x.port = y.port \/ (x.project = y.project /\ x.env = y.env))

\* A request writes what it has found to be free: nobody else is between its look
\* and its write.
Apart ==
    /\ \A x, y \in reserved : x # y => ~Rivals(x, y)
    /\ \A q \in ReservationRequests : request[q] # R!Free => \A x \in reserved : ~Rivals(x, request[q])
    /\ \A q, o \in ReservationRequests : q # o => request[q] = R!Free \/ request[o] = R!Free

\* Reservations, and what requests are about to write, are of projects that exist.
Alive ==
    /\ \A r \in reserved : node[r.project] # "none"
    /\ \A q \in ReservationRequests : request[q] # R!Free => node[request[q].project] # "none"

\* What a deployment of p uses on its node: its own reserved ports, and none that is
\* reserved as the port of its proxy, neither now nor when it is chosen.
Keeps(p, d) ==
    /\ \A r \in d.own : r \in reserved /\ r.node = d.node /\ r.project = p
    /\ \A r \in reserved : r.node = d.node => r.port # d.port /\ r.port \notin d.pool
Undisturbed == \A p \in Projects : Keeps(p, plan[p]) /\ Keeps(p, running[p])

ReservationsInv ==
    /\ Typed
    /\ R!Never({"twice"}) => Apart
    /\ R!Never({"overlap"}) => Alive
    /\ R!Never({"late", "release", "twice"}) => Undisturbed

USE PortsAssumption

\* A request in progress is known by its port, which Free does not have.
LEMMA FreeIsNoReservation == R!Free \notin Reservation
BY DEF R!Free, Reservation

\* Nobody's deployment disturbs nobody.
LEMMA NoneIsDeployment == R!None \in Deployment
BY DEF R!None, Deployment
LEMMA NoneIsKept ==
    ASSUME Typed, NEW p PROVE Keeps(p, R!None)
BY DEF Typed, Reservation, R!None, Keeps

-----------------------------------------------------------------------------
(* Every step keeps it.                                                    *)

\* Every step of the component counts what happens, each kind it names.
LEMMA ReservationsCount ==
    ASSUME Typed, R!Next
    PROVE  /\ rUsed' \in [R!Kinds -> Nat]
           /\ \A K \in SUBSET R!Kinds : R!Never(K)' => R!Never(K)
<1>1. ASSUME UNCHANGED rUsed PROVE \A K \in SUBSET R!Kinds : R!Never(K)' => R!Never(K)
  BY <1>1 DEF R!Never
<1>2. UNCHANGED rUsed \/ \E kinds \in SUBSET R!Kinds : R!Uses(kinds)
  BY DEF R!Next, R!UpsertReservation, R!CreateReservation, R!DeleteReservation, R!PlanOwn, R!PlanPool,
         R!Allocate, R!Start, R!DeleteProject, R!Move, R!Begins, R!Kinds
<1> QED
  BY <1>1, <1>2, ReservationEvents DEF Typed

\* What planning makes of a deployment is one.
LEMMA PlannedType ==
    ASSUME NEW d \in Deployment
    PROVE  /\ \A pool \in SUBSET Ports : [[d EXCEPT !.at = "allocate"] EXCEPT !.pool = pool] \in Deployment
           /\ \A port \in d.pool : [[d EXCEPT !.port = port] EXCEPT !.at = "start"] \in Deployment
           /\ [d EXCEPT !.at = "up", !.pool = {}] \in Deployment
BY DEF Deployment

\* Every step keeps the types.
LEMMA TypedPreserved ==
    ASSUME Typed, R!Next PROVE Typed'
<1> USE DEF Typed
<1>1. ASSUME NEW q \in ReservationRequests, R!UpsertReservation(q) PROVE Typed'
  BY <1>1, ReservationsCount DEF R!UpsertReservation
<1>2. ASSUME NEW q \in ReservationRequests, NEW n \in Nodes, NEW port \in Ports, NEW p \in Projects,
             NEW e \in EnvVars,
             R!CreateReservation(q, [node |-> n, port |-> port, project |-> p, env |-> e])
      PROVE  Typed'
  <2>1. [node |-> n, port |-> port, project |-> p, env |-> e] \in Reservation
    BY <1>2 DEF R!CreateReservation, Reservation
  <2> QED
    BY <1>2, <2>1, ReservationsCount DEF R!CreateReservation
<1>3. ASSUME NEW r \in reserved, R!DeleteReservation(r) PROVE Typed'
  BY <1>3, ReservationsCount DEF R!DeleteReservation
<1>4. ASSUME NEW p \in Projects, R!PlanOwn(p) PROVE Typed'
  <2>1. [R!None EXCEPT !.node = node[p], !.at = "pool",
                       !.own = {r \in reserved : r.node = node[p] /\ r.project = p}] \in Deployment
    BY <1>4 DEF R!None, Deployment
  <2> QED
    BY <1>4, <2>1, ReservationsCount DEF R!PlanOwn
<1>5. ASSUME NEW p \in Projects, R!PlanPool(p) PROVE Typed'
  <2> DEFINE pool == Ports \ (System \cup {r.port : r \in {r \in reserved : r.node = plan[p].node}})
  <2>1. [[plan[p] EXCEPT !.at = "allocate"] EXCEPT !.pool = pool] \in Deployment
    BY PlannedType
  <2>2. plan' = [plan EXCEPT ![p] = [[plan[p] EXCEPT !.at = "allocate"] EXCEPT !.pool = pool]]
    BY <1>5 DEF R!PlanPool
  <2> QED
    BY <1>5, <2>1, <2>2, ReservationsCount DEF R!PlanPool
<1>6. ASSUME NEW p \in Projects, R!Allocate(p) PROVE Typed'
  <2>1. CASE plan' = [plan EXCEPT ![p] = R!None]
    BY <1>6, <2>1, NoneIsDeployment, ReservationsCount DEF R!Allocate
  <2>2. ASSUME NEW port \in plan[p].pool, plan' = [plan EXCEPT ![p].port = port, ![p].at = "start"] PROVE Typed'
    <3>1. [[plan[p] EXCEPT !.port = port] EXCEPT !.at = "start"] \in Deployment
      BY PlannedType
    <3>2. plan' = [plan EXCEPT ![p] = [[plan[p] EXCEPT !.port = port] EXCEPT !.at = "start"]]
      BY <2>2
    <3> QED
      BY <1>6, <3>1, <3>2, ReservationsCount DEF R!Allocate
  <2> QED
    BY <1>6, <2>1, <2>2 DEF R!Allocate
<1>7. ASSUME NEW p \in Projects, R!Start(p) PROVE Typed'
  <2>1. [plan[p] EXCEPT !.at = "up", !.pool = {}] \in Deployment
    BY PlannedType
  <2>2. [plan[p] EXCEPT !.at = "up", !.pool = {}].pool = {}
    BY DEF Deployment
  <2> QED
    BY <1>7, <2>1, <2>2, NoneIsDeployment, ReservationsCount DEF R!Start
<1>8. ASSUME NEW p \in Projects, R!DeleteProject(p) PROVE Typed'
  <2>1. R!None.pool = {}
    BY DEF R!None
  <2> QED
    BY <1>8, <2>1, NoneIsDeployment, ReservationsCount DEF R!DeleteProject
<1>9. ASSUME NEW p \in Projects, NEW n \in Nodes, R!Move(p, n) PROVE Typed'
  BY <1>9, ReservationsCount DEF R!Move
<1> QED
  BY <1>1, <1>2, <1>3, <1>4, <1>5, <1>6, <1>7, <1>8, <1>9 DEF R!Next

\* The reservation a step writes or a request finds, and what it counts.
LEMMA Looked ==
    ASSUME Typed, NEW q \in ReservationRequests, NEW r, R!CreateReservation(q, r)
    PROVE  /\ R!Never({"twice"})' => \A o \in ReservationRequests : request[o] = R!Free
           /\ \A x \in reserved : ~Rivals(x, r)
           /\ request' = [request EXCEPT ![q] = r] /\ UNCHANGED <<node, reserved, plan, running>>
<1> DEFINE kinds == {"reserve"} \cup (IF \A o \in ReservationRequests : request[o] = R!Free THEN {} ELSE {"twice"})
                    \cup (IF R!Quiet THEN {} ELSE {"overlap"})
<1>1. kinds \in SUBSET R!Kinds /\ R!Uses(kinds)
  BY DEF R!CreateReservation, R!Begins, R!Kinds
<1>2. \A k \in kinds : rUsed'[k] > 0
  BY <1>1, ReservationEvents DEF Typed
<1>3. R!Never({"twice"})' => \A o \in ReservationRequests : request[o] = R!Free
  BY <1>2 DEF R!Never
<1> QED
  BY <1>3 DEF R!CreateReservation, R!Clashes, Rivals

\* Two requests that take turns do not reserve rivals.
LEMMA ApartPreserved ==
    ASSUME Typed, Apart, R!Next, R!Never({"twice"})' PROVE Apart'
<1>1. ASSUME NEW q \in ReservationRequests, R!UpsertReservation(q) PROVE Apart'
  BY <1>1 DEF R!UpsertReservation, Apart, Typed, Rivals
<1>2. ASSUME NEW q \in ReservationRequests, NEW r, R!CreateReservation(q, r) PROVE Apart'
  BY <1>2, Looked DEF Apart, Typed
<1>3. ASSUME reserved' \subseteq reserved, UNCHANGED request PROVE Apart'
  BY <1>3 DEF Apart
<1>4. (\E r \in reserved : R!DeleteReservation(r)) => reserved' \subseteq reserved /\ UNCHANGED request
  BY DEF R!DeleteReservation
<1>5. ASSUME NEW p \in Projects, R!PlanOwn(p) \/ R!PlanPool(p) \/ R!Allocate(p) \/ R!Start(p) \/ R!DeleteProject(p)
                                 \/ (\E n \in Nodes : R!Move(p, n))
      PROVE  reserved' \subseteq reserved /\ UNCHANGED request
  BY <1>5 DEF R!PlanOwn, R!PlanPool, R!Allocate, R!Start, R!DeleteProject, R!Move
<1> QED
  BY <1>1, <1>2, <1>3, <1>4, <1>5 DEF R!Next

\* While requests take turns with everything else, none is for a project that is deleted.
LEMMA AlivePreserved ==
    ASSUME Typed, Alive, R!Next, R!Never({"overlap"})' PROVE Alive'
<1>1. ASSUME NEW kinds \in SUBSET R!Kinds, R!Begins(kinds), kinds \cup {"overlap"} \in SUBSET R!Kinds PROVE R!Quiet
  <2>1. SUFFICES ASSUME ~R!Quiet PROVE FALSE
    OBVIOUS
  <2>2. R!Uses(kinds \cup {"overlap"})
    BY <1>1, <2>1 DEF R!Begins
  <2>3. rUsed'["overlap"] > 0
    BY <1>1, <2>2, ReservationEvents DEF Typed
  <2> QED
    BY <2>3 DEF R!Never
<1>2. ASSUME NEW q \in ReservationRequests, R!UpsertReservation(q) PROVE Alive'
  BY <1>2 DEF R!UpsertReservation, Alive, Typed
<1>3. ASSUME NEW q \in ReservationRequests, NEW r, R!CreateReservation(q, r) PROVE Alive'
  BY <1>3 DEF R!CreateReservation, Alive, Typed
<1>4. ASSUME NEW r \in reserved, R!DeleteReservation(r) PROVE Alive'
  BY <1>4 DEF R!DeleteReservation, Alive
<1>5. ASSUME NEW p \in Projects, R!PlanOwn(p) \/ R!PlanPool(p) \/ R!Allocate(p) \/ R!Start(p) PROVE Alive'
  BY <1>5 DEF R!PlanOwn, R!PlanPool, R!Allocate, R!Start, Alive
<1>6. ASSUME NEW p \in Projects, R!DeleteProject(p) PROVE Alive'
  <2>1. R!Quiet
    BY <1>1, <1>6 DEF R!DeleteProject, R!Kinds
  <2>2. \A r \in reserved' : r.project # p /\ r \in reserved
    BY <1>6 DEF R!DeleteProject
  <2>3. \A o \in Projects : o # p => node'[o] = node[o]
    BY <1>6 DEF R!DeleteProject, Typed
  <2> QED
    BY <1>6, <2>1, <2>2, <2>3 DEF R!DeleteProject, R!Quiet, Alive, Typed, Reservation
<1>7. ASSUME NEW p \in Projects, NEW n \in Nodes, R!Move(p, n) PROVE Alive'
  <2>1. \A o \in Projects : node[o] # "none" => node'[o] # "none"
    BY <1>7 DEF R!Move, Typed
  <2>2. \A r \in Reservation : r.project \in Projects
    BY DEF Reservation
  <2> QED
    BY <1>7, <2>1, <2>2 DEF R!Move, Alive, Typed
<1> QED
  BY <1>2, <1>3, <1>4, <1>5, <1>6, <1>7 DEF R!Next

\* A deployment that keeps clear of the reserved ports still does when some are gone,
\* as long as its own are not among them.
LEMMA FewerIsKept ==
    ASSUME NEW p, NEW d, Keeps(p, d), reserved' \subseteq reserved,
           \A r \in reserved \ reserved' : r.project # p
    PROVE  Keeps(p, d)'
BY DEF Keeps

\* Nothing changes for it while the reservations stay.
LEMMA SameIsKept ==
    ASSUME UNCHANGED reserved, NEW p, NEW d PROVE Keeps(p, d) => Keeps(p, d)'
BY DEF Keeps

\* No port is reserved that a deployment has or may be given, nor released: each
\* keeps its own and stays clear of the others.
LEMMA UndisturbedPreserved ==
    ASSUME Typed, Undisturbed, R!Next, R!Never({"late", "release", "twice"})' PROVE Undisturbed'
<1> USE DEF Undisturbed
<1>1. ASSUME NEW q \in ReservationRequests, R!UpsertReservation(q) PROVE Undisturbed'
  <2> DEFINE r == request[q]
  <2>1. ~R!Late(r)
    <3>1. SUFFICES ASSUME R!Late(r) PROVE FALSE
      OBVIOUS
    <3>2. R!Uses({"late"})
      BY <1>1, <3>1 DEF R!UpsertReservation
    <3>3. rUsed'["late"] > 0
      BY <3>2, ReservationEvents DEF Typed, R!Kinds
    <3> QED
      BY <3>3 DEF R!Never
  <2>2. \A p \in Projects : /\ plan[p].node = r.node => r.port # plan[p].port /\ r.port \notin plan[p].pool
                            /\ running[p].node = r.node => r.port # running[p].port
    BY <2>1 DEF R!Late, R!Held
  <2>3. \A p \in Projects : running[p].pool = {}
    BY DEF Typed
  <2> QED
    BY <1>1, <2>2, <2>3 DEF R!UpsertReservation, Keeps
<1>2. ASSUME NEW q \in ReservationRequests, NEW r, R!CreateReservation(q, r) PROVE Undisturbed'
  BY <1>2 DEF R!CreateReservation, Keeps
<1>3. ASSUME NEW r \in reserved, R!DeleteReservation(r) PROVE Undisturbed'
  <2> DEFINE kinds == {"release"} \cup (IF R!Quiet THEN {} ELSE {"overlap"})
  <2>1. R!Uses(kinds) /\ kinds \in SUBSET R!Kinds
    BY <1>3 DEF R!DeleteReservation, R!Begins, R!Kinds
  <2>2. rUsed'["release"] > 0
    BY <2>1, ReservationEvents DEF Typed
  <2> QED
    BY <2>2 DEF R!Never
<1>4. ASSUME NEW p \in Projects, R!PlanOwn(p) PROVE Undisturbed'
  <2>1. Keeps(p, plan'[p])
    BY <1>4 DEF R!PlanOwn, Keeps, Typed, R!None, Reservation
  <2>2. \A o \in Projects : o # p => plan'[o] = plan[o]
    BY <1>4 DEF R!PlanOwn, Typed
  <2> QED
    BY <1>4, <2>1, <2>2 DEF R!PlanOwn, Keeps
<1>5. ASSUME NEW p \in Projects, R!PlanPool(p) PROVE Undisturbed'
  <2>1. Keeps(p, plan'[p])
    BY <1>5 DEF R!PlanPool, Keeps, Typed
  <2>2. \A o \in Projects : o # p => plan'[o] = plan[o]
    BY <1>5 DEF R!PlanPool, Typed
  <2> QED
    BY <1>5, <2>1, <2>2, SameIsKept DEF R!PlanPool
<1>6. ASSUME NEW p \in Projects, R!Allocate(p) PROVE Undisturbed'
  <2>1. UNCHANGED <<reserved, running>> /\ \A o \in Projects : o # p => plan'[o] = plan[o]
    BY <1>6 DEF R!Allocate, Typed
  <2>2. CASE plan' = [plan EXCEPT ![p] = R!None]
    BY <2>1, <2>2, NoneIsKept, SameIsKept DEF Typed
  <2>3. ASSUME NEW port \in plan[p].pool, plan' = [plan EXCEPT ![p].port = port, ![p].at = "start"]
        PROVE  Undisturbed'
    <3>1. plan'[p].node = plan[p].node /\ plan'[p].own = plan[p].own /\ plan'[p].pool = plan[p].pool
          /\ plan'[p].port = port
      BY <2>3 DEF Typed, Deployment
    <3>2. Keeps(p, plan[p])
      OBVIOUS
    <3>3. Keeps(p, plan'[p])
      BY <3>1, <3>2 DEF Keeps
    <3> QED
      BY <2>1, <3>3, SameIsKept
  <2> QED
    BY <1>6, <2>2, <2>3 DEF R!Allocate
<1>7. ASSUME NEW p \in Projects, R!Start(p) PROVE Undisturbed'
  <2>1. /\ UNCHANGED reserved /\ plan'[p] = R!None
        /\ running'[p] = [plan[p] EXCEPT !.at = "up", !.pool = {}]
        /\ \A o \in Projects : o # p => plan'[o] = plan[o] /\ running'[o] = running[o]
    BY <1>7 DEF R!Start, Typed
  <2>2. /\ running'[p].node = plan[p].node /\ running'[p].own = plan[p].own
        /\ running'[p].pool = {} /\ running'[p].port = plan[p].port
    BY <2>1 DEF Typed, Deployment
  <2>3. Keeps(p, running'[p])
    BY <2>2 DEF Keeps
  <2> QED
    BY <2>1, <2>3, NoneIsKept, SameIsKept
<1>8. ASSUME NEW p \in Projects, R!DeleteProject(p) PROVE Undisturbed'
  <2>1. Keeps(p, R!None)'
    BY <1>8, TypedPreserved, NoneIsKept DEF Keeps, R!None, Typed, Reservation
  <2>2. plan'[p] = R!None /\ running'[p] = R!None
    BY <1>8 DEF R!DeleteProject, Typed
  <2>3. \A o \in Projects : o # p => Keeps(o, plan[o])' /\ Keeps(o, running[o])'
    BY <1>8, FewerIsKept DEF R!DeleteProject, Typed
  <2> QED
    BY <1>8, <2>1, <2>2, <2>3 DEF R!DeleteProject, Typed
<1>9. ASSUME NEW p \in Projects, NEW n \in Nodes, R!Move(p, n) PROVE Undisturbed'
  BY <1>9 DEF R!Move, Keeps
<1> QED
  BY <1>1, <1>2, <1>3, <1>4, <1>5, <1>6, <1>7, <1>8, <1>9 DEF R!Next

\* Every step of the composition keeps the invariant: the other components leave
\* its variables alone.
LEMMA ReservationsInvPreserved ==
    ReservationsInv /\ [Next]_<<part, cVars, aVars, rVars>> => ReservationsInv'
<1> SUFFICES ASSUME ReservationsInv, [Next]_<<part, cVars, aVars, rVars>> PROVE ReservationsInv'
  OBVIOUS
<1>1. CASE R!Next
  <2>1. Typed /\ Typed'
    BY <1>1, TypedPreserved DEF ReservationsInv
  <2>2. \A K \in SUBSET R!Kinds : R!Never(K)' => R!Never(K)
    BY <1>1, <2>1, ReservationsCount
  <2>3. {"twice"} \in SUBSET R!Kinds /\ {"overlap"} \in SUBSET R!Kinds /\ {"late", "release", "twice"} \in SUBSET R!Kinds
    BY DEF R!Kinds
  <2>4. ASSUME R!Never({"twice"})' PROVE Apart'
    BY <1>1, <2>1, <2>2, <2>3, <2>4, ApartPreserved DEF ReservationsInv
  <2>5. ASSUME R!Never({"overlap"})' PROVE Alive'
    BY <1>1, <2>1, <2>2, <2>3, <2>5, AlivePreserved DEF ReservationsInv
  <2>6. ASSUME R!Never({"late", "release", "twice"})' PROVE Undisturbed'
    BY <1>1, <2>1, <2>2, <2>3, <2>6, UndisturbedPreserved DEF ReservationsInv
  <2> QED
    BY <2>1, <2>4, <2>5, <2>6 DEF ReservationsInv
<1>2. CASE UNCHANGED rVars
  <2>1. UNCHANGED node /\ UNCHANGED reserved /\ UNCHANGED request /\ UNCHANGED plan /\ UNCHANGED running
        /\ UNCHANGED rUsed
    BY <1>2 DEF rVars
  <2> QED
    BY <2>1 DEF ReservationsInv, Typed, Apart, Alive, Undisturbed, Keeps, R!Never
<1> QED
  BY <1>1, <1>2 DEF Next

\* Nothing is reserved in the beginning.
LEMMA ReservationsInvInitially == Init => ReservationsInv
<1> SUFFICES ASSUME Init PROVE ReservationsInv
  OBVIOUS
<1>1. Typed
  BY NoneIsDeployment DEF Init, R!Init, Typed, R!None
<1> QED
  BY <1>1, NoneIsKept DEF Init, R!Init, ReservationsInv, Apart, Alive, Undisturbed

\* Ports reserved for projects are theirs (portReservationController.ts,
\* deployController.ts:143-162): no port of a node is reserved twice, nor for a
\* project that is gone, and a deployment is given none that is reserved.
THEOREM ReservedPortsAreTheirs == Spec => []ReservationsHold
<1>1. ReservationsInv => R!TypeOK
  BY DEF ReservationsInv, Typed, R!TypeOK, Reservation, Deployment
<1>2. ReservationsInv => R!ReservationsAreDistinct
  BY DEF ReservationsInv, R!ReservationsAreDistinct, Apart, Rivals
<1>3. ReservationsInv => R!ReservedPortsAreFree
  <2> SUFFICES ASSUME ReservationsInv, R!Never({"late", "release", "twice"}),
                      NEW r \in reserved, NEW p \in Projects, running[p].node = r.node
               PROVE  running[p].port # r.port /\ (p # r.project => r.port \notin R!BoundBy(p))
    BY DEF R!ReservedPortsAreFree
  <2>1. R!Never({"twice"}) /\ Keeps(p, running[p]) /\ Apart
    BY DEF ReservationsInv, Undisturbed, R!Never
  <2>2. ASSUME NEW x \in running[p].own, p # r.project PROVE x.port # r.port
    BY <2>1, <2>2 DEF Keeps, Apart, Rivals
  <2> QED
    BY <2>1, <2>2 DEF Keeps, R!BoundBy
<1>4. ReservationsInv => R!ReservationsDieWithProject
  BY DEF ReservationsInv, R!ReservationsDieWithProject, Alive
<1>5. ReservationsInv => ReservationsHold
  BY <1>1, <1>2, <1>3, <1>4 DEF ReservationsHold
<1> QED
  BY <1>5, ReservationsInvInitially, ReservationsInvPreserved, PTL DEF Spec

=============================================================================
