----------------------------- MODULE AccessProofs -----------------------------
(***************************************************************************)
(* Who may do what (Access.tla, as MCManagement.tla instantiates it): for  *)
(* any users, team, grants, routes that each caller asks for, requests at  *)
(* once, budgets of events and TTL, a request acts with its caller's       *)
(* rights, and who has the rights is served. A right is followed from the  *)
(* check that establishes it to the act: what a list says held when GitHub *)
(* was asked, which is less than TTL before the request reads it.          *)
(***************************************************************************)
EXTENDS MCManagement, TLAPS

-----------------------------------------------------------------------------
(* The strengthening.                                                      *)

\* A request as it is handled, and where it can be.
Checked ==
    {A!Leader, A!Session, A!Admin, A!Super, A!Manage, A!Member, A!Reveal, A!Installed, A!Key, A!HookToken, A!ApiKey,
     A!Secret} \cup {A!Team(cap) : cap \in A!All \cup {"any"}}
Effects ==
    {"none", "node", "login", "own", "cluster", "see", "secrets", "configure", "deploy", "delete", "create", "request",
     "incidents", "manage", "defaults", "override", "clear", "list", "administer", "promote", "demote",
     "logs", "metrics", "over", "host", "join"}
Judging == {"team", "admin", "members", "owners", "override"}
Checking == Judging \cup {"check"}
Places == Checking \cup {"idle", "refused", "act", "resolve", "resolved", "exists", "row", "write"}
Requested ==
    [caller : Users \cup Machine \cup {"nobody"}, node : {"leader", "follower"}, todo : Seq(Checked), at : Places,
     wait : A!Keys \cup {"none"}, installed : BOOLEAN, defaults : SUBSET A!All, does : Effects,
     with : SUBSET A!All, start : Int, could : SUBSET A!All,
     wasAdmin : BOOLEAN, wasIn : BOOLEAN, entitled : BOOLEAN]
Lists == SUBSET (Users \cup {"owner"})
Entries == [known : BOOLEAN, value : Lists, at : 0..AccessTime]
AtGithub == [installed : BOOLEAN, members : SUBSET Users, owners : SUBSET Users]

AccessTyped ==
    /\ now \in 0..AccessTime /\ changed \in 0..AccessTime /\ kind \in {"org", "user"}
    /\ github \in AtGithub /\ github.owners \subseteq github.members
    /\ until \in [installed : Int, members : [Users -> Int], owners : [Users -> Int]]
    /\ cache \in [A!Keys -> Entries] /\ \A k \in A!Keys : cache[k].at <= now
    /\ inflight \in [A!Keys -> [busy : BOOLEAN, value : Lists, entry : Entries]]
    /\ config \in [exists : BOOLEAN, caps : SUBSET A!All]
    /\ override \in [Users -> SUBSET A!All]
    /\ admins \in SUBSET Users /\ sessions \in SUBSET Users
    /\ aFlow \in [Flows -> Requested]
    /\ aAsked \in [defaults : SUBSET A!All, override : [Users -> SUBSET A!All]]
    /\ aUsed \in [A!Kinds -> Nat]

\* The checks of a request that are left, and where it is among them.
Has(s, c) == \E i \in 1..Len(s) : s[i] = c
FirstCheck(fl) == fl.todo[1].check
Listing(fl) == IF fl.at \in {"resolve", "check"} THEN "apps" ELSE fl.at
Staged(fl, k) ==
    /\ fl.at \in Checking <=> fl.todo # <<>>
    /\ fl.at \in Judging => FirstCheck(fl) \in {"caps", "reveal", "manage", "member"}
    /\ fl.at \in {"members", "override"} => FirstCheck(fl) \in {"caps", "reveal"}
    /\ fl.at \in {"members", "owners", "override"} => k = "org" /\ fl.installed
    /\ fl.at = "admin" /\ ~fl.installed => FirstCheck(fl) = "member"
    /\ fl.wait # "none" =>
        /\ fl.wait = Listing(fl) /\ fl.at \in {"resolve", "check", "members", "owners"}
        /\ fl.at = "check" => FirstCheck(fl) \in {"caps", "reveal", "manage", "member", "installed"}

\* What the effect of a request demands is asked of it at the leader.
Going(fl) == fl.at \notin {"idle", "refused"}
Led(fl) ==
    /\ fl.does \in A!OnAnyNode \/ fl.node = "leader" \/ Has(fl.todo, A!Leader)
    /\ Has(fl.todo, A!Reveal) => fl.does \in {"see", "secrets"}

-----------------------------------------------------------------------------
\* What held at GitHub lately for a caller whose request came at a time, and what is
\* so now.
Lately(u, start) ==
    [installed |-> github.installed \/ until.installed > start - TTL,
     member |-> u \in github.members \/ until.members[u] > start - TTL,
     owner |-> IF kind = "user" THEN u = Login ELSE u \in github.owners \/ until.owners[u] > start - TTL]
Standing(u) ==
    [admin |-> A!IsAdmin(u), owner |-> A!Owns(u), in |-> u \in sessions, caps |-> A!TrueCaps(u),
     installed |-> github.installed, members |-> github.members, owners |-> github.owners,
     defaults |-> config.caps, override |-> IF u \in Users THEN override[u] ELSE {}]

\* A request has passed a check, for what held lately.
Manages(fl, w) == fl.wasAdmin \/ w.owner
Proven(fl, w, c) ==
    /\ c.check = "session" => fl.wasIn
    /\ c.check = "caps" =>
        w.installed /\ (Manages(fl, w) \/ (w.member /\ IF c.cap = "any" THEN fl.could # {} ELSE c.cap \in fl.could))
    /\ c.check = "manage" => w.installed /\ Manages(fl, w)
    /\ c.check = "member" => Manages(fl, w) \/ (w.member /\ fl.could # {})
    /\ c.check = "admin" => fl.wasAdmin
    /\ c.check = "super" => fl.caller \in Supers

\* What an effect demands is established or still to be checked; of the effects that no
\* handler checks, the session is.
OfMachines == {"key", "hook", "apikey", "secret"}
Barred(s) == \E i \in 1..Len(s) : s[i].check \in OfMachines
Demanded(does) ==
    {c \in {A!Session} : does \notin {"login", "node"}}
    \cup {A!Team(A!Demands[d]) : d \in DOMAIN A!Demands \cap {does}}
    \cup {c \in {A!Manage} : does \in {"manage", "defaults", "override", "clear"}}
    \cup {c \in {A!Member} : does = "list"}
    \cup {c \in {A!Admin} : does \in A!OfAdmins}
    \cup {c \in {A!Super} : does \in {"promote", "demote"}}
Required(does) == IF does \in A!Unchecked THEN {A!Session} ELSE Demanded(does)
Due(s, c) ==
    \/ Has(s, c)
    \/ c = A!Team("configure") /\ Has(s, A!Reveal)
    \/ c = A!Member /\ Has(s, A!Team("any"))
Owed(fl, w) ==
    \/ Barred(fl.todo)
    \/ /\ \A c \in Required(fl.does) : Proven(fl, w, c) \/ Due(fl.todo, c)
       /\ Has(fl.todo, A!Reveal) => Proven(fl, w, A!Team("view")) \/ Has(fl.todo, A!Team("view"))

\* What a request has noticed of its caller's rights, and what it has read of them.
Covers(could, caps) == caps \subseteq could /\ (caps # {} => "view" \in could)
Witnesses(fl, s) ==
    /\ s.admin => fl.wasAdmin
    /\ s.in => fl.wasIn
    /\ Covers(fl.could, s.defaults \cup s.override)
Judged(fl, w) ==
    /\ fl.at \in Judging /\ fl.installed => w.installed
    /\ fl.at \in {"owners", "override"} /\ FirstCheck(fl) \in {"caps", "reveal"} => w.member
    /\ fl.at \in Judging \ {"team"} => Covers(fl.could, fl.defaults)
RightsOf(fl, w, s) ==
    Going(fl) /\ fl.caller \in Users =>
        /\ Owed(fl, w)
        /\ fl.at \in Checking => Witnesses(fl, s) /\ Judged(fl, w)

\* What a list said at a time had held then or later.
HeldAt(k, u, t) ==
    IF k = "apps" THEN github.installed \/ until.installed >= t
    ELSE IF k = "members" THEN u \in Users /\ (u \in github.members \/ until.members[u] >= t)
    ELSE u \in Users /\ (u \in github.owners \/ until.owners[u] >= t)
ListsAreOld ==
    \A k \in A!Keys :
        /\ cache[k].known => \A u \in cache[k].value : HeldAt(k, u, cache[k].at)
        /\ inflight[k].busy => \A u \in inflight[k].value : HeldAt(k, u, now)

-----------------------------------------------------------------------------
\* Who is entitled: lists that are young enough are true, and what has been read is.
Deserves(u, s, c) ==
    /\ c.check = "session" => s.in
    /\ c.check = "caps" => IF c.cap = "any" THEN s.caps # {} ELSE c.cap \in s.caps
    /\ c.check = "manage" => s.installed /\ (s.admin \/ s.owner)
    /\ c.check = "member" => s.caps # {}
    /\ c.check = "installed" => s.installed
    /\ c.check = "admin" => s.admin
    /\ c.check = "super" => u \in Supers
    /\ c.check \in OfMachines => u \in Machine
ListsAreTrue ==
    \A k \in A!Keys :
        /\ cache[k].known /\ cache[k].at > changed => cache[k].value = A!Truth(k)
        /\ inflight[k].busy /\ now > changed => inflight[k].value = A!Truth(k)
Honoured(fl, s) ==
    /\ fl.at # "refused" /\ fl.node = "leader"
    /\ \A i \in 1..Len(fl.todo) : Deserves(fl.caller, s, fl.todo[i])
    /\ fl.at \in Judging => fl.installed = s.installed
    /\ fl.at \in Judging \ {"team"} => fl.defaults = s.defaults
    /\ fl.at \in {"members", "owners", "override"} => ~s.admin
    /\ fl.at \in {"owners", "override"} /\ FirstCheck(fl) \in {"caps", "reveal"} => fl.caller \in s.members
    /\ fl.at = "override" => fl.caller \notin s.owners
HonourOf(fl, s) == fl.at # "idle" /\ fl.entitled => Honoured(fl, s)

-----------------------------------------------------------------------------
\* What has not happened, and what a request is handled under.
Around ==
    [slow |-> ~A!Never({"slow"}), stale |-> ~A!Never({"outage", "slow", "unlisted"}),
     refused |-> ~A!Never({"outage", "slow", "follower"}), overlap |-> ~A!Never({"overlap"}),
     now |-> now, kind |-> kind, aged |-> now - changed >= TTL]

\* A request: no time passes while it is handled; a row that it is about to write has
\* the defaults of the team.
Right(fl, w, s, n) ==
    /\ Staged(fl, n.kind)
    /\ Going(fl) => Led(fl)
    /\ ~n.slow /\ fl.at # "idle" => fl.start = n.now
    /\ ~n.stale => RightsOf(fl, w, s)
    /\ ~n.refused => HonourOf(fl, s) /\ (fl.at # "idle" /\ fl.entitled => n.aged)
    /\ ~n.overlap /\ fl.at \in {"exists", "row"} => fl.defaults = s.defaults

\* A list that is being fetched is awaited. One request at a time sets defaults.
Awaited == \A k \in A!Keys : inflight[k].busy => \E f \in Flows : aFlow[f].wait = k
Turns ==
    /\ \A f, g \in Flows : aFlow[f].at # "idle" /\ aFlow[g].at # "idle" => f = g
    /\ config.caps = aAsked.defaults
AllRight ==
    \A f \in Flows : \A u \in {aFlow[f].caller}, t \in {aFlow[f].start} :
        Right(aFlow[f], Lately(u, t), Standing(u), Around)

AccessInv ==
    /\ AccessTyped /\ Awaited
    /\ aAsked.override = override
    /\ ~Around.stale => ListsAreOld
    /\ ~Around.slow => ListsAreTrue
    /\ ~Around.overlap => Turns
    /\ AllRight
-----------------------------------------------------------------------------
(* The table of the routes asks for what the effects demand.               *)

\* The checks of a route establish what its effect demands of a user, or let in machines
\* only. A route that reveals secrets is one that shows.
Sound(s, does) ==
    /\ s \in Seq(Checked) /\ does \in Effects
    /\ Barred(s) \/ \A c \in Required(does) : Due(s, c)
    /\ Has(s, A!Reveal) => Has(s, A!Team("view")) /\ does \in {"see", "secrets"}
    /\ does \in A!OnAnyNode \/ Has(s, A!Leader)
\* A route of an effect that no handler checks asks for nothing but a session.
Bare(s) == ~Barred(s) /\ \A c : Has(s, c) => c \in {A!Session, A!Leader}
IsSound(program) ==
    Sound(program.checks, program.does) /\ (program.does \in A!Unchecked => Bare(program.checks))
\* The checks of a route ask for all that its effect demands.
Meets(program) == Barred(program.checks) \/ \A c \in Demanded(program.does) : Due(program.checks, c)

\* A check is put before the others.
LEMMA PutBefore ==
    ASSUME NEW h \in Checked, NEW s \in Seq(Checked)
    PROVE  /\ <<h>> \o s \in Seq(Checked)
           /\ \A c : Has(<<h>> \o s, c) <=> c = h \/ Has(s, c)
           /\ Barred(<<h>> \o s) <=> h.check \in OfMachines \/ Barred(s)
<1> DEFINE t == <<h>> \o s
<1>1. t \in Seq(Checked) /\ Len(t) = Len(s) + 1 /\ t[1] = h /\ \A i \in 1..Len(s) : t[i + 1] = s[i]
  OBVIOUS
<1>2. \A i \in 2..Len(t) : i - 1 \in 1..Len(s) /\ t[i] = s[i - 1]
  BY <1>1
<1> HIDE DEF t
<1>3. \A c : Has(t, c) <=> c = h \/ Has(s, c)
  BY <1>1, <1>2 DEF Has
<1>4. ASSUME NEW i \in 1..Len(s), s[i].check \in OfMachines PROVE Barred(t)
  <2>1. i + 1 \in 1..Len(t) /\ t[i + 1] = s[i]
    BY <1>1
  <2> QED
    BY <1>4, <2>1 DEF Barred
<1>5. ASSUME NEW i \in 1..Len(t), t[i].check \in OfMachines, h.check \notin OfMachines
      PROVE  Barred(s)
  <2>1. i # 1
    BY <1>1, <1>5
  <2>2. i - 1 \in 1..Len(s) /\ t[i] = s[i - 1]
    BY <1>2, <2>1
  <2> QED
    BY <1>5, <2>2 DEF Barred
<1>6. h.check \in OfMachines => Barred(t)
  <2>1. 1 \in 1..Len(t)
    BY <1>1
  <2> QED
    BY <1>1, <2>1 DEF Barred
<1>7. Barred(t) <=> h.check \in OfMachines \/ Barred(s)
  BY <1>4, <1>5, <1>6 DEF Barred
<1> QED
  BY <1>1, <1>3, <1>7 DEF t

\* The first check is taken away.
LEMMA TakenAway ==
    ASSUME NEW s \in Seq(Checked), s # <<>>
    PROVE  /\ s[1] \in Checked /\ Head(s) = s[1] /\ Len(s) \in Nat \ {0}
           /\ Tail(s) \in Seq(Checked) /\ Len(Tail(s)) = Len(s) - 1
           /\ Len(s) = 1 <=> Tail(s) = <<>>
           /\ \A c : Has(s, c) <=> c = s[1] \/ Has(Tail(s), c)
           /\ Barred(s) <=> s[1].check \in OfMachines \/ Barred(Tail(s))
           /\ \A i \in 1..Len(Tail(s)) : i + 1 \in 1..Len(s) /\ Tail(s)[i] = s[i + 1]
<1>1. s[1] \in Checked /\ Head(s) = s[1] /\ Len(s) \in Nat \ {0} /\ Tail(s) \in Seq(Checked)
  OBVIOUS
<1>2. Len(Tail(s)) = Len(s) - 1 /\ \A i \in 1..Len(Tail(s)) : i + 1 \in 1..Len(s) /\ Tail(s)[i] = s[i + 1]
  OBVIOUS
<1>3. Len(s) = 1 <=> Tail(s) = <<>>
  <2>1. \A t \in Seq(Checked) : Len(t) = 0 <=> t = <<>>
    OBVIOUS
  <2>2. Len(Tail(s)) = 0 <=> Tail(s) = <<>>
    BY <1>1, <2>1
  <2> QED
    BY <1>1, <1>2, <2>2
<1>4. s = <<s[1]>> \o Tail(s)
  OBVIOUS
<1> DEFINE h == s[1]
           t == Tail(s)
<1>5. h \in Checked /\ t \in Seq(Checked) /\ s = <<h>> \o t
  BY <1>1, <1>4
<1>6. /\ \A c : Has(s, c) <=> c = h \/ Has(t, c)
      /\ Barred(s) <=> h.check \in OfMachines \/ Barred(t)
  <2> HIDE DEF h, t
  <2> QED
    BY <1>5, PutBefore
<1> QED
  BY <1>1, <1>2, <1>3, <1>6

\* Nothing is left.
LEMMA NothingLeft == (\A c : ~Has(<<>>, c)) /\ ~Barred(<<>>)
BY DEF Has, Barred

\* The checks are checks.
LEMMA ChecksAreChecked ==
    /\ A!Leader \in Checked /\ A!Session \in Checked /\ A!Admin \in Checked /\ A!Super \in Checked
    /\ A!Manage \in Checked /\ A!Member \in Checked /\ A!Reveal \in Checked /\ A!Installed \in Checked
    /\ A!Key \in Checked /\ A!HookToken \in Checked /\ A!ApiKey \in Checked /\ A!Secret \in Checked
    /\ \A cap \in A!All \cup {"any"} : A!Team(cap) \in Checked
    /\ \A cap : A!Project(cap) = A!Team(cap)
    /\ A!Create = A!Team("create_project")
BY DEF Checked, A!All, A!Leader, A!Session, A!Admin, A!Super, A!Manage, A!Member, A!Reveal, A!Installed, A!Key,
       A!HookToken, A!ApiKey, A!Secret, A!Team, A!Project, A!Create

\* One check is not another.
LEMMA ChecksDiffer ==
    /\ A!Reveal \notin {A!Session, A!Leader, A!Manage, A!Member, A!Admin, A!Super, A!Installed}
    /\ \A cap : A!Team(cap) # A!Reveal
    /\ \A c \in {A!Session, A!Leader, A!Manage, A!Member, A!Admin, A!Super, A!Installed, A!Reveal} :
         c.check \notin OfMachines
    /\ \A cap : A!Team(cap).check \notin OfMachines
    /\ \A c \in {A!Key, A!HookToken, A!ApiKey, A!Secret} :
         c.check \in OfMachines /\ c # A!Reveal /\ c # A!Leader
BY DEF OfMachines, A!Leader, A!Session, A!Admin, A!Super, A!Manage, A!Member, A!Reveal, A!Installed, A!Key,
       A!HookToken, A!ApiKey, A!Secret, A!Team

\* What the effects require.
LEMMA WhatIsRequired ==
    /\ Required("node") = {} /\ Required("login") = {}
    /\ Required("own") = {A!Session} /\ Required("cluster") = {A!Session}
    /\ Required("see") = {A!Session, A!Team("view")}
    /\ Required("secrets") = {A!Session, A!Team("configure")}
    /\ Required("configure") = {A!Session, A!Team("configure")}
    /\ Required("deploy") = {A!Session, A!Team("deploy")}
    /\ Required("delete") = {A!Session, A!Team("delete")}
    /\ Required("create") = {A!Session, A!Team("create_project")}
    /\ Required("request") = {A!Session, A!Team("create_project")}
    /\ Required("incidents") = {A!Session, A!Team("manage_incidents")}
    /\ \A d \in {"manage", "defaults", "override", "clear"} : Required(d) = {A!Session, A!Manage}
    /\ Required("list") = {A!Session, A!Member}
    /\ Required("administer") = {A!Session, A!Admin}
    /\ \A d \in {"promote", "demote"} : Required(d) = {A!Session, A!Super}
    /\ \A d \in A!Unchecked : Required(d) = {A!Session}
BY DEF Required, Demanded, A!Demands, A!OfAdmins, A!Unchecked

\* A private route that checks c after the leader, and then perhaps for the App.
LEMMA LeaderAndCheck ==
    ASSUME NEW c \in Checked, c # A!Reveal,
           NEW d \in Effects \ A!Unchecked, Required(d) \subseteq {A!Session, c}
    PROVE  /\ IsSound(A!Private(<<A!Leader, c>>, d))
           /\ IsSound(A!Private(<<A!Leader, c, A!Installed>>, d))
<1> DEFINE s == <<A!Leader, c>>
           t == <<A!Leader, c, A!Installed>>
<1>1. s \in Seq(Checked) /\ t \in Seq(Checked)
  BY ChecksAreChecked
<1>2. /\ Has(s, A!Leader) /\ Has(s, c) /\ ~Has(s, A!Reveal)
      /\ Has(t, A!Leader) /\ Has(t, c) /\ ~Has(t, A!Reveal)
  BY ChecksDiffer DEF Has
<1>3. A!Private(s, d).checks = <<A!Session>> \o s /\ A!Private(s, d).does = d
      /\ A!Private(t, d).checks = <<A!Session>> \o t /\ A!Private(t, d).does = d
  BY DEF A!Private, A!Route
<1> HIDE DEF s, t
<1>4. \A x : x \in Required(d) => x = A!Session \/ x = c
  OBVIOUS
<1>5. ASSUME NEW r \in {s, t} PROVE Sound(<<A!Session>> \o r, d)
  <2>1. r \in Seq(Checked) /\ Has(r, A!Leader) /\ Has(r, c) /\ ~Has(r, A!Reveal) /\ A!Session \in Checked
    BY <1>1, <1>2, ChecksAreChecked
  <2> DEFINE q == <<A!Session>> \o r
  <2>2. q \in Seq(Checked) /\ Has(q, A!Leader) /\ Has(q, c) /\ ~Has(q, A!Reveal) /\ Has(q, A!Session)
    BY <2>1, PutBefore, ChecksDiffer
  <2> HIDE DEF q
  <2>3. Sound(q, d)
    BY <1>4, <2>2 DEF Sound, Due
  <2> QED
    BY <2>3 DEF q
<1> QED
  BY <1>3, <1>5 DEF IsSound, s, t

\* The other private routes: of nodes, of a user's own, those that hide secrets, and those
\* that ask for nothing but a session.
LEMMA OtherPrivate ==
    /\ IsSound(A!Private(<<>>, "node"))
    /\ IsSound(A!Private(<<A!Leader>>, "own"))
    /\ IsSound(A!Private(<<A!Leader, A!Project("view"), A!Reveal>>, "secrets"))
    /\ \A d \in A!Unchecked \ A!OnAnyNode : IsSound(A!Private(<<A!Leader>>, d))
    /\ IsSound(A!Private(<<>>, "join"))
<1> DEFINE s == <<A!Leader>>
           t == <<A!Leader, A!Project("view"), A!Reveal>>
<1>1. <<>> \in Seq(Checked) /\ s \in Seq(Checked) /\ t \in Seq(Checked)
  BY ChecksAreChecked DEF A!All
<1>2. /\ Has(s, A!Leader) /\ ~Has(s, A!Reveal)
      /\ Has(t, A!Leader) /\ Has(t, A!Team("view")) /\ Has(t, A!Reveal)
  BY ChecksDiffer, ChecksAreChecked DEF Has
<1>3. \A r, d : A!Private(r, d).checks = <<A!Session>> \o r /\ A!Private(r, d).does = d
  BY DEF A!Private, A!Route
<1> HIDE DEF s, t
<1>4. ASSUME NEW r \in {s, t, <<>>}
      PROVE  /\ <<A!Session>> \o r \in Seq(Checked)
             /\ \A c : Has(<<A!Session>> \o r, c) <=> c = A!Session \/ Has(r, c)
  BY <1>1, PutBefore, ChecksAreChecked
<1>5. Sound(<<A!Session>> \o <<>>, "node") /\ Sound(<<A!Session>> \o <<>>, "join")
  <2>1. "join" \in A!Unchecked
    BY DEF A!Unchecked
  <2> QED
    BY <1>4, <2>1, NothingLeft, WhatIsRequired, ChecksDiffer DEF Sound, Effects, A!OnAnyNode, Due
<1>6. Sound(<<A!Session>> \o s, "own")
  BY <1>2, <1>4, WhatIsRequired, ChecksDiffer DEF Sound, Effects, Due
<1>7. Sound(<<A!Session>> \o t, "secrets")
  BY <1>2, <1>4, WhatIsRequired, ChecksDiffer DEF Sound, Effects, Due
<1>8. ASSUME NEW d \in A!Unchecked PROVE Sound(<<A!Session>> \o s, d)
  <2>1. d \in Effects
    BY DEF A!Unchecked, Effects
  <2> QED
    BY <1>2, <1>4, <2>1, WhatIsRequired, ChecksDiffer DEF Sound, Due
<1>9. ASSUME NEW r \in {s, <<>>} PROVE Bare(<<A!Session>> \o r)
  <2>1. ~Barred(<<>>) /\ ~Barred(s) /\ \A c : (Has(s, c) => c = A!Leader) /\ ~Has(<<>>, c)
    BY ChecksDiffer DEF Barred, Has, s, OfMachines, A!Leader
  <2>2. A!Session.check \notin OfMachines /\ A!Session \in Checked
    BY DEF OfMachines, A!Session, Checked
  <2>3. Barred(<<A!Session>> \o r) <=> A!Session.check \in OfMachines \/ Barred(r)
    BY <1>1, <2>2, PutBefore
  <2> QED
    BY <1>4, <2>1, <2>2, <2>3 DEF Bare
<1>10. {"node", "own", "secrets"} \cap A!Unchecked = {} /\ "join" \in A!Unchecked
  BY DEF A!Unchecked
<1> QED
  BY <1>3, <1>5, <1>6, <1>7, <1>8, <1>9, <1>10 DEF IsSound, s, t

\* The routes of machines, and the login.
LEMMA MachineRoutes ==
    /\ IsSound(A!Internal(<<>>, "node"))
    /\ IsSound(A!Internal(<<A!Leader>>, "node"))
    /\ IsSound(A!Internal(<<A!Leader>>, "cluster"))
    /\ IsSound(A!Route(<<>>, "node"))
    /\ IsSound(A!Route(<<A!Key, A!Leader, A!Installed>>, "deploy"))
    /\ IsSound(A!Route(<<A!Leader, A!HookToken, A!Installed>>, "deploy"))
    /\ IsSound(A!Route(<<A!Leader>>, "login"))
    /\ IsSound(A!Route(<<A!Leader, A!ApiKey>>, "see"))
<1>1. \A r, d : A!Route(r, d).checks = r /\ A!Route(r, d).does = d
  BY DEF A!Route
<1>2. ASSUME NEW s \in Seq(Checked), Barred(s), ~Has(s, A!Reveal), 
             NEW d \in Effects \ A!Unchecked, d = "node" \/ Has(s, A!Leader)
      PROVE  IsSound(A!Route(s, d))
  BY <1>1, <1>2 DEF IsSound, Sound, A!OnAnyNode
<1>3. {"node", "cluster", "deploy", "see", "login"} \subseteq Effects \ A!Unchecked
  BY DEF Effects, A!Unchecked
<1>4. /\ <<>> \in Seq(Checked) /\ <<A!Leader>> \in Seq(Checked)
      /\ <<A!Key, A!Leader, A!Installed>> \in Seq(Checked)
      /\ <<A!Leader, A!HookToken, A!Installed>> \in Seq(Checked)
      /\ <<A!Leader, A!ApiKey>> \in Seq(Checked)
  BY ChecksAreChecked
<1>5. Has(<<A!Leader>>, A!Leader) /\ ~Has(<<A!Leader>>, A!Reveal)
  BY ChecksDiffer DEF Has
<1>6. ASSUME NEW s \in {<<>>, <<A!Leader>>}
      PROVE  /\ <<A!Secret>> \o s \in Seq(Checked) /\ Barred(<<A!Secret>> \o s) /\ ~Has(<<A!Secret>> \o s, A!Reveal)
             /\ Has(s, A!Leader) => Has(<<A!Secret>> \o s, A!Leader)
  <2> DEFINE h == A!Secret
  <2>1. h \in Checked /\ h.check \in OfMachines /\ h # A!Reveal
    BY ChecksAreChecked, ChecksDiffer
  <2>2. s \in Seq(Checked) /\ ~Has(s, A!Reveal)
    BY <1>4, <1>5, NothingLeft
  <2> HIDE DEF h
  <2>3. /\ <<h>> \o s \in Seq(Checked) /\ Barred(<<h>> \o s)
        /\ \A c : Has(<<h>> \o s, c) <=> c = h \/ Has(s, c)
    BY <2>1, <2>2, PutBefore
  <2> QED
    BY <2>1, <2>2, <2>3 DEF h
<1>7. IsSound(A!Internal(<<>>, "node")) /\ IsSound(A!Internal(<<A!Leader>>, "node"))
      /\ IsSound(A!Internal(<<A!Leader>>, "cluster"))
  BY <1>2, <1>3, <1>5, <1>6 DEF A!Internal
<1>8. IsSound(A!Route(<<>>, "node")) /\ IsSound(A!Route(<<A!Leader>>, "login"))
  <2>1. Sound(<<>>, "node")
    BY <1>3, <1>4, NothingLeft, WhatIsRequired DEF Sound, A!OnAnyNode
  <2>2. Sound(<<A!Leader>>, "login")
    <3> DEFINE s == <<A!Leader>>
    <3>1. s \in Seq(Checked) /\ Has(s, A!Leader) /\ ~Has(s, A!Reveal)
      BY <1>4, <1>5
    <3> HIDE DEF s
    <3>2. Sound(s, "login")
      BY <1>3, <3>1, WhatIsRequired DEF Sound
    <3> QED
      BY <3>2 DEF s
  <2> QED
    BY <1>1, <1>3, <2>1, <2>2 DEF IsSound
<1>9. Barred(<<A!Key, A!Leader, A!Installed>>) /\ Barred(<<A!Leader, A!HookToken, A!Installed>>)
      /\ Barred(<<A!Leader, A!ApiKey>>)
  BY ChecksDiffer DEF Barred
<1>10. /\ ~Has(<<A!Key, A!Leader, A!Installed>>, A!Reveal) /\ Has(<<A!Key, A!Leader, A!Installed>>, A!Leader)
       /\ ~Has(<<A!Leader, A!HookToken, A!Installed>>, A!Reveal) /\ Has(<<A!Leader, A!HookToken, A!Installed>>, A!Leader)
       /\ ~Has(<<A!Leader, A!ApiKey>>, A!Reveal) /\ Has(<<A!Leader, A!ApiKey>>, A!Leader)
  BY ChecksDiffer DEF Has
<1> QED
  BY <1>2, <1>3, <1>4, <1>7, <1>8, <1>9, <1>10

\* The routes that check for a capability, or for somebody who manages or administers.
LEMMA UserRoutes ==
    /\ IsSound(A!See) /\ IsSound(A!SeeTeam) /\ IsSound(A!Configure) /\ IsSound(A!SeeSecrets) /\ IsSound(A!Deploy)
    /\ IsSound(A!Incident) /\ IsSound(A!Managing) /\ IsSound(A!Administer) /\ IsSound(A!Own)
    /\ IsSound(A!Private(<<A!Leader, A!Member>>, "list"))
    /\ IsSound(A!Private(<<A!Leader, A!Create>>, "create"))
    /\ IsSound(A!Private(<<A!Leader, A!Project("delete")>>, "delete"))
    /\ IsSound(A!Private(<<A!Leader, A!Team("create_project")>>, "request"))
    /\ IsSound(A!Private(<<A!Leader, A!Project("deploy"), A!Installed>>, "deploy"))
    /\ IsSound(A!Private(<<A!Leader, A!Project("configure"), A!Installed>>, "configure"))
    /\ \A d \in {"defaults", "override", "clear"} : IsSound(A!Private(<<A!Leader, A!Manage>>, d))
    /\ \A d \in {"promote", "demote"} : IsSound(A!Private(<<A!Leader, A!Super>>, d))
<1>1. \A cap \in A!All : A!Team(cap) \in Checked /\ A!Team(cap) # A!Reveal
  BY ChecksAreChecked, ChecksDiffer
<1>2. \A c \in {A!Manage, A!Member, A!Admin, A!Super} : c \in Checked /\ c # A!Reveal
  BY ChecksAreChecked, ChecksDiffer
<1>3. {"see", "secrets", "configure", "deploy", "delete", "create", "request", "incidents", "manage", "defaults",
       "override", "clear", "list", "administer", "promote", "demote"} \subseteq Effects \ A!Unchecked
  BY DEF Effects, A!Unchecked
<1>4. {"view", "deploy", "configure", "delete", "create_project", "manage_incidents"} \subseteq A!All
  BY DEF A!All
<1>5. ASSUME NEW cap \in A!All, NEW d \in Effects \ A!Unchecked, Required(d) \subseteq {A!Session, A!Team(cap)}
      PROVE  /\ IsSound(A!Private(<<A!Leader, A!Team(cap)>>, d))
             /\ IsSound(A!Private(<<A!Leader, A!Team(cap), A!Installed>>, d))
             /\ IsSound(A!Private(<<A!Leader, A!Project(cap)>>, d))
             /\ IsSound(A!Private(<<A!Leader, A!Project(cap), A!Installed>>, d))
  <2>1. A!Project(cap) = A!Team(cap)
    BY ChecksAreChecked
  <2> QED
    BY <1>1, <1>5, <2>1, LeaderAndCheck
<1>6. ASSUME NEW c \in {A!Manage, A!Member, A!Admin, A!Super}, NEW d \in Effects \ A!Unchecked, Required(d) \subseteq {A!Session, c}
      PROVE  IsSound(A!Private(<<A!Leader, c>>, d))
  BY <1>2, <1>6, LeaderAndCheck
<1>7. IsSound(A!See) /\ IsSound(A!SeeTeam)
  BY <1>3, <1>4, <1>5, WhatIsRequired DEF A!See, A!SeeTeam
<1>8. IsSound(A!Configure) /\ IsSound(A!SeeSecrets)
      /\ IsSound(A!Private(<<A!Leader, A!Project("configure"), A!Installed>>, "configure"))
  BY <1>3, <1>4, <1>5, WhatIsRequired DEF A!Configure, A!SeeSecrets
<1>9. IsSound(A!Deploy) /\ IsSound(A!Private(<<A!Leader, A!Project("deploy"), A!Installed>>, "deploy"))
  BY <1>3, <1>4, <1>5, WhatIsRequired DEF A!Deploy
<1>10. IsSound(A!Incident) /\ IsSound(A!Private(<<A!Leader, A!Project("delete")>>, "delete"))
  BY <1>3, <1>4, <1>5, WhatIsRequired DEF A!Incident
<1>11. IsSound(A!Private(<<A!Leader, A!Create>>, "create"))
       /\ IsSound(A!Private(<<A!Leader, A!Team("create_project")>>, "request"))
  BY <1>3, <1>4, <1>5, WhatIsRequired, ChecksAreChecked
<1>12. IsSound(A!Managing) /\ \A d \in {"defaults", "override", "clear"} : IsSound(A!Private(<<A!Leader, A!Manage>>, d))
  BY <1>3, <1>6, WhatIsRequired DEF A!Managing
<1>13. IsSound(A!Administer) /\ IsSound(A!Private(<<A!Leader, A!Member>>, "list"))
  BY <1>3, <1>6, WhatIsRequired DEF A!Administer
<1>14. \A d \in {"promote", "demote"} : IsSound(A!Private(<<A!Leader, A!Super>>, d))
  BY <1>3, <1>6, WhatIsRequired
<1>15. IsSound(A!Own)
  BY OtherPrivate DEF A!Own
<1> QED
  BY <1>7, <1>8, <1>9, <1>10, <1>11, <1>12, <1>13, <1>14, <1>15

\* The routes that ask for nothing but a session: of logs, metrics, nodes, the cluster's
\* secret, and a project created over another.
LEMMA UncheckedRoutes ==
    /\ IsSound(A!ReadLogs) /\ IsSound(A!ReadMetrics) /\ IsSound(A!ReadHost)
    /\ IsSound(A!Private(<<A!Leader>>, "over")) /\ IsSound(A!Private(<<>>, "join"))
<1>1. {"logs", "metrics", "host", "over"} \subseteq A!Unchecked \ A!OnAnyNode
  BY DEF A!Unchecked, A!OnAnyNode
<1> QED
  BY <1>1, OtherPrivate DEF A!ReadLogs, A!ReadMetrics, A!ReadHost

\* No route of an unchecked effect asks for what the effect demands.
LEMMA UncheckedIsNotMet ==
    ASSUME NEW d \in A!Unchecked, NEW s, Bare(s)
    PROVE  ~Barred(s) /\ \E c \in Demanded(d) : ~Due(s, c)
<1>1. PICK c \in Demanded(d) : c \in {A!Admin} \cup {A!Team(cap) : cap \in {"deploy", "view", "configure"}}
  <2>1. CASE d \in {"host", "join"}
    BY <2>1 DEF Demanded, A!OfAdmins
  <2>2. CASE d \in {"logs", "metrics", "over"}
    <3>1. d \in DOMAIN A!Demands /\ A!Demands[d] \in {"deploy", "view", "configure"}
      BY <2>2 DEF A!Demands
    <3>2. A!Team(A!Demands[d]) \in Demanded(d)
      BY <3>1 DEF Demanded
    <3> QED
      BY <3>1, <3>2
  <2> QED
    BY <2>1, <2>2 DEF A!Unchecked
<1>2. c \notin {A!Session, A!Leader, A!Member}
  BY <1>1 DEF A!Admin, A!Team, A!Session, A!Leader, A!Member
<1>3. A!Reveal \notin {A!Session, A!Leader}
  BY DEF A!Reveal, A!Session, A!Leader
<1> QED
  BY <1>2, <1>3 DEF Bare, Due

\* Every route (routes.ts) asks for a session where its effect needs one, for all that its
\* effect demands unless no handler checks that effect, and for the leader unless a node
\* answers itself. The effects that are not checked are exactly those of Unchecked: every
\* route that has one of them lacks the check.
THEOREM ProgramsAreSound ==
    \A program \in A!Programs : IsSound(program) /\ (Meets(program) <=> program.does \notin A!Unchecked)
<1>1. ASSUME NEW s \in A!Sections PROVE \A r \in DOMAIN s : IsSound(s[r])
  <2>1. CASE s = A!Public
    BY <2>1, MachineRoutes DEF A!Public
  <2>2. CASE s = A!ProjectAndTeamReads
    BY <2>2, UserRoutes, OtherPrivate, UncheckedRoutes DEF A!ProjectAndTeamReads
  <2>3. CASE s = A!Observability
    BY <2>3, UserRoutes, UncheckedRoutes DEF A!Observability
  <2>10. CASE s = A!FilesAndQuota
    BY <2>10, UserRoutes DEF A!FilesAndQuota
  <2>11. CASE s = A!Registrar
    BY <2>11, UserRoutes DEF A!Registrar
  <2>12. CASE s = A!Push
    BY <2>12, UserRoutes, OtherPrivate DEF A!Push
  <2>4. CASE s \in {A!LogsAndGithub, A!ProjectWrites, A!Domains}
    BY <2>4, UserRoutes, UncheckedRoutes DEF A!LogsAndGithub, A!ProjectWrites, A!Domains
  <2>5. CASE s = A!CdTeamsAndAdmins
    BY <2>5, UserRoutes DEF A!CdTeamsAndAdmins
  <2>6. CASE s \in {A!DnsRecords, A!NodesAndPorts}
    BY <2>6, UserRoutes DEF A!DnsRecords, A!NodesAndPorts
  <2>7. CASE s \in {A!IncidentRoutes, A!KeysAndWebhooks}
    BY <2>7, UserRoutes DEF A!IncidentRoutes, A!KeysAndWebhooks
  <2>8. CASE s \in {A!StatusApi, A!ClusterRoutes}
    BY <2>8, MachineRoutes DEF A!StatusApi, A!ClusterRoutes
  <2>9. CASE s \in {A!NodeRoutes, A!UpdateRoutes}
    BY <2>9, MachineRoutes DEF A!NodeRoutes, A!UpdateRoutes
  <2> QED
    BY <2>1, <2>2, <2>3, <2>4, <2>5, <2>6, <2>7, <2>8, <2>9, <2>10, <2>11, <2>12 DEF A!Sections
<1>2. ASSUME NEW program \in A!Programs PROVE IsSound(program)
  BY <1>1 DEF A!Programs
<1>3. ASSUME NEW program \in A!Programs PROVE Meets(program) <=> program.does \notin A!Unchecked
  <2>1. CASE program.does \in A!Unchecked
    BY <1>2, <2>1, UncheckedIsNotMet DEF IsSound, Meets
  <2>2. CASE program.does \notin A!Unchecked
    BY <1>2, <2>2 DEF IsSound, Sound, Meets, Required
  <2> QED
    BY <2>1, <2>2
<1> QED
  BY <1>2, <1>3
-----------------------------------------------------------------------------
(* A request goes through its checks.                                      *)

\* A check is known by its name.
LEMMA ByCheck ==
    \A c \in Checked :
        /\ c.check = "leader" => c = A!Leader
        /\ c.check = "session" => c = A!Session
        /\ c.check = "manage" => c = A!Manage
        /\ c.check = "member" => c = A!Member
        /\ c.check = "reveal" => c = A!Reveal /\ c.cap = "configure"
        /\ c.check = "caps" => c.cap \in A!All \cup {"any"} /\ c = A!Team(c.cap)
        /\ c.check \in {"manage", "member"} => c.cap = "none"
        /\ c.check \in {"leader", "session", "admin", "super", "manage", "member", "reveal", "installed", "caps"} \cup OfMachines
BY DEF Checked, OfMachines, A!Leader, A!Session, A!Admin, A!Super, A!Manage, A!Member, A!Reveal, A!Installed, A!Key,
       A!HookToken, A!ApiKey, A!Secret, A!Team

\* A request stays that of its caller.
Alike(fl, gl) ==
    /\ gl \in Requested
    /\ gl.caller = fl.caller /\ gl.with = fl.with /\ gl.start = fl.start /\ gl.could = fl.could
    /\ gl.wasAdmin = fl.wasAdmin /\ gl.wasIn = fl.wasIn /\ gl.entitled = fl.entitled

\* The parts of a request.
LEMMA PartsOf ==
    ASSUME NEW fl \in Requested
    PROVE  /\ fl.caller \in Users \cup Machine \cup {"nobody"} /\ fl.node \in {"leader", "follower"}
           /\ fl.todo \in Seq(Checked) /\ fl.at \in Places /\ fl.wait \in A!Keys \cup {"none"}
           /\ fl.installed \in BOOLEAN /\ fl.defaults \in SUBSET A!All /\ fl.does \in Effects
           /\ fl.with \in SUBSET A!All /\ fl.start \in Int /\ fl.could \in SUBSET A!All
           /\ fl.wasAdmin \in BOOLEAN /\ fl.wasIn \in BOOLEAN /\ fl.entitled \in BOOLEAN
           /\ Alike(fl, fl)
BY DEF Requested, Alike

\* A check is passed.
LEMMA PassedIs ==
    ASSUME NEW fl \in Requested, fl.todo # <<>>, NEW gl, gl = A!Passed(fl)
    PROVE  /\ Alike(fl, gl) /\ gl.node = fl.node /\ gl.does = fl.does /\ gl.wait = fl.wait
           /\ gl.todo = Tail(fl.todo) /\ gl.at = IF Tail(fl.todo) = <<>> THEN "act" ELSE "check"
<1>1. Len(fl.todo) = 1 <=> Tail(fl.todo) = <<>>
  BY PartsOf, TakenAway
<1>2. Tail(fl.todo) \in Seq(Checked) /\ <<>> \in Seq(Checked)
  BY PartsOf, TakenAway
<1>3. CASE Len(fl.todo) = 1
  <2>1. gl = [fl EXCEPT !.todo = <<>>, !.at = "act"]
    BY <1>3 DEF A!Passed
  <2>2. gl \in Requested
    BY <1>2, <2>1 DEF Requested, Places
  <2> QED
    BY <1>1, <1>3, <2>1, <2>2 DEF Requested, Alike
<1>4. CASE Len(fl.todo) # 1
  <2>1. gl = [fl EXCEPT !.todo = Tail(fl.todo), !.at = "check", !.installed = FALSE, !.defaults = {}]
    BY <1>4 DEF A!Passed, Requested
  <2>2. gl \in Requested
    BY <1>2, <2>1 DEF Requested, Places, Checking
  <2> QED
    BY <1>1, <1>4, <2>1, <2>2 DEF Requested, Alike
<1> QED
  BY <1>3, <1>4

\* A request is refused.
LEMMA RefusedIs ==
    ASSUME NEW fl \in Requested, NEW gl, gl = A!Refused(fl)
    PROVE  /\ Alike(fl, gl) /\ gl.node = fl.node /\ gl.does = fl.does /\ gl.wait = fl.wait
           /\ gl.todo = <<>> /\ gl.at = "refused"
<1>1. gl = [fl EXCEPT !.todo = <<>>, !.at = "refused"]
  BY DEF A!Refused
<1>2. <<>> \in Seq(Checked)
  OBVIOUS
<1>3. gl \in Requested
  BY <1>1, <1>2 DEF Requested, Places
<1> QED
  BY <1>1, <1>3 DEF Requested, Alike

\* Somebody who does not manage the team is asked for any capability of it.
LEMMA AsMemberIs ==
    ASSUME NEW fl \in Requested, fl.todo # <<>>, NEW gl, gl = A!AsMember(fl)
    PROVE  /\ Alike(fl, gl) /\ gl.node = fl.node /\ gl.does = fl.does /\ gl.wait = fl.wait
           /\ gl.todo = <<A!Team("any")>> \o Tail(fl.todo) /\ gl.at = "check"
<1>1. Tail(fl.todo) \in Seq(Checked)
  BY PartsOf, TakenAway
<1>2. <<A!Team("any")>> \o Tail(fl.todo) \in Seq(Checked)
  BY <1>1, PutBefore, ChecksAreChecked
<1>3. gl = [fl EXCEPT !.todo = <<A!Team("any")>> \o Tail(fl.todo), !.at = "check", !.installed = FALSE]
  BY DEF A!AsMember
<1>4. gl \in Requested
  BY <1>2, <1>3 DEF Requested, Places, Checking
<1> QED
  BY <1>3, <1>4 DEF Requested, Alike

\* A request goes on.
Follows(fl, gl, k) ==
    /\ Alike(fl, gl) /\ Staged(gl, k)
    /\ gl.wait = "none" /\ gl.at \notin {"idle", "exists", "row"}
    /\ Led(fl) /\ Going(gl) => Led(gl)

\* It does when it passes a check or is refused.
LEMMA PassFollows ==
    ASSUME NEW k, NEW fl \in Requested, fl.todo # <<>>, fl.wait = "none", NEW gl, gl.wait = "none", Alike(fl, gl),
           gl.todo = Tail(fl.todo), gl.at = IF Tail(fl.todo) = <<>> THEN "act" ELSE "check",
           fl.todo[1] = A!Leader => gl.node = "leader",
           gl.node = fl.node \/ gl.node = "leader",
           gl.does = fl.does \/ (fl.todo[1] = A!Reveal /\ gl.does \in {"see", "secrets"})
    PROVE  Follows(fl, gl, k)
<1>1. /\ \A c : Has(fl.todo, c) <=> c = fl.todo[1] \/ Has(gl.todo, c)
  BY PartsOf, TakenAway
<1>2. gl.at \in Checking <=> gl.todo # <<>>
  BY DEF Checking, Judging
<1>3. gl.at \notin Judging /\ gl.at \in {"act", "check"}
  BY DEF Judging
<1>4. Staged(gl, k)
  BY <1>2, <1>3 DEF Staged
<1>5. ASSUME Led(fl) PROVE Led(gl)
  <2>1. gl.does \in A!OnAnyNode \/ gl.node = "leader" \/ Has(gl.todo, A!Leader)
    <3>1. CASE fl.todo[1] = A!Leader
      BY <3>1
    <3>2. CASE fl.todo[1] # A!Leader
      <4>1. fl.does \in A!OnAnyNode => gl.does \in A!OnAnyNode
        BY <1>1, <1>5 DEF Led, A!OnAnyNode
      <4> QED
        BY <1>1, <1>5, <3>2, <4>1 DEF Led
    <3> QED
      BY <3>1, <3>2
  <2>2. Has(gl.todo, A!Reveal) => gl.does \in {"see", "secrets"}
    BY <1>1, <1>5 DEF Led
  <2> QED
    BY <2>1, <2>2 DEF Led
<1> QED
  BY <1>3, <1>4, <1>5 DEF Follows

\* What has been established when a check is passed.
LEMMA PassRights ==
    ASSUME NEW w, NEW s, NEW fl \in Requested, fl.todo # <<>>, fl.at \in Checking, RightsOf(fl, w, s), Led(fl),
           NEW gl, Alike(fl, gl), gl.todo = Tail(fl.todo), gl.at \in {"act", "check"},
           fl.caller \in Users => fl.todo[1].check \notin OfMachines /\ Proven(fl, w, fl.todo[1]),
           \/ gl.does = fl.does /\ fl.todo[1] # A!Reveal
           \/ fl.todo[1] = A!Reveal /\ gl.does = "see"
           \/ fl.todo[1] = A!Reveal /\ gl.does = "secrets" /\ (fl.caller \in Users => Proven(fl, w, A!Team("configure")))
    PROVE  RightsOf(gl, w, s)
<1> SUFFICES ASSUME fl.caller \in Users PROVE RightsOf(gl, w, s)
  BY DEF RightsOf, Alike
<1> DEFINE h == fl.todo[1]
<1>1. /\ \A c : Has(fl.todo, c) <=> c = h \/ Has(gl.todo, c)
      /\ Barred(fl.todo) <=> h.check \in OfMachines \/ Barred(gl.todo)
      /\ h \in Checked
  BY PartsOf, TakenAway
<1>2. Going(fl) /\ Owed(fl, w) /\ Witnesses(fl, s)
  BY DEF RightsOf, Going, Checking, Judging
<1>3. Proven(fl, w, h) /\ h.check \notin OfMachines
  OBVIOUS
<1> HIDE DEF h
<1>4. \A c : Proven(gl, w, c) <=> Proven(fl, w, c)
  BY DEF Proven, Manages, Alike
<1>5. Witnesses(gl, s) /\ Judged(gl, w)
  BY <1>2 DEF Witnesses, Judged, Alike, Judging
<1>6. CASE Barred(gl.todo)
  BY <1>5, <1>6 DEF RightsOf, Owed
<1>7. CASE ~Barred(gl.todo)
  <2>1. /\ \A c \in Required(fl.does) : Proven(fl, w, c) \/ Due(fl.todo, c)
        /\ Has(fl.todo, A!Reveal) => Proven(fl, w, A!Team("view")) \/ Has(fl.todo, A!Team("view"))
    BY <1>1, <1>2, <1>3, <1>7 DEF Owed
  <2>2. Has(gl.todo, A!Reveal) => Proven(gl, w, A!Team("view")) \/ Has(gl.todo, A!Team("view"))
    BY <1>1, <1>3, <1>4, <2>1
  <2>3. ASSUME NEW c, Due(fl.todo, c), h # A!Reveal PROVE Proven(fl, w, c) \/ Due(gl.todo, c)
    <3>1. CASE h = A!Team("any") /\ c = A!Member
      <4>1. A!Team("any").check = "caps" /\ A!Team("any").cap = "any" /\ A!Member.check = "member"
        BY DEF A!Team, A!Member
      <4> QED
        BY <1>3, <3>1, <4>1 DEF Proven
    <3> QED
      BY <1>1, <1>3, <2>3, <3>1 DEF Due
  <2>4. CASE gl.does = fl.does /\ h # A!Reveal
    <3>1. \A c \in Required(gl.does) : Proven(gl, w, c) \/ Due(gl.todo, c)
      BY <1>4, <2>1, <2>3, <2>4
    <3> QED
      BY <1>5, <2>2, <3>1 DEF RightsOf, Owed
  <2>5. CASE h = A!Reveal /\ gl.does \in {"see", "secrets"} /\ (gl.does = "secrets" => Proven(fl, w, A!Team("configure")))
    <3>1. Proven(gl, w, A!Team("view")) \/ Has(gl.todo, A!Team("view"))
      BY <1>1, <1>4, <2>1, <2>5, ChecksDiffer
    <3>2. fl.does \in {"see", "secrets"}
      BY <1>1, <2>5 DEF Led
    <3>3. Proven(fl, w, A!Session) \/ Due(fl.todo, A!Session)
      BY <2>1, <3>2, WhatIsRequired
    <3>4. Proven(gl, w, A!Session) \/ Due(gl.todo, A!Session)
      <4>1. A!Session # A!Team("configure") /\ A!Session # A!Member /\ A!Session # A!Reveal
        BY DEF A!Session, A!Team, A!Member, A!Reveal
      <4> QED
        BY <1>1, <1>4, <2>5, <3>3, <4>1 DEF Due
    <3>5. CASE gl.does = "see"
      <4>1. \A c \in Required(gl.does) : Proven(gl, w, c) \/ Due(gl.todo, c)
        BY <3>1, <3>4, <3>5, WhatIsRequired DEF Due
      <4> QED
        BY <1>5, <2>2, <4>1 DEF RightsOf, Owed
    <3>6. CASE gl.does = "secrets"
      <4>1. \A c \in Required(gl.does) : Proven(gl, w, c) \/ Due(gl.todo, c)
        BY <1>4, <2>5, <3>4, <3>6, WhatIsRequired
      <4> QED
        BY <1>5, <2>2, <4>1 DEF RightsOf, Owed
    <3> QED
      BY <2>5, <3>5, <3>6
  <2>6. fl.caller \in Users
    OBVIOUS
  <2> QED
    BY <2>4, <2>5, <2>6 DEF h
<1> QED
  BY <1>6, <1>7

\* Who has been entitled and passes a check is still.
LEMMA PassHonour ==
    ASSUME NEW s, NEW fl \in Requested, fl.todo # <<>>, Honoured(fl, s),
           NEW gl, Alike(fl, gl), gl.todo = Tail(fl.todo), gl.at \in {"act", "check"}, gl.node = fl.node \/ gl.node = "leader"
    PROVE  Honoured(gl, s)
<1>1. \A i \in 1..Len(gl.todo) : i + 1 \in 1..Len(fl.todo) /\ gl.todo[i] = fl.todo[i + 1]
  BY PartsOf, TakenAway
<1>2. \A i \in 1..Len(gl.todo) : Deserves(gl.caller, s, gl.todo[i])
  BY <1>1 DEF Honoured, Alike
<1> QED
  BY <1>2 DEF Honoured, Judging

\* The first check of who is entitled.
LEMMA FirstDeserved ==
    ASSUME NEW s, NEW fl \in Requested, fl.todo # <<>>, Honoured(fl, s)
    PROVE  Deserves(fl.caller, s, fl.todo[1])
<1>1. 1 \in 1..Len(fl.todo)
  BY PartsOf, TakenAway
<1> QED
  BY <1>1 DEF Honoured

\* A request is refused.
LEMMA RefusedFollows ==
    ASSUME NEW k, NEW w, NEW s, NEW fl \in Requested, fl.wait = "none", NEW gl, gl = A!Refused(fl)
    PROVE  Follows(fl, gl, k) /\ RightsOf(gl, w, s)
<1>1. Alike(fl, gl) /\ gl.wait = "none" /\ gl.todo = <<>> /\ gl.at = "refused"
  BY RefusedIs
<1>2. Staged(gl, k)
  BY <1>1 DEF Staged, Checking, Judging
<1> QED
  BY <1>1, <1>2 DEF Follows, RightsOf, Going

\* The capabilities of a caller, when they are what held lately.
Warrants(fl, w, caps) ==
    /\ caps \subseteq A!All
    /\ caps # {} => w.installed /\ (Manages(fl, w) \/ (w.member /\ caps \subseteq fl.could))
\* Capabilities that hold for who has the right prove a check.
LEMMA WarrantsProve ==
    ASSUME NEW fl, NEW w, NEW caps, Warrants(fl, w, caps), caps # {}
    PROVE  /\ Proven(fl, w, A!Team("any"))
           /\ \A cap \in caps : Proven(fl, w, A!Team(cap))
<1>1. \A cap : A!Team(cap).check = "caps" /\ A!Team(cap).cap = cap
  BY DEF A!Team
<1>2. "any" \notin caps
  BY DEF Warrants, A!All
<1> QED
  BY <1>1, <1>2 DEF Proven, Warrants

\* The capabilities decide.
LEMMA DecidedFollows ==
    ASSUME NEW k, NEW w, NEW s, NEW fl \in Requested, fl.at \in Judging, Staged(fl, k), fl.wait = "none", NEW caps,
           NEW gl, gl = A!Decided(fl, caps), FirstCheck(fl) \in {"caps", "reveal"} \/ caps = {}, Led(fl)
    PROVE  /\ Follows(fl, gl, k)
           /\ RightsOf(fl, w, s) /\ (fl.caller \in Users => Warrants(fl, w, caps)) => RightsOf(gl, w, s)
           /\ Honoured(fl, s) /\ s.caps \subseteq caps /\ FirstCheck(fl) # "manage" => Honoured(gl, s)
<1> DEFINE h == fl.todo[1]
<1>1. fl.todo # <<>> /\ fl.at \in Checking
  BY DEF Staged, Checking
<1>2. h \in Checked /\ Head(fl.todo) = h /\ Tail(fl.todo) \in Seq(Checked) /\ h.check = FirstCheck(fl)
  BY <1>1, PartsOf, TakenAway DEF FirstCheck
<1>3. h.check \in {"caps", "reveal", "manage", "member"} /\ h.check \notin OfMachines
  BY <1>2 DEF Staged, OfMachines
<1> HIDE DEF h
<1>4. CASE h.check = "reveal"
  <2> DEFINE d == IF h.cap \in caps THEN "secrets" ELSE "see"
             el == [fl EXCEPT !.does = d]
  <2>1. h = A!Reveal /\ h.cap = "configure"
    BY <1>2, <1>4, ByCheck
  <2>2. gl = A!Passed(el)
    BY <1>2, <1>4 DEF A!Decided, A!CheckOf
  <2>3. el \in Requested /\ Alike(fl, el) /\ el.todo = fl.todo /\ el.node = fl.node /\ el.does = d /\ el.wait = fl.wait
        /\ el.at = fl.at
    BY DEF Requested, Effects, Alike
  <2> HIDE DEF el, d
  <2>4. Alike(el, gl) /\ gl.node = fl.node /\ gl.does = d /\ gl.wait = fl.wait
        /\ gl.todo = Tail(fl.todo) /\ gl.at = IF Tail(fl.todo) = <<>> THEN "act" ELSE "check"
    BY <1>1, <2>2, <2>3, PassedIs
  <2>5. Alike(fl, gl) /\ d \in {"see", "secrets"}
    BY <2>3, <2>4 DEF Alike, d
  <2>6. Follows(fl, gl, k)
    BY <1>1, <2>1, <2>4, <2>5, PassFollows, ChecksDiffer DEF h
  <2>7. ASSUME RightsOf(fl, w, s), fl.caller \in Users => Warrants(fl, w, caps) PROVE RightsOf(gl, w, s)
    <3>1. fl.caller \in Users => Proven(fl, w, h)
      BY <1>4 DEF Proven
    <3>2. d = "secrets" => (fl.caller \in Users => Proven(fl, w, A!Team("configure")))
      BY <2>1, <2>7, WarrantsProve DEF d
    <3> QED
      BY <1>1, <1>3, <2>1, <2>4, <2>5, <2>7, <3>1, <3>2, PassRights DEF h
  <2>8. Honoured(fl, s) => Honoured(gl, s)
    BY <1>1, <2>4, <2>5, PassHonour
  <2> QED
    BY <2>6, <2>7, <2>8
<1>5. CASE h.check # "reveal"
  <2> DEFINE holds == IF h.cap = "any" THEN caps # {} ELSE h.cap \in caps
  <2>1. gl = IF holds THEN A!Passed(fl) ELSE A!Refused(fl)
    BY <1>2, <1>5 DEF A!Decided, A!CheckOf, A!PassedIf
  <2> HIDE DEF holds
  <2>2. h # A!Reveal /\ h # A!Leader
    BY <1>3, <1>5 DEF A!Reveal, A!Leader
  <2>3. CASE holds
    <3>1. Alike(fl, gl) /\ gl.node = fl.node /\ gl.does = fl.does /\ gl.wait = fl.wait
          /\ gl.todo = Tail(fl.todo) /\ gl.at = IF Tail(fl.todo) = <<>> THEN "act" ELSE "check"
      BY <1>1, <2>1, <2>3, PassedIs
    <3>2. Follows(fl, gl, k)
      BY <1>1, <2>2, <3>1, PassFollows DEF h
    <3>3. caps # {} /\ h.check = "caps"
      BY <1>2, <1>3, <1>5, <2>3, ByCheck DEF holds
    <3>4. h = A!Team(h.cap) /\ (h.cap = "any" \/ h.cap \in caps)
      BY <1>2, <2>3, <3>3, ByCheck DEF holds
    <3>5. ASSUME RightsOf(fl, w, s), fl.caller \in Users => Warrants(fl, w, caps) PROVE RightsOf(gl, w, s)
      <4>1. fl.caller \in Users => Proven(fl, w, h)
        BY <3>3, <3>4, <3>5, WarrantsProve
      <4> QED
        BY <1>1, <1>3, <2>2, <3>1, <3>5, <4>1, PassRights DEF h
    <3>6. Honoured(fl, s) => Honoured(gl, s)
      BY <1>1, <3>1, PassHonour
    <3> QED
      BY <3>2, <3>5, <3>6
  <2>4. CASE ~holds
    <3>1. gl = A!Refused(fl)
      BY <2>1, <2>4
    <3>2. Follows(fl, gl, k) /\ RightsOf(gl, w, s)
      BY <3>1, RefusedFollows
    <3>3. ASSUME Honoured(fl, s), s.caps \subseteq caps, FirstCheck(fl) # "manage" PROVE FALSE
      <4>1. Deserves(fl.caller, s, h)
        BY <1>1, <3>3, FirstDeserved DEF h
      <4>2. CASE h.check = "caps"
        BY <2>4, <3>3, <4>1, <4>2 DEF Deserves, holds
      <4>3. CASE h.check = "member"
        BY <1>2, <3>3, <4>1, <4>3 DEF Deserves
      <4> QED
        BY <1>2, <1>3, <1>5, <3>3, <4>2, <4>3
    <3> QED
      BY <3>2, <3>3
  <2> QED
    BY <2>3, <2>4
<1> QED
  BY <1>4, <1>5

\* Who is asked for any capability of the team.
LEMMA AsMemberFollows ==
    ASSUME NEW k, NEW w, NEW s, NEW fl \in Requested, fl.todo # <<>>, fl.at \in Checking, fl.wait = "none",
           fl.todo[1] = A!Member, NEW gl, gl = A!AsMember(fl), Led(fl)
    PROVE  /\ Follows(fl, gl, k)
           /\ RightsOf(fl, w, s) => RightsOf(gl, w, s)
           /\ Honoured(fl, s) => Honoured(gl, s)
<1> DEFINE t == Tail(fl.todo)
           any == A!Team("any")
<1>1. /\ Alike(fl, gl) /\ gl.node = fl.node /\ gl.does = fl.does /\ gl.wait = "none"
      /\ gl.todo = <<any>> \o t /\ gl.at = "check"
  BY AsMemberIs
<1>2. /\ t \in Seq(Checked) /\ any \in Checked
      /\ \A c : Has(fl.todo, c) <=> c = A!Member \/ Has(t, c)
      /\ Barred(fl.todo) <=> A!Member.check \in OfMachines \/ Barred(t)
      /\ \A i \in 1..Len(t) : i + 1 \in 1..Len(fl.todo) /\ t[i] = fl.todo[i + 1]
  BY PartsOf, TakenAway, ChecksAreChecked
<1>3. any.check = "caps" /\ any.cap = "any" /\ A!Member.check = "member" /\ any # A!Reveal /\ any # A!Leader
      /\ A!Member # A!Leader
  BY DEF A!Team, A!Member, A!Reveal, A!Leader
<1>4. /\ \A c : Has(gl.todo, c) <=> c = any \/ Has(t, c)
      /\ Barred(gl.todo) <=> Barred(t)
      /\ Barred(fl.todo) <=> Barred(t)
  <2> HIDE DEF t, any
  <2>1. any.check \notin OfMachines /\ A!Member.check \notin OfMachines
    BY <1>3 DEF OfMachines
  <2> QED
    BY <1>1, <1>2, <2>1, PutBefore
<1>5. gl.todo # <<>> /\ Len(gl.todo) = Len(t) + 1 /\ gl.todo[1] = any
      /\ \A i \in 2..Len(gl.todo) : i - 1 \in 1..Len(t) /\ gl.todo[i] = t[i - 1]
  <2> HIDE DEF t, any
  <2> QED
    BY <1>1, <1>2
<1> HIDE DEF t, any
<1>6. Follows(fl, gl, k)
  <2>1. Staged(gl, k)
    BY <1>1, <1>5 DEF Staged, Checking, Judging
  <2>2. Led(gl)
    BY <1>1, <1>2, <1>3, <1>4 DEF Led
  <2> QED
    BY <1>1, <2>1, <2>2 DEF Follows
<1>7. ASSUME RightsOf(fl, w, s), fl.caller \in Users PROVE RightsOf(gl, w, s)
  <2>1. Owed(fl, w) /\ Witnesses(fl, s)
    BY <1>7 DEF RightsOf, Going, Checking, Judging
  <2>2. Witnesses(gl, s) /\ Judged(gl, w)
    BY <1>1, <2>1 DEF Witnesses, Judged, Alike, Judging
  <2>3. \A c : Proven(gl, w, c) <=> Proven(fl, w, c)
    BY <1>1 DEF Proven, Manages, Alike
  <2>4. \A c : Due(fl.todo, c) => Due(gl.todo, c)
    BY <1>2, <1>4, ChecksDiffer DEF Due, any
  <2>5. Has(gl.todo, A!Reveal) => Has(fl.todo, A!Reveal)
    BY <1>2, <1>3, <1>4
  <2>6. Has(fl.todo, A!Team("view")) => Has(gl.todo, A!Team("view"))
    BY <1>2, <1>4 DEF A!Team, A!Member
  <2>7. Owed(gl, w)
    BY <1>1, <1>4, <2>1, <2>3, <2>4, <2>5, <2>6 DEF Owed
  <2> QED
    BY <2>2, <2>7 DEF RightsOf
<1>8. ASSUME Honoured(fl, s) PROVE Honoured(gl, s)
  <2>1. Deserves(fl.caller, s, A!Member)
    BY <1>8, FirstDeserved
  <2>2. Deserves(fl.caller, s, any)
    BY <1>3, <2>1 DEF Deserves, OfMachines
  <2>3. \A i \in 1..Len(t) : Deserves(fl.caller, s, t[i])
    BY <1>2, <1>8 DEF Honoured
  <2>4. \A i \in 1..Len(gl.todo) : Deserves(gl.caller, s, gl.todo[i])
    <3>1. \A i \in 1..Len(gl.todo) : i = 1 \/ i \in 2..Len(gl.todo)
      BY <1>1, <1>2, <1>5
    <3> QED
      BY <1>1, <1>5, <2>2, <2>3, <3>1 DEF Alike
  <2> QED
    BY <1>1, <1>8, <2>4 DEF Honoured, Judging
<1> QED
  BY <1>1, <1>6, <1>7, <1>8 DEF RightsOf, Alike

\* Somebody goes on to another stage of the same check.
LEMMA StagesFollow ==
    ASSUME NEW k, NEW fl \in Requested, fl.at \in Checking, fl.todo # <<>>, fl.wait = "none",
           NEW gl, Alike(fl, gl), gl.node = fl.node, gl.does = fl.does, gl.wait = "none", gl.todo = fl.todo,
           gl.at \in Judging, Staged(gl, k)
    PROVE  /\ Follows(fl, gl, k)
           /\ \A w, s : RightsOf(fl, w, s) /\ (fl.caller \in Users => Judged(gl, w)) => RightsOf(gl, w, s)
<1>1. gl.at \notin {"idle", "exists", "row", "refused"} /\ fl.at \notin {"idle", "refused"}
  BY DEF Judging, Checking
<1>2. Follows(fl, gl, k)
  BY <1>1 DEF Follows, Led
<1>3. ASSUME NEW w, NEW s, RightsOf(fl, w, s), fl.caller \in Users => Judged(gl, w) PROVE RightsOf(gl, w, s)
  <2>1. \A c : Proven(gl, w, c) <=> Proven(fl, w, c)
    BY DEF Proven, Manages, Alike
  <2> QED
    BY <1>1, <1>3, <2>1 DEF RightsOf, Going, Owed, Witnesses, Alike
<1> QED
  BY <1>2, <1>3

-----------------------------------------------------------------------------
(* What a list and the tables say.                                         *)

\* A list says what held lately, or is true.
Tells(fl, key, value, w) ==
    /\ key = "apps" /\ value # {} => w.installed
    /\ key = "members" /\ fl.caller \in value => w.member
    /\ key = "owners" /\ fl.caller \in value => w.owner
IsTrue(key, value, s) ==
    /\ key = "apps" => s.installed = (value # {})
    /\ key = "members" => value = s.members
    /\ key = "owners" => value = s.owners
\* What a user's standing is made of.
StandingOf(u, s, k) ==
    /\ s.caps \subseteq A!All
    /\ ~s.installed => s.caps = {}
    /\ ~s.admin /\ k = "user" => (s.owner <=> u = Login) /\ (~s.owner => s.caps = {})
    /\ ~s.admin /\ k = "org" =>
        /\ s.owner <=> u \in s.owners
        /\ u \notin s.members => s.caps = {}
        /\ u \in s.members \ s.owners =>
            s.caps \subseteq s.defaults \cup s.override \cup (IF s.defaults \cup s.override = {} THEN {} ELSE {"view"})

\* Goes on with what a list says.
LEMMA AfterFollows ==
    ASSUME NEW k, NEW w, NEW s, NEW fl \in Requested, Staged(fl, k), Led(fl),
           NEW key, key = Listing(fl), fl.at \in {"resolve", "check", "members", "owners"},
           fl.at = "check" => FirstCheck(fl) \in {"caps", "reveal", "manage", "member", "installed"},
           NEW value, NEW gl, gl = A!After(fl, key, value)
    PROVE  /\ Follows(fl, gl, k)
           /\ RightsOf(fl, w, s) /\ (fl.caller \in Users => Tells(fl, key, value, w)) => RightsOf(gl, w, s)
           /\ Honoured(fl, s) /\ IsTrue(key, value, s) /\ StandingOf(fl.caller, s, k) => Honoured(gl, s)
<1> DEFINE el == [fl EXCEPT !.wait = "none"]
           u == fl.caller
<1>1. /\ el \in Requested /\ Alike(fl, el) /\ el.todo = fl.todo /\ el.node = fl.node /\ el.does = fl.does /\ el.wait = "none"
      /\ el.at = fl.at /\ el.installed = fl.installed /\ el.defaults = fl.defaults
  BY DEF Requested, Alike
<1>2. A!CheckOf(fl) = FirstCheck(fl)
  BY PartsOf DEF A!CheckOf, FirstCheck
<1>3. gl = IF key = "apps"
           THEN IF fl.at = "resolve" THEN [el EXCEPT !.at = "resolved", !.installed = value # {}]
                ELSE IF FirstCheck(fl) = "installed" THEN A!PassedIf(el, value # {})
                ELSE [el EXCEPT !.at = "team", !.installed = value # {}]
           ELSE IF key = "members" THEN IF u \in value THEN [el EXCEPT !.at = "owners"] ELSE A!Decided(el, {})
           ELSE IF FirstCheck(fl) = "manage" THEN A!PassedIf(el, u \in value)
           ELSE IF FirstCheck(fl) = "member" THEN IF u \in value THEN A!Passed(el) ELSE A!AsMember(el)
           ELSE IF u \in value THEN A!Decided(el, A!All) ELSE [el EXCEPT !.at = "override"]
  BY <1>2 DEF A!After
<1> HIDE DEF el
<1>4. /\ Staged(el, k) /\ (Led(fl) => Led(el)) /\ FirstCheck(el) = FirstCheck(fl)
      /\ RightsOf(fl, w, s) => RightsOf(el, w, s)
      /\ Honoured(fl, s) => Honoured(el, s)
  <2>1. \A c : Proven(el, w, c) <=> Proven(fl, w, c)
    BY <1>1 DEF Proven, Manages, Alike
  <2>2. Staged(el, k) /\ (Led(fl) => Led(el)) /\ FirstCheck(el) = FirstCheck(fl)
    BY <1>1 DEF Staged, Led, FirstCheck
  <2>3. RightsOf(fl, w, s) => RightsOf(el, w, s)
    BY <1>1, <2>1 DEF RightsOf, Going, Owed, Witnesses, Judged, FirstCheck, Alike
  <2>4. Honoured(fl, s) => Honoured(el, s)
    BY <1>1 DEF Honoured, FirstCheck, Alike
  <2> QED
    BY <2>2, <2>3, <2>4
<1>5. \A hl : Follows(el, hl, k) => Follows(fl, hl, k)
  BY <1>1, <1>4 DEF Follows, Alike
<1>6. SUFFICES /\ Follows(el, gl, k)
               /\ RightsOf(el, w, s) /\ (u \in Users => Tells(fl, key, value, w)) => RightsOf(gl, w, s)
               /\ Honoured(el, s) /\ IsTrue(key, value, s) /\ StandingOf(u, s, k) => Honoured(gl, s)
  BY <1>4, <1>5
<1>7. CASE key = "apps" /\ fl.at = "resolve"
  <2>1. gl = [el EXCEPT !.at = "resolved", !.installed = value # {}]
    BY <1>3, <1>7
  <2>2. Alike(el, gl) /\ gl.node = el.node /\ gl.does = el.does /\ gl.wait = "none" /\ gl.todo = el.todo /\ gl.at = "resolved"
    <3>1. gl \in Requested
      BY <1>1, <2>1 DEF Requested, Places
    <3> QED
      BY <1>1, <2>1, <3>1 DEF Requested, Alike
  <2>3. gl.todo = <<>>
    BY <1>1, <1>7, <2>2 DEF Staged, Checking, Judging
  <2>4. Staged(gl, k)
    BY <2>2, <2>3 DEF Staged, Checking, Judging
  <2>5. Follows(el, gl, k)
    BY <1>1, <2>2, <2>4 DEF Follows, Led
  <2>6. \A c : Proven(el, w, c) <=> Proven(gl, w, c)
    BY <2>2 DEF Proven, Manages, Alike
  <2>7. RightsOf(el, w, s) => RightsOf(gl, w, s)
    BY <1>1, <1>7, <2>2, <2>6 DEF RightsOf, Going, Owed, Checking, Judging, Alike
  <2>8. Honoured(el, s) => Honoured(gl, s)
    BY <1>1, <1>7, <2>2 DEF Honoured, Judging, Alike
  <2> QED
    BY <2>5, <2>7, <2>8
<1>8. ASSUME fl.at # "resolve" PROVE fl.todo # <<>> /\ el.todo # <<>> /\ fl.at \in Checking /\ el.at \in Checking
      /\ el.todo[1] \in Checked /\ el.todo[1].check = FirstCheck(fl)
  <2>1. fl.at \in Checking
    BY <1>8 DEF Checking, Judging
  <2>2. fl.todo # <<>>
    BY <2>1 DEF Staged
  <2>3. el.todo[1] \in Checked
    BY <1>1, <2>2, PartsOf, TakenAway
  <2> QED
    BY <1>1, <2>1, <2>2, <2>3 DEF FirstCheck
<1>9. CASE key = "apps" /\ fl.at = "check" /\ FirstCheck(fl) = "installed"
  <2>1. gl = A!PassedIf(el, value # {})
    BY <1>3, <1>9
  <2>2. el.todo # <<>> /\ el.at \in Checking /\ el.todo[1].check = "installed" /\ el.todo[1] # A!Leader /\ el.todo[1] # A!Reveal
    BY <1>8, <1>9 DEF A!Leader, A!Reveal
  <2>3. CASE value # {}
    <3>1. Alike(el, gl) /\ gl.node = el.node /\ gl.does = el.does /\ gl.wait = "none"
          /\ gl.todo = Tail(el.todo) /\ gl.at = IF Tail(el.todo) = <<>> THEN "act" ELSE "check"
      BY <1>1, <2>1, <2>2, <2>3, PassedIs DEF A!PassedIf
    <3>2. Follows(el, gl, k)
      BY <1>1, <2>2, <3>1, PassFollows
    <3>3. Proven(el, w, el.todo[1]) /\ el.todo[1].check \notin OfMachines
      BY <2>2 DEF Proven, OfMachines
    <3>4. RightsOf(el, w, s) => RightsOf(gl, w, s)
      BY <1>1, <1>4, <2>2, <3>1, <3>3, PassRights
    <3>5. Honoured(el, s) => Honoured(gl, s)
      BY <1>1, <2>2, <3>1, PassHonour
    <3> QED
      BY <3>2, <3>4, <3>5
  <2>4. CASE value = {}
    <3>1. gl = A!Refused(el)
      BY <2>1, <2>4 DEF A!PassedIf
    <3>2. Follows(el, gl, k) /\ RightsOf(gl, w, s)
      BY <1>1, <3>1, RefusedFollows
    <3>3. ~(Honoured(el, s) /\ IsTrue(key, value, s))
      BY <1>1, <1>9, <2>2, <2>4, FirstDeserved DEF IsTrue, Deserves
    <3> QED
      BY <3>2, <3>3
  <2> QED
    BY <2>3, <2>4
<1>10. CASE key = "apps" /\ fl.at = "check" /\ FirstCheck(fl) # "installed"
  <2>1. gl = [el EXCEPT !.at = "team", !.installed = value # {}]
    BY <1>3, <1>10
  <2>2. Alike(el, gl) /\ gl.node = el.node /\ gl.does = el.does /\ gl.wait = "none" /\ gl.todo = el.todo /\ gl.at = "team"
        /\ gl.installed = (value # {})
    <3>1. gl \in Requested
      BY <1>1, <2>1 DEF Requested, Places, Checking, Judging
    <3> QED
      BY <1>1, <2>1, <3>1 DEF Requested, Alike
  <2>3. el.todo # <<>> /\ el.at \in Checking /\ gl.at \in Judging /\ FirstCheck(gl) = FirstCheck(fl)
    BY <1>1, <1>8, <1>10, <2>2 DEF Judging, FirstCheck
  <2>4. Staged(gl, k)
    BY <1>10, <2>2, <2>3 DEF Staged, Checking
  <2>5. fl.caller \in Users /\ Tells(fl, key, value, w) => Judged(gl, w)
    BY <1>10, <2>2 DEF Judged, Tells, Judging
  <2>6. Honoured(el, s) /\ IsTrue(key, value, s) => Honoured(gl, s)
    BY <1>10, <2>2 DEF Honoured, IsTrue, Alike, Judging
  <2> QED
    BY <1>1, <2>2, <2>3, <2>4, <2>5, <2>6, StagesFollow DEF Alike
<1>11. CASE key = "members"
  <2>1. fl.at = "members" /\ el.at = "members" /\ el.at \in Judging
    BY <1>1, <1>11 DEF Listing, Judging
  <2>2. FirstCheck(el) \in {"caps", "reveal"} /\ k = "org" /\ el.installed
    BY <1>4, <2>1 DEF Staged
  <2>3. CASE u \in value
    <3>1. gl = [el EXCEPT !.at = "owners"]
      BY <1>3, <1>11, <2>3
    <3>2. Alike(el, gl) /\ gl.node = el.node /\ gl.does = el.does /\ gl.wait = "none" /\ gl.todo = el.todo /\ gl.at = "owners"
          /\ gl.installed = el.installed /\ gl.defaults = el.defaults
      <4>1. gl \in Requested
        BY <1>1, <3>1 DEF Requested, Places, Checking, Judging
      <4> QED
        BY <1>1, <3>1, <4>1 DEF Requested, Alike
    <3>3. el.todo # <<>> /\ el.at \in Checking /\ gl.at \in Judging /\ FirstCheck(gl) = FirstCheck(el)
      BY <1>1, <1>8, <2>1, <3>2 DEF Judging, FirstCheck
    <3>4. Staged(gl, k)
      BY <2>2, <3>2, <3>3 DEF Staged, Checking
    <3>5. RightsOf(el, w, s) /\ (u \in Users => Tells(fl, key, value, w)) => (u \in Users => Judged(gl, w))
      BY <1>1, <1>11, <2>1, <2>3, <3>2, <3>3 DEF RightsOf, Going, Judged, Tells, Judging, Alike
    <3>6. Honoured(el, s) /\ IsTrue(key, value, s) => Honoured(gl, s)
      BY <1>1, <1>11, <2>1, <2>3, <3>2, <3>3 DEF Honoured, IsTrue, Alike, Judging
    <3> QED
      BY <1>1, <3>2, <3>3, <3>4, <3>5, <3>6, StagesFollow DEF Alike
  <2>4. CASE u \notin value
    <3>1. gl = A!Decided(el, {})
      BY <1>3, <1>11, <2>4
    <3>2. Warrants(el, w, {})
      BY DEF Warrants
    <3>3. Honoured(el, s) /\ IsTrue(key, value, s) /\ StandingOf(u, s, k) => s.caps = {} /\ FirstCheck(el) # "manage"
      BY <1>11, <2>1, <2>2, <2>4 DEF Honoured, IsTrue, StandingOf
    <3> QED
      BY <1>1, <1>4, <2>1, <3>1, <3>2, <3>3, DecidedFollows
  <2> QED
    BY <2>3, <2>4
<1>12. CASE key = "owners"
  <2>1. fl.at = "owners" /\ el.at = "owners" /\ el.at \in Judging
    BY <1>1, <1>12 DEF Listing, Judging
  <2>2. FirstCheck(el) \in {"caps", "reveal", "manage", "member"} /\ k = "org" /\ el.installed
    BY <1>4, <2>1 DEF Staged
  <2>3. el.todo # <<>> /\ el.at \in Checking /\ el.todo[1].check = FirstCheck(el) /\ el.todo[1] \in Checked
    BY <1>4, <1>8, <2>1
  <2>4. RightsOf(el, w, s) /\ u \in Users => w.installed /\ Covers(el.could, el.defaults)
        /\ (FirstCheck(el) \in {"caps", "reveal"} => w.member)
    BY <1>1, <2>1, <2>2 DEF RightsOf, Going, Judged, Judging, Alike, Checking
  <2>5. CASE FirstCheck(el) \in {"manage", "member"} /\ u \in value
    <3>1. gl = A!Passed(el)
      BY <1>3, <1>4, <1>12, <2>5 DEF A!PassedIf
    <3>2. Alike(el, gl) /\ gl.node = el.node /\ gl.does = el.does /\ gl.wait = "none"
          /\ gl.todo = Tail(el.todo) /\ gl.at = IF Tail(el.todo) = <<>> THEN "act" ELSE "check"
      BY <1>1, <2>3, <3>1, PassedIs
    <3>3. el.todo[1] # A!Leader /\ el.todo[1] # A!Reveal /\ el.todo[1].check \notin OfMachines
      BY <2>3, <2>5 DEF A!Leader, A!Reveal, OfMachines
    <3>4. Follows(el, gl, k)
      BY <1>1, <2>3, <3>2, <3>3, PassFollows
    <3>5. RightsOf(el, w, s) /\ u \in Users /\ Tells(fl, key, value, w) => Proven(el, w, el.todo[1])
      BY <1>12, <2>3, <2>4, <2>5 DEF Tells, Proven, Manages
    <3>6. RightsOf(el, w, s) /\ (u \in Users => Tells(fl, key, value, w)) => RightsOf(gl, w, s)
      BY <1>1, <1>4, <2>3, <3>2, <3>3, <3>5, PassRights DEF Alike
    <3>7. Honoured(el, s) => Honoured(gl, s)
      BY <1>1, <2>3, <3>2, PassHonour
    <3> QED
      BY <3>4, <3>6, <3>7
  <2>6. CASE FirstCheck(el) = "manage" /\ u \notin value
    <3>1. gl = A!Refused(el)
      BY <1>3, <1>4, <1>12, <2>6 DEF A!PassedIf
    <3>2. Follows(el, gl, k) /\ RightsOf(gl, w, s)
      BY <1>1, <3>1, RefusedFollows
    <3>3. Honoured(el, s) => ~s.admin /\ Deserves(el.caller, s, el.todo[1])
      BY <2>1, <2>3, <1>1, FirstDeserved DEF Honoured
    <3>4. ~(Honoured(el, s) /\ IsTrue(key, value, s) /\ StandingOf(u, s, k))
      BY <1>12, <2>2, <2>3, <2>6, <3>3 DEF IsTrue, StandingOf, Deserves
    <3> QED
      BY <3>2, <3>4
  <2>7. CASE FirstCheck(el) = "member" /\ u \notin value
    <3>1. gl = A!AsMember(el)
      BY <1>3, <1>4, <1>12, <2>7
    <3>2. el.todo[1] = A!Member
      BY <2>3, <2>7, ByCheck
    <3> QED
      BY <1>1, <1>4, <2>3, <3>1, <3>2, AsMemberFollows
  <2>8. CASE FirstCheck(el) \in {"caps", "reveal"} /\ u \in value
    <3>1. gl = A!Decided(el, A!All)
      BY <1>3, <1>4, <1>12, <2>8
    <3>2. RightsOf(el, w, s) /\ u \in Users /\ Tells(fl, key, value, w) => Warrants(el, w, A!All)
      BY <1>12, <2>4, <2>8 DEF Tells, Warrants, Manages
    <3>3. StandingOf(u, s, k) => s.caps \subseteq A!All
      BY DEF StandingOf
    <3> QED
      BY <1>1, <1>4, <2>1, <2>8, <3>1, <3>2, <3>3, DecidedFollows DEF Alike
  <2>9. CASE FirstCheck(el) \in {"caps", "reveal"} /\ u \notin value
    <3>1. gl = [el EXCEPT !.at = "override"]
      BY <1>3, <1>4, <1>12, <2>9
    <3>2. Alike(el, gl) /\ gl.node = el.node /\ gl.does = el.does /\ gl.wait = "none" /\ gl.todo = el.todo /\ gl.at = "override"
          /\ gl.installed = el.installed /\ gl.defaults = el.defaults
      <4>1. gl \in Requested
        BY <1>1, <3>1 DEF Requested, Places, Checking, Judging
      <4> QED
        BY <1>1, <3>1, <4>1 DEF Requested, Alike
    <3>3. gl.at \in Judging /\ FirstCheck(gl) = FirstCheck(el)
      BY <3>2 DEF Judging, FirstCheck
    <3>4. Staged(gl, k)
      BY <2>2, <2>3, <2>9, <3>2, <3>3 DEF Staged, Checking
    <3>5. RightsOf(el, w, s) /\ u \in Users => Judged(gl, w)
      BY <1>1, <2>4, <2>9, <3>2, <3>3 DEF Judged, Alike
    <3>6. Honoured(el, s) /\ IsTrue(key, value, s) => Honoured(gl, s)
      BY <1>1, <1>12, <2>1, <2>9, <3>2, <3>3 DEF Honoured, IsTrue, Alike, Judging
    <3> QED
      BY <1>1, <2>3, <3>2, <3>3, <3>4, <3>5, <3>6, StagesFollow DEF Alike
  <2> QED
    BY <2>2, <2>5, <2>6, <2>7, <2>8, <2>9
<1> QED
  BY <1>7, <1>9, <1>10, <1>11, <1>12 DEF Listing

\* What the parameters are assumed to be.
LEMMA RightsParameters ==
    /\ TTL \in Nat \ {0} /\ AccessTime \in Nat /\ TTL <= AccessTime
    /\ Users \cap Machine = {} /\ Supers \subseteq Users
    /\ Grants \subseteq SUBSET A!All
    /\ \A u \in Users \cup Machine, how \in A!Requests : Asked[u][how] \subseteq A!Programs
    /\ Starts \subseteq [kind : {"org", "user"}, caps : SUBSET A!All, admins : SUBSET Users, warm : BOOLEAN,
                       github : [installed : BOOLEAN, members : SUBSET Users, owners : SUBSET Users]]
    /\ \A start \in Starts : start.github.owners \subseteq start.github.members
BY RightsAssumption DEF A!AccessAssumption

\* Every caller has a standing.
LEMMA StandingIs ==
    ASSUME AccessTyped, NEW u
    PROVE  StandingOf(u, Standing(u), kind)
<1> DEFINE s == Standing(u)
<1>1. /\ s.admin = A!IsAdmin(u) /\ s.owner = A!Owns(u) /\ s.caps = A!TrueCaps(u)
      /\ s.installed = github.installed /\ s.members = github.members /\ s.owners = github.owners
      /\ s.defaults = config.caps /\ s.override = IF u \in Users THEN override[u] ELSE {}
  BY DEF Standing
<1>2. /\ kind \in {"org", "user"} /\ github.members \subseteq Users /\ config.caps \subseteq A!All
      /\ \A v \in Users : override[v] \subseteq A!All
  BY DEF AccessTyped, AtGithub
<1> HIDE DEF s
<1>3. u \in Users => A!Granted(u, config.caps) =
        config.caps \cup override[u] \cup (IF config.caps \cup override[u] = {} THEN {} ELSE {"view"})
  BY DEF A!Granted
<1>4. "view" \in A!All
  BY DEF A!All
<1>5. s.caps \subseteq A!All
  BY <1>1, <1>2, <1>3, <1>4 DEF A!TrueCaps
<1>6. ~s.installed => s.caps = {}
  BY <1>1 DEF A!TrueCaps
<1>7. ~s.admin /\ kind = "user" => (s.owner <=> u = Login) /\ (~s.owner => s.caps = {})
  BY <1>1 DEF A!TrueCaps, A!Owns
<1>8. ASSUME ~s.admin, kind = "org"
      PROVE  /\ s.owner <=> u \in s.owners
             /\ u \notin s.members => (s.owner \/ s.caps = {})
             /\ u \in s.members \ s.owners =>
                    s.caps \subseteq s.defaults \cup s.override \cup (IF s.defaults \cup s.override = {} THEN {} ELSE {"view"})
  BY <1>1, <1>2, <1>3, <1>8 DEF A!TrueCaps, A!Owns
<1>9. s.owners \subseteq s.members
  BY <1>1 DEF AccessTyped
<1> QED
  BY <1>5, <1>6, <1>7, <1>8, <1>9 DEF StandingOf, s

\* The team is resolved.
LEMMA TeamFollows ==
    ASSUME AccessTyped, NEW w, NEW fl \in Requested, fl.at = "team", Staged(fl, kind), Led(fl), fl.wait = "none",
           NEW s, s = Standing(fl.caller), NEW gl, gl = A!TeamStep(fl)
    PROVE  /\ Follows(fl, gl, kind)
           /\ RightsOf(fl, w, s) => RightsOf(gl, w, s)
           /\ Honoured(fl, s) => Honoured(gl, s)
<1>1. fl.at \in Judging /\ fl.at \in Checking /\ fl.todo # <<>> /\ FirstCheck(fl) \in {"caps", "reveal", "manage", "member"}
  BY DEF Staged, Checking, Judging
<1>2. A!CheckOf(fl) = FirstCheck(fl) /\ fl.installed \in BOOLEAN
  BY PartsOf DEF A!CheckOf, FirstCheck
<1>3. CASE ~fl.installed /\ (FirstCheck(fl) # "member" \/ ~config.exists)
  <2>1. [fl EXCEPT !.installed = FALSE] = fl
    BY <1>2, <1>3 DEF Requested
  <2>2. gl = A!Decided(fl, {})
    BY <1>1, <1>2, <1>3, <2>1 DEF A!TeamStep
  <2>3. Honoured(fl, s) => ~s.installed /\ Deserves(fl.caller, s, fl.todo[1])
    BY <1>1, <1>3, FirstDeserved DEF Honoured
  <2>4. Honoured(fl, s) => s.caps = {} /\ FirstCheck(fl) # "manage"
    BY <2>3, StandingIs DEF StandingOf, Deserves, FirstCheck
  <2>5. Warrants(fl, w, {})
    BY DEF Warrants
  <2> QED
    BY <1>1, <2>2, <2>4, <2>5, DecidedFollows
<1>4. CASE fl.installed \/ (FirstCheck(fl) = "member" /\ config.exists)
  <2>1. gl = [fl EXCEPT !.at = "admin", !.defaults = config.caps]
    BY <1>2, <1>4 DEF A!TeamStep
  <2>2. Alike(fl, gl) /\ gl.node = fl.node /\ gl.does = fl.does /\ gl.wait = "none" /\ gl.todo = fl.todo /\ gl.at = "admin"
        /\ gl.installed = fl.installed /\ gl.defaults = config.caps
    <3>1. config.caps \in SUBSET A!All
      BY DEF AccessTyped
    <3>2. gl \in Requested
      BY <2>1, <3>1 DEF Requested, Places, Checking, Judging
    <3> QED
      BY <2>1, <3>2 DEF Requested, Alike
  <2>3. gl.at \in Judging /\ FirstCheck(gl) = FirstCheck(fl)
    BY <2>2 DEF Judging, FirstCheck
  <2>4. Staged(gl, kind)
    BY <1>1, <1>4, <2>2, <2>3 DEF Staged, Checking
  <2>5. s.defaults = config.caps
    BY DEF Standing
  <2>6. RightsOf(fl, w, s) /\ fl.caller \in Users => Judged(gl, w)
    <3>1. RightsOf(fl, w, s) /\ fl.caller \in Users => Covers(fl.could, s.defaults \cup s.override) /\ (fl.installed => w.installed)
      BY <1>1 DEF RightsOf, Going, Witnesses, Judged
    <3>2. Covers(fl.could, s.defaults \cup s.override) => Covers(fl.could, s.defaults)
      BY DEF Covers
    <3> QED
      BY <2>2, <2>5, <3>1, <3>2 DEF Judged, Alike
  <2>7. Honoured(fl, s) => Honoured(gl, s)
    BY <1>1, <2>2, <2>5 DEF Honoured, Alike
  <2> QED
    BY <1>1, <2>2, <2>3, <2>4, <2>6, <2>7, StagesFollow
<1> QED
  BY <1>1, <1>2, <1>3, <1>4

\* Administrators and owners of an account of their own have every capability.
LEMMA AdminFollows ==
    ASSUME AccessTyped, NEW w, NEW fl \in Requested, fl.at = "admin", Staged(fl, kind), Led(fl), fl.wait = "none",
           kind = "user" /\ fl.caller = Login => w.owner,
           NEW s, s = Standing(fl.caller), NEW gl, gl = A!AdminStep(fl)
    PROVE  /\ Follows(fl, gl, kind)
           /\ RightsOf(fl, w, s) => RightsOf(gl, w, s)
           /\ Honoured(fl, s) => Honoured(gl, s)
<1> DEFINE caps == FirstCheck(fl) \in {"caps", "reveal"}
           owner == fl.caller = Login
<1>1. /\ fl.at \in Judging /\ fl.at \in Checking /\ fl.todo # <<>> /\ FirstCheck(fl) \in {"caps", "reveal", "manage", "member"}
      /\ ~fl.installed => FirstCheck(fl) = "member"
  BY DEF Staged, Checking, Judging
<1>2. A!CheckOf(fl) = FirstCheck(fl) /\ fl.installed \in BOOLEAN /\ fl.todo[1] \in Checked /\ fl.todo[1].check = FirstCheck(fl)
  BY <1>1, PartsOf, TakenAway DEF A!CheckOf, FirstCheck
<1>3. gl = IF A!IsAdmin(fl.caller) THEN IF caps THEN A!Decided(fl, A!All) ELSE A!Passed(fl)
           ELSE IF kind = "user" THEN
               IF caps THEN A!Decided(fl, IF owner THEN A!All ELSE {}) ELSE A!PassedIf(fl, owner /\ fl.installed)
           ELSE IF caps THEN [fl EXCEPT !.at = "members"]
           ELSE IF fl.installed THEN [fl EXCEPT !.at = "owners"] ELSE A!Refused(fl)
  BY <1>2 DEF A!AdminStep
<1>4. s.admin = A!IsAdmin(fl.caller) /\ StandingOf(fl.caller, s, kind)
  BY StandingIs DEF Standing
<1>5. RightsOf(fl, w, s) /\ fl.caller \in Users =>
        (fl.installed => w.installed) /\ (s.admin => fl.wasAdmin) /\ Covers(fl.could, fl.defaults)
  BY <1>1 DEF RightsOf, Going, Witnesses, Judged, Judging
<1>6. Honoured(fl, s) => fl.installed = s.installed /\ fl.defaults = s.defaults /\ Deserves(fl.caller, s, fl.todo[1])
  BY <1>1, FirstDeserved DEF Honoured, Judging
<1>7. s.caps \subseteq A!All
  BY <1>4 DEF StandingOf
<1>8. ASSUME ~caps, NEW hl, hl = A!Passed(fl), RightsOf(fl, w, s) /\ fl.caller \in Users => Manages(fl, w)
      PROVE  /\ Follows(fl, hl, kind)
             /\ RightsOf(fl, w, s) => RightsOf(hl, w, s)
             /\ Honoured(fl, s) => Honoured(hl, s)
  <2>1. Alike(fl, hl) /\ hl.node = fl.node /\ hl.does = fl.does /\ hl.wait = "none"
        /\ hl.todo = Tail(fl.todo) /\ hl.at = IF Tail(fl.todo) = <<>> THEN "act" ELSE "check"
    BY <1>1, <1>8, PassedIs
  <2>2. fl.todo[1] # A!Leader /\ fl.todo[1] # A!Reveal /\ fl.todo[1].check \notin OfMachines
    BY <1>1, <1>2, <1>8 DEF A!Leader, A!Reveal, OfMachines
  <2>3. Follows(fl, hl, kind)
    BY <1>1, <2>1, <2>2, PassFollows
  <2>4. RightsOf(fl, w, s) /\ fl.caller \in Users => Proven(fl, w, fl.todo[1])
    BY <1>1, <1>2, <1>5, <1>8 DEF Proven
  <2>5. RightsOf(fl, w, s) => RightsOf(hl, w, s)
    BY <1>1, <2>1, <2>2, <2>4, PassRights
  <2>6. Honoured(fl, s) => Honoured(hl, s)
    BY <1>1, <2>1, PassHonour
  <2> QED
    BY <2>3, <2>5, <2>6
<1>9. CASE s.admin
  <2>1. CASE caps
    <3>1. gl = A!Decided(fl, A!All)
      BY <1>3, <1>4, <1>9, <2>1
    <3>2. RightsOf(fl, w, s) /\ fl.caller \in Users => Warrants(fl, w, A!All)
      BY <1>1, <1>5, <1>9, <2>1 DEF Warrants, Manages
    <3> QED
      BY <1>1, <1>7, <2>1, <3>1, <3>2, DecidedFollows
  <2>2. CASE ~caps
    <3>1. gl = A!Passed(fl)
      BY <1>3, <1>4, <1>9, <2>2
    <3> HIDE DEF caps
    <3> QED
      BY <1>5, <1>8, <1>9, <2>2, <3>1 DEF Manages
  <2> QED
    BY <2>1, <2>2
<1>10. CASE ~s.admin /\ kind = "user"
  <2>1. CASE caps
    <3>1. gl = A!Decided(fl, IF owner THEN A!All ELSE {})
      BY <1>3, <1>4, <1>10, <2>1
    <3>2. RightsOf(fl, w, s) /\ fl.caller \in Users => Warrants(fl, w, IF owner THEN A!All ELSE {})
      BY <1>1, <1>5, <1>10, <2>1 DEF Warrants, Manages
    <3>3. s.caps \subseteq IF owner THEN A!All ELSE {}
      BY <1>4, <1>7, <1>10 DEF StandingOf
    <3> QED
      BY <1>1, <2>1, <3>1, <3>2, <3>3, DecidedFollows
  <2>2. CASE ~caps /\ owner /\ fl.installed
    <3>1. gl = A!Passed(fl)
      BY <1>3, <1>4, <1>10, <2>2 DEF A!PassedIf
    <3>2. Manages(fl, w)
      BY <1>10, <2>2 DEF Manages
    <3> HIDE DEF caps
    <3> QED
      BY <1>8, <2>2, <3>1, <3>2
  <2>3. CASE ~caps /\ ~(owner /\ fl.installed)
    <3>1. gl = A!Refused(fl)
      BY <1>3, <1>4, <1>10, <2>3 DEF A!PassedIf
    <3>2. Follows(fl, gl, kind) /\ RightsOf(gl, w, s)
      BY <3>1, RefusedFollows
    <3>3. ~Honoured(fl, s)
      BY <1>1, <1>2, <1>4, <1>6, <1>10, <2>3 DEF Deserves, StandingOf
    <3> QED
      BY <3>2, <3>3
  <2> QED
    BY <2>1, <2>2, <2>3
<1>11. CASE ~s.admin /\ kind = "org" /\ (caps \/ fl.installed)
  <2> DEFINE place == IF caps THEN "members" ELSE "owners"
  <2>1. gl = [fl EXCEPT !.at = place]
    BY <1>3, <1>4, <1>11
  <2>2. Alike(fl, gl) /\ gl.node = fl.node /\ gl.does = fl.does /\ gl.wait = "none" /\ gl.todo = fl.todo /\ gl.at = place
        /\ gl.installed = fl.installed /\ gl.defaults = fl.defaults
    <3>1. gl \in Requested
      BY <2>1 DEF Requested, Places, Checking, Judging
    <3> QED
      BY <2>1, <3>1 DEF Requested, Alike
  <2>3. gl.at \in Judging /\ FirstCheck(gl) = FirstCheck(fl)
    BY <2>2 DEF Judging, FirstCheck
  <2>4. Staged(gl, kind)
    BY <1>1, <1>11, <2>2, <2>3 DEF Staged, Checking
  <2>5. RightsOf(fl, w, s) /\ fl.caller \in Users => Judged(gl, w)
    BY <1>5, <1>11, <2>2, <2>3 DEF Judged, Alike
  <2>6. Honoured(fl, s) => Honoured(gl, s)
    BY <1>6, <1>11, <2>2, <2>3 DEF Honoured, Alike
  <2> QED
    BY <1>1, <2>2, <2>3, <2>4, <2>5, <2>6, StagesFollow
<1>12. CASE ~s.admin /\ kind = "org" /\ ~(caps \/ fl.installed)
  <2>1. gl = A!Refused(fl)
    BY <1>3, <1>4, <1>12
  <2>2. Follows(fl, gl, kind) /\ RightsOf(gl, w, s)
    BY <2>1, RefusedFollows
  <2>3. ~Honoured(fl, s)
    BY <1>1, <1>2, <1>4, <1>6, <1>12 DEF Deserves, StandingOf
  <2> QED
    BY <2>2, <2>3
<1> QED
  BY <1>9, <1>10, <1>11, <1>12 DEF AccessTyped

\* What the tables grant decides.
LEMMA OverrideFollows ==
    ASSUME AccessTyped, NEW w, NEW fl \in Requested, fl.at = "override", Staged(fl, kind), Led(fl), fl.wait = "none",
           NEW s, s = Standing(fl.caller), NEW gl, gl = A!Decided(fl, A!Granted(fl.caller, fl.defaults))
    PROVE  /\ Follows(fl, gl, kind)
           /\ RightsOf(fl, w, s) => RightsOf(gl, w, s)
           /\ Honoured(fl, s) => Honoured(gl, s)
<1> DEFINE caps == A!Granted(fl.caller, fl.defaults)
           granted == fl.defaults \cup s.override
<1>1. fl.at \in Judging /\ fl.at \in Checking /\ FirstCheck(fl) \in {"caps", "reveal"} /\ kind = "org" /\ fl.installed
  BY DEF Staged, Checking, Judging
<1>2. fl.caller \in Users => caps = granted \cup (IF granted = {} THEN {} ELSE {"view"})
  BY DEF A!Granted, Standing
<1>3. fl.caller \in Users => granted \subseteq A!All
  BY PartsOf DEF Standing, AccessTyped
<1>4. StandingOf(fl.caller, s, kind) /\ s.members \subseteq Users
  BY StandingIs DEF Standing, AccessTyped, AtGithub
<1> HIDE DEF caps
<1>5. ASSUME RightsOf(fl, w, s), fl.caller \in Users PROVE Warrants(fl, w, caps)
  <2>1. w.installed /\ w.member /\ Covers(fl.could, fl.defaults) /\ Covers(fl.could, s.defaults \cup s.override)
    BY <1>1, <1>5 DEF RightsOf, Going, Judged, Witnesses, Judging
  <2>2. caps \subseteq fl.could
    BY <1>2, <1>5, <2>1 DEF Covers
  <2>3. caps \subseteq A!All
    BY <1>2, <1>3, <1>5 DEF A!All
  <2> QED
    BY <2>1, <2>2, <2>3 DEF Warrants
<1>6. Honoured(fl, s) => s.caps \subseteq caps
  <2>1. Honoured(fl, s) => fl.defaults = s.defaults /\ ~s.admin /\ fl.caller \in s.members \ s.owners
    BY <1>1 DEF Honoured
  <2> QED
    BY <1>1, <1>2, <1>4, <2>1 DEF StandingOf
<1> QED
  BY <1>1, <1>5, <1>6, DecidedFollows DEF caps

-----------------------------------------------------------------------------
(* A request takes a step.                                                 *)

\* Counting events keeps the counts natural numbers, and counts those named.
LEMMA AccessEvents ==
    ASSUME aUsed \in [A!Kinds -> Nat], NEW kinds \in SUBSET A!Kinds, A!Uses(kinds)
    PROVE  /\ aUsed' \in [A!Kinds -> Nat]
           /\ \A k \in kinds : aUsed'[k] > 0
           /\ \A k \in A!Kinds : aUsed'[k] = 0 => aUsed[k] = 0
<1>1. aUsed' = [k \in A!Kinds |-> aUsed[k] + (IF k \in kinds THEN 1 ELSE 0)]
  BY DEF A!Uses
<1> QED
  BY <1>1

\* What has happened stays so.
Calmer ==
    /\ aUsed' \in [A!Kinds -> Nat]
    /\ \A k \in A!Kinds : aUsed'[k] = 0 => aUsed[k] = 0
\* What has not happened after a step had not before it.
LEMMA WhatHasHappened ==
    ASSUME Calmer
    PROVE  /\ ~(Around.slow)' => ~Around.slow
           /\ ~(Around.stale)' => ~Around.stale /\ ~(Around.slow)'
           /\ ~(Around.refused)' => ~Around.refused /\ ~(Around.slow)'
           /\ ~(Around.overlap)' => ~Around.overlap
<1>1. {"outage", "slow", "unlisted", "follower", "overlap"} \subseteq A!Kinds
  BY DEF A!Kinds
<1> QED
  BY <1>1 DEF Calmer, Around, A!Never

\* A step that counts no event is calm.
LEMMA NothingHappens == ASSUME AccessTyped, UNCHANGED aUsed PROVE Calmer
BY DEF Calmer, AccessTyped

\* What an outsider sees of the requests.
LEMMA AroundIs ==
    /\ Around.now = now /\ Around.kind = kind /\ Around.aged = (now - changed >= TTL)
    /\ ~Around.stale => ~Around.slow
    /\ ~Around.refused => ~Around.slow
BY DEF Around, A!Never

\* The lists that GitHub would give.
LEMMA TruthIsListed ==
    ASSUME AccessTyped, NEW key \in A!Keys
    PROVE  /\ A!Truth(key) \in Lists
           /\ \A u \in A!Truth(key) : HeldAt(key, u, now)
           /\ \A u : IsTrue(key, A!Truth(key), Standing(u))
<1>1. key \in {"apps", "members", "owners"}
  BY DEF A!Keys
<1>2. github.members \subseteq Users /\ github.owners \subseteq Users /\ github.installed \in BOOLEAN
  BY DEF AccessTyped, AtGithub
<1>3. CASE key = "apps"
  <2>1. A!Truth(key) = IF github.installed THEN {"owner"} ELSE {}
    BY <1>3 DEF A!Truth
  <2> QED
    BY <1>2, <1>3, <2>1 DEF Lists, HeldAt, IsTrue, Standing
<1>4. CASE key = "members"
  BY <1>2, <1>4 DEF A!Truth, Lists, HeldAt, IsTrue, Standing
<1>5. CASE key = "owners"
  BY <1>2, <1>5 DEF A!Truth, Lists, HeldAt, IsTrue, Standing
<1> QED
  BY <1>1, <1>3, <1>4, <1>5

\* The world does not change: what held lately and the standing of a user are the same.
LEMMA WorldStays ==
    ASSUME UNCHANGED <<kind, github, until, config, override, admins, sessions>>
    PROVE  /\ \A u, t : Lately(u, t)' = Lately(u, t)
           /\ \A u : Standing(u)' = Standing(u)
           /\ \A k : A!Truth(k)' = A!Truth(k)
           /\ \A k, u, t : HeldAt(k, u, t)' = HeldAt(k, u, t)
<1>1. \A u, t : Lately(u, t)' = Lately(u, t)
  BY DEF Lately
<1>2. \A u : A!IsAdmin(u)' = A!IsAdmin(u) /\ A!Owns(u)' = A!Owns(u)
  BY DEF A!IsAdmin, A!Owns
<1>3. \A u, d : A!Granted(u, d)' = A!Granted(u, d)
  BY DEF A!Granted
<1>4. \A u : A!TrueCaps(u)' = A!TrueCaps(u)
  <2> TAKE u
  <2>1. A!Granted(u, config.caps)' = A!Granted(u, config.caps)
    BY DEF A!Granted
  <2> QED
    BY <1>2, <2>1 DEF A!TrueCaps
<1>5. \A u : Standing(u)' = Standing(u)
  BY <1>2, <1>4 DEF Standing
<1>6. \A k : A!Truth(k)' = A!Truth(k)
  BY DEF A!Truth
<1>7. \A k, u, t : HeldAt(k, u, t)' = HeldAt(k, u, t)
  BY DEF HeldAt
<1> QED
  BY <1>1, <1>5, <1>6, <1>7

\* A request that is right moves to be another that is.
LEMMA RequestMoves ==
    ASSUME AccessInv, NEW f \in Flows, NEW gl \in Requested, aFlow' = [aFlow EXCEPT ![f] = gl], aFlow[f].wait = "none",
           UNCHANGED <<now, kind, github, until, changed, cache, config, override, admins, sessions, aAsked>>, Calmer,
           \/ UNCHANGED inflight
           \/ \E key \in A!Keys :
                /\ gl.wait = key
                /\ inflight' = [inflight EXCEPT ![key] = [busy |-> TRUE, value |-> A!Truth(key), entry |-> cache[key]]],
           ~(Around.overlap)' /\ gl.at # "idle" => aFlow[f].at # "idle" \/ \A g \in Flows : aFlow[g].at = "idle",
           \A u \in {gl.caller}, t \in {gl.start} : Right(gl, Lately(u, t), Standing(u), Around')
    PROVE  AccessInv'
<1>1. AccessTyped /\ aFlow \in [Flows -> Requested] /\ inflight \in [A!Keys -> [busy : BOOLEAN, value : Lists, entry : Entries]]
      /\ cache \in [A!Keys -> Entries]
  BY DEF AccessInv, AccessTyped
<1>2. aFlow' \in [Flows -> Requested] /\ aFlow'[f] = gl /\ \A g \in Flows : g # f => aFlow'[g] = aFlow[g]
  BY <1>1
<1>3. /\ inflight' \in [A!Keys -> [busy : BOOLEAN, value : Lists, entry : Entries]]
      /\ \A k \in A!Keys : \/ inflight'[k] = inflight[k]
                           \/ gl.wait = k /\ inflight'[k].value = A!Truth(k)
  <2>1. CASE UNCHANGED inflight
    BY <1>1, <2>1
  <2>2. ASSUME NEW key \in A!Keys, gl.wait = key,
               inflight' = [inflight EXCEPT ![key] = [busy |-> TRUE, value |-> A!Truth(key), entry |-> cache[key]]]
        PROVE  <1>3!1 /\ <1>3!2
    <3>1. [busy |-> TRUE, value |-> A!Truth(key), entry |-> cache[key]] \in [busy : BOOLEAN, value : Lists, entry : Entries]
      BY <1>1, TruthIsListed
    <3> QED
      BY <1>1, <2>2, <3>1
  <2> QED
    BY <2>1, <2>2
<1>4. AccessTyped'
  BY <1>1, <1>2, <1>3 DEF AccessTyped, Calmer
<1>5. Awaited'
  <2> SUFFICES ASSUME NEW k \in A!Keys, inflight'[k].busy PROVE \E g \in Flows : aFlow'[g].wait = k
    BY DEF Awaited
  <2>1. CASE gl.wait = k
    BY <1>2, <2>1
  <2>2. CASE inflight'[k] = inflight[k]
    <3>1. PICK g \in Flows : aFlow[g].wait = k
      BY <2>2 DEF AccessInv, Awaited
    <3>2. k # "none"
      BY DEF A!Keys
    <3> QED
      BY <1>2, <3>1, <3>2
  <2> QED
    BY <1>3, <2>1, <2>2
<1>6. /\ \A u, t : Lately(u, t)' = Lately(u, t)
      /\ \A u : Standing(u)' = Standing(u)
      /\ \A k : A!Truth(k)' = A!Truth(k)
      /\ \A k, u, t : HeldAt(k, u, t)' = HeldAt(k, u, t)
  BY WorldStays
<1>7. ~(Around.stale)' => ListsAreOld'
  <2> SUFFICES ASSUME ~(Around.stale)', NEW k \in A!Keys
               PROVE  /\ cache[k].known => \A u \in cache[k].value : HeldAt(k, u, cache[k].at)
                      /\ inflight'[k].busy => \A u \in inflight'[k].value : HeldAt(k, u, now)
    BY <1>6 DEF ListsAreOld
  <2>1. ListsAreOld
    BY WhatHasHappened DEF AccessInv
  <2> QED
    BY <1>1, <1>3, <2>1, TruthIsListed DEF ListsAreOld
<1>8. ~(Around.slow)' => ListsAreTrue'
  <2> SUFFICES ASSUME ~(Around.slow)', NEW k \in A!Keys
               PROVE  /\ cache[k].known /\ cache[k].at > changed => cache[k].value = A!Truth(k)
                      /\ inflight'[k].busy /\ now > changed => inflight'[k].value = A!Truth(k)
    BY <1>6 DEF ListsAreTrue
  <2>1. ListsAreTrue
    BY WhatHasHappened DEF AccessInv
  <2> QED
    BY <1>3, <2>1 DEF ListsAreTrue
<1>9. ~(Around.overlap)' => Turns'
  <2> SUFFICES ASSUME ~(Around.overlap)' PROVE Turns'
    OBVIOUS
  <2>1. Turns
    BY WhatHasHappened DEF AccessInv
  <2> QED
    BY <1>2, <2>1 DEF Turns
<1>10. AllRight'
  <2> SUFFICES ASSUME NEW g \in Flows, NEW u \in {aFlow'[g].caller}, NEW t \in {aFlow'[g].start}
               PROVE  Right(aFlow'[g], Lately(u, t), Standing(u), Around')
    BY <1>6 DEF AllRight
  <2>1. CASE g = f
    BY <1>2, <2>1
  <2>2. CASE g # f
    <3>1. Right(aFlow[g], Lately(u, t), Standing(u), Around)
      BY <1>2, <2>2 DEF AccessInv, AllRight
    <3>2. Around'.now = Around.now /\ Around'.kind = Around.kind /\ Around'.aged = Around.aged
      BY DEF Around
    <3>3. Right(aFlow[g], Lately(u, t), Standing(u), Around')
      BY <3>1, <3>2, WhatHasHappened DEF Right
    <3> QED
      BY <1>2, <2>2, <3>3
  <2> QED
    BY <2>1, <2>2
<1> QED
  BY <1>4, <1>5, <1>7, <1>8, <1>9, <1>10 DEF AccessInv

\* A request that is being handled goes on, and nothing else changes.
LEMMA HandledGoesOn ==
    ASSUME AccessInv, NEW f \in Flows, NEW fl, fl = aFlow[f], fl.at \notin {"idle", "refused"}, fl.wait = "none",
           NEW w, w = Lately(fl.caller, fl.start), NEW s, s = Standing(fl.caller),
           NEW gl, Follows(fl, gl, kind),
           ~Around.stale /\ RightsOf(fl, w, s) => RightsOf(gl, w, s),
           ~Around.refused /\ fl.entitled /\ Honoured(fl, s) => Honoured(gl, s),
           A!Goes(f, gl), UNCHANGED <<now, A!outside, A!caches, A!store, aUsed>>
    PROVE  AccessInv'
<1>1. UNCHANGED <<now, kind, github, until, changed, cache, inflight, config, override, admins, sessions, aAsked, aUsed>>
  BY DEF A!outside, A!caches, A!store
<1>2. AccessTyped /\ Calmer
  BY <1>1, NothingHappens DEF AccessInv
<1>3. gl \in Requested /\ gl.caller = fl.caller /\ gl.start = fl.start /\ gl.entitled = fl.entitled
  BY DEF Follows, Alike
<1>4. Around' = Around
  BY <1>1 DEF Around, A!Never
<1>5. Right(fl, w, s, Around)
  BY DEF AccessInv, AllRight
<1>6. Right(gl, w, s, Around)
  <2>1. Staged(gl, Around.kind)
    BY AroundIs DEF Follows
  <2>2. Going(gl) => Led(gl)
    BY <1>5 DEF Right, Follows, Going
  <2>3. ~Around.slow /\ gl.at # "idle" => gl.start = Around.now
    BY <1>3, <1>5 DEF Right
  <2>4. ~Around.stale => RightsOf(gl, w, s)
    BY <1>5 DEF Right
  <2>5. ~Around.refused => HonourOf(gl, s) /\ (gl.at # "idle" /\ gl.entitled => Around.aged)
    BY <1>3, <1>5 DEF Right, HonourOf
  <2>6. gl.at \notin {"exists", "row"}
    BY DEF Follows
  <2> QED
    BY <2>1, <2>2, <2>3, <2>4, <2>5, <2>6 DEF Right
<1> QED
  BY <1>1, <1>2, <1>3, <1>4, <1>6, RequestMoves DEF A!Goes

\* What the invariant says of a request.
LEMMA RequestIs ==
    ASSUME AccessInv, NEW f \in Flows
    PROVE  /\ aFlow[f] \in Requested /\ Staged(aFlow[f], kind)
           /\ Going(aFlow[f]) => Led(aFlow[f])
           /\ Right(aFlow[f], Lately(aFlow[f].caller, aFlow[f].start), Standing(aFlow[f].caller), Around)
BY AroundIs DEF AccessInv, AccessTyped, AllRight, Right

\* Who passes a check that reads no list: a session, an administrator, a key.
LEMMA PassesOrNot ==
    ASSUME NEW k, NEW w, NEW s, NEW fl \in Requested, fl.todo # <<>>, fl.at \in Checking, fl.wait = "none", Led(fl),
           FirstCheck(fl) \in {"session", "admin", "super"} \cup OfMachines, NEW holds, NEW gl, gl = A!PassedIf(fl, holds),
           RightsOf(fl, w, s) /\ fl.caller \in Users /\ holds => FirstCheck(fl) \notin OfMachines /\ Proven(fl, w, fl.todo[1]),
           Honoured(fl, s) => holds
    PROVE  /\ Follows(fl, gl, k)
           /\ RightsOf(fl, w, s) => RightsOf(gl, w, s)
           /\ Honoured(fl, s) => Honoured(gl, s)
<1>1. CASE holds
  <2>1. gl = A!Passed(fl)
    BY <1>1 DEF A!PassedIf
  <2>2. Alike(fl, gl) /\ gl.node = fl.node /\ gl.does = fl.does /\ gl.wait = "none"
        /\ gl.todo = Tail(fl.todo) /\ gl.at = IF Tail(fl.todo) = <<>> THEN "act" ELSE "check"
    BY <2>1, PassedIs
  <2>3. fl.todo[1] # A!Leader /\ fl.todo[1] # A!Reveal
    BY DEF A!Leader, A!Reveal, FirstCheck, OfMachines
  <2>4. Follows(fl, gl, k)
    BY <2>2, <2>3, PassFollows
  <2>5. RightsOf(fl, w, s) => RightsOf(gl, w, s)
    BY <1>1, <2>2, <2>3, PassRights DEF FirstCheck
  <2>6. Honoured(fl, s) => Honoured(gl, s)
    BY <2>2, PassHonour
  <2> QED
    BY <2>4, <2>5, <2>6
<1>2. CASE ~holds
  <2>1. gl = A!Refused(fl)
    BY <1>2 DEF A!PassedIf
  <2> QED
    BY <1>2, <2>1, RefusedFollows
<1> QED
  BY <1>1, <1>2

\* A check that reads nothing but the request, the tables or a constant.
LEMMA CheckHereKeeps ==
    ASSUME AccessInv, NEW f \in Flows, A!CheckHere(f)
    PROVE  AccessInv'
<1> DEFINE fl == aFlow[f]
           w == Lately(fl.caller, fl.start)
           s == Standing(fl.caller)
<1>1. fl \in Requested /\ Staged(fl, kind) /\ fl.at = "check" /\ fl.wait = "none" /\ Led(fl)
  BY RequestIs DEF A!CheckHere, A!At, Going
<1>2. fl.at \in Checking /\ fl.todo # <<>> /\ fl.todo[1] \in Checked /\ A!CheckOf(fl) = FirstCheck(fl) /\ fl.todo[1].check = FirstCheck(fl)
  <2>1. fl.at \in Checking /\ fl.todo # <<>>
    BY <1>1 DEF Staged, Checking
  <2> QED
    BY <1>1, <2>1, PartsOf, TakenAway DEF A!CheckOf, FirstCheck
<1>3. RightsOf(fl, w, s) /\ fl.caller \in Users => (s.admin => fl.wasAdmin) /\ (s.in => fl.wasIn)
  BY <1>1, <1>2 DEF RightsOf, Going, Witnesses
<1>4. s.admin = A!IsAdmin(fl.caller) /\ s.in = (fl.caller \in sessions)
  BY DEF Standing
<1>5. Honoured(fl, s) => fl.node = "leader" /\ Deserves(fl.caller, s, fl.todo[1])
  BY <1>1, <1>2, FirstDeserved DEF Honoured
<1>6. UNCHANGED <<now, A!outside, A!caches, A!store, aUsed>>
  BY DEF A!CheckHere
<1>7. fl.caller \in Users => fl.caller \notin Machine
  BY RightsParameters
<1>8. \/ FirstCheck(fl) = "session" /\ A!Goes(f, A!PassedIf(fl, fl.node = "leader" /\ fl.caller \in sessions))
      \/ FirstCheck(fl) = "leader" /\ A!Goes(f, A!Passed([fl EXCEPT !.node = "leader"]))
      \/ FirstCheck(fl) = "admin" /\ A!Goes(f, A!PassedIf(fl, A!IsAdmin(fl.caller)))
      \/ FirstCheck(fl) = "super" /\ A!Goes(f, A!PassedIf(fl, fl.caller \in Supers))
      \/ FirstCheck(fl) \in {"key", "hook", "apikey"} /\ A!Goes(f, A!PassedIf(fl, fl.node = "leader" /\ fl.caller \in Machine))
      \/ FirstCheck(fl) = "secret" /\ A!Goes(f, A!PassedIf(fl, fl.caller \in Machine))
  BY <1>2 DEF A!CheckHere
<1> HIDE DEF fl, w, s
<1>9. ASSUME NEW holds, A!Goes(f, A!PassedIf(fl, holds)), FirstCheck(fl) \in {"session", "admin", "super"} \cup OfMachines,
             RightsOf(fl, w, s) /\ fl.caller \in Users /\ holds => FirstCheck(fl) \notin OfMachines /\ Proven(fl, w, fl.todo[1]),
             Honoured(fl, s) => holds
      PROVE  AccessInv'
  <2> DEFINE gl == A!PassedIf(fl, holds)
  <2>1. /\ Follows(fl, gl, kind)
        /\ RightsOf(fl, w, s) => RightsOf(gl, w, s)
        /\ Honoured(fl, s) => Honoured(gl, s)
    BY <1>1, <1>2, <1>9, PassesOrNot
  <2> HIDE DEF gl
  <2> QED
    BY <1>1, <1>6, <1>9, <2>1, HandledGoesOn DEF gl, fl, w, s
<1>10. CASE FirstCheck(fl) = "session" /\ A!Goes(f, A!PassedIf(fl, fl.node = "leader" /\ fl.caller \in sessions))
  BY <1>2, <1>3, <1>4, <1>5, <1>9, <1>10 DEF Proven, Deserves, OfMachines
<1>11. CASE FirstCheck(fl) = "admin" /\ A!Goes(f, A!PassedIf(fl, A!IsAdmin(fl.caller)))
  BY <1>2, <1>3, <1>4, <1>5, <1>9, <1>11 DEF Proven, Deserves, OfMachines
<1>12. CASE FirstCheck(fl) = "super" /\ A!Goes(f, A!PassedIf(fl, fl.caller \in Supers))
  BY <1>2, <1>3, <1>4, <1>5, <1>9, <1>12 DEF Proven, Deserves, OfMachines
<1>13. CASE FirstCheck(fl) \in {"key", "hook", "apikey"} /\ A!Goes(f, A!PassedIf(fl, fl.node = "leader" /\ fl.caller \in Machine))
  BY <1>2, <1>5, <1>7, <1>9, <1>13 DEF Deserves, OfMachines
<1>14. CASE FirstCheck(fl) = "secret" /\ A!Goes(f, A!PassedIf(fl, fl.caller \in Machine))
  BY <1>2, <1>5, <1>7, <1>9, <1>14 DEF Deserves, OfMachines
<1>15. CASE FirstCheck(fl) = "leader" /\ A!Goes(f, A!Passed([fl EXCEPT !.node = "leader"]))
  <2> DEFINE el == [fl EXCEPT !.node = "leader"]
             gl == A!Passed(el)
  <2>1. el \in Requested /\ Alike(fl, el) /\ el.todo = fl.todo /\ el.node = "leader" /\ el.does = fl.does /\ el.wait = fl.wait
    BY <1>1 DEF Requested, Alike
  <2> HIDE DEF el
  <2>2. Alike(el, gl) /\ gl.node = "leader" /\ gl.does = fl.does /\ gl.wait = "none"
        /\ gl.todo = Tail(fl.todo) /\ gl.at = IF Tail(fl.todo) = <<>> THEN "act" ELSE "check"
    BY <1>1, <1>2, <2>1, PassedIs
  <2> HIDE DEF gl
  <2>3. Alike(fl, gl)
    BY <2>1, <2>2 DEF Alike
  <2>4. fl.todo[1] # A!Reveal /\ fl.todo[1].check \notin OfMachines
    BY <1>2, <1>15 DEF A!Reveal, OfMachines
  <2>5. Follows(fl, gl, kind)
    BY <1>1, <1>2, <2>2, <2>3, PassFollows
  <2>6. Proven(fl, w, fl.todo[1])
    BY <1>2, <1>15 DEF Proven
  <2>7. RightsOf(fl, w, s) => RightsOf(gl, w, s)
    BY <1>1, <1>2, <2>2, <2>3, <2>4, <2>6, PassRights
  <2>8. Honoured(fl, s) => Honoured(gl, s)
    BY <1>1, <1>2, <2>2, <2>3, PassHonour
  <2> QED
    BY <1>1, <1>6, <1>15, <2>5, <2>7, <2>8, HandledGoesOn DEF gl, el, fl, w, s
<1> QED
  BY <1>8, <1>10, <1>11, <1>12, <1>13, <1>14, <1>15

\* A step of a check on capabilities.
LEMMA CheckKeeps ==
    ASSUME AccessInv, NEW f \in Flows, A!Check(f)
    PROVE  AccessInv'
<1> DEFINE fl == aFlow[f]
           w == Lately(fl.caller, fl.start)
           s == Standing(fl.caller)
<1>1. fl \in Requested /\ Staged(fl, kind) /\ AccessTyped
  BY RequestIs DEF AccessInv
<1>2. UNCHANGED <<now, A!outside, A!caches, A!store, aUsed>>
  BY DEF A!Check
<1>3. /\ fl.at \in {"team", "admin", "override"} /\ fl.wait = "none"
      /\ \/ fl.at = "team" /\ A!Goes(f, A!TeamStep(fl))
         \/ fl.at = "admin" /\ A!Goes(f, A!AdminStep(fl))
         \/ fl.at = "override" /\ A!Goes(f, A!Decided(fl, A!Granted(fl.caller, fl.defaults)))
  BY DEF A!Check, A!At
<1>4. Led(fl)
  BY <1>3, RequestIs DEF Going
<1>5. kind = "user" /\ fl.caller = Login => w.owner
  BY DEF Lately
<1> HIDE DEF w, s
<1>6. ASSUME NEW gl, A!Goes(f, gl), Follows(fl, gl, kind), RightsOf(fl, w, s) => RightsOf(gl, w, s),
             Honoured(fl, s) => Honoured(gl, s)
      PROVE  AccessInv'
  BY <1>2, <1>3, <1>6, HandledGoesOn DEF w, s
<1>7. CASE fl.at = "team" /\ A!Goes(f, A!TeamStep(fl))
  BY <1>1, <1>3, <1>4, <1>6, <1>7, TeamFollows DEF s
<1>8. CASE fl.at = "admin" /\ A!Goes(f, A!AdminStep(fl))
  BY <1>1, <1>3, <1>4, <1>5, <1>6, <1>8, AdminFollows DEF s
<1>9. CASE fl.at = "override" /\ A!Goes(f, A!Decided(fl, A!Granted(fl.caller, fl.defaults)))
  BY <1>1, <1>3, <1>4, <1>6, <1>9, OverrideFollows DEF s
<1> QED
  BY <1>3, <1>7, <1>8, <1>9

\* What a list said after a request's time less TTL tells what held lately.
LEMMA ListTells ==
    ASSUME AccessTyped, NEW fl \in Requested, NEW key \in A!Keys, key = "owners" => kind = "org", NEW value,
           NEW t \in Int, t > fl.start - TTL, \A u \in value : HeldAt(key, u, t)
    PROVE  Tells(fl, key, value, Lately(fl.caller, fl.start))
<1>1. fl.start \in Int /\ TTL \in Int
  BY PartsOf, RightsParameters
<1>2. until.installed \in Int /\ \A u \in Users : until.members[u] \in Int /\ until.owners[u] \in Int
  BY DEF AccessTyped
<1>3. key = "apps" /\ value # {} => github.installed \/ until.installed > fl.start - TTL
  BY <1>1, <1>2 DEF HeldAt
<1>4. key = "members" /\ fl.caller \in value => fl.caller \in github.members \/ until.members[fl.caller] > fl.start - TTL
  BY <1>1, <1>2 DEF HeldAt
<1>5. key = "owners" /\ fl.caller \in value => fl.caller \in github.owners \/ until.owners[fl.caller] > fl.start - TTL
  BY <1>1, <1>2 DEF HeldAt
<1> QED
  BY <1>3, <1>4, <1>5 DEF Tells, Lately

\* What a list says is used.
LEMMA ReadingKeeps ==
    ASSUME AccessInv, NEW f \in Flows, A!ReadCache(f)
    PROVE  AccessInv'
<1> DEFINE fl == aFlow[f]
           key == A!Needs(fl)
           w == Lately(fl.caller, fl.start)
           s == Standing(fl.caller)
<1>1. fl \in Requested /\ Staged(fl, kind) /\ AccessTyped /\ Right(fl, w, s, Around)
  BY RequestIs DEF AccessInv
<1>2. /\ fl.wait = "none" /\ key = Listing(fl) /\ key \in A!Keys /\ fl.at \in {"resolve", "check", "members", "owners"}
      /\ fl.at = "check" => FirstCheck(fl) \in {"caps", "reveal", "manage", "member", "installed"}
  <2>1. key # "none"
    BY DEF A!ReadCache
  <2>2. A!CheckOf(fl) = FirstCheck(fl)
    BY <1>1, PartsOf DEF A!CheckOf, FirstCheck
  <2> HIDE DEF fl
  <2> QED
    BY <2>1, <2>2 DEF A!Needs, Listing, A!Keys
<1>3. Led(fl) /\ fl.at \notin {"idle", "refused"}
  BY <1>2, RequestIs DEF Going
<1>4. key = "owners" => kind = "org"
  BY <1>1, <1>2 DEF Listing, Staged
<1>5. UNCHANGED <<now, A!outside, cache, A!store, aUsed>>
  BY DEF A!ReadCache
<1>6. /\ A!Fresh(cache[key]) => A!Goes(f, A!After(fl, key, cache[key].value)) /\ UNCHANGED inflight
      /\ ~A!Fresh(cache[key]) =>
            /\ A!Goes(f, [fl EXCEPT !.wait = key])
            /\ \/ UNCHANGED inflight
               \/ inflight' = [inflight EXCEPT ![key] = [busy |-> TRUE, value |-> A!Truth(key), entry |-> cache[key]]]
  BY DEF A!ReadCache
<1> HIDE DEF key, w, s
<1>7. CASE A!Fresh(cache[key])
  <2> DEFINE value == cache[key].value
             gl == A!After(fl, key, value)
  <2>1. cache[key].known /\ now - cache[key].at < TTL /\ cache[key].at \in Int /\ now \in Int /\ changed \in Int /\ TTL \in Int
    BY <1>1, <1>2, <1>7, RightsParameters DEF A!Fresh, AccessTyped, Entries
  <2>2. ASSUME ~Around.stale PROVE Tells(fl, key, value, w)
    <3>1. fl.start = now /\ ListsAreOld
      BY <1>1, <1>3, <2>2, AroundIs DEF Right, AccessInv
    <3>2. \A u \in value : HeldAt(key, u, cache[key].at)
      BY <1>2, <2>1, <3>1 DEF ListsAreOld
    <3>3. cache[key].at > fl.start - TTL
      BY <2>1, <3>1
    <3> QED
      BY <1>1, <1>2, <1>4, <2>1, <3>2, <3>3, ListTells DEF w
  <2>3. ASSUME ~Around.refused, fl.entitled PROVE IsTrue(key, value, s)
    <3>1. now - changed >= TTL /\ ListsAreTrue
      BY <1>1, <1>3, <2>3, AroundIs DEF Right, AccessInv
    <3>2. cache[key].at > changed
      BY <2>1, <3>1
    <3>3. value = A!Truth(key)
      BY <1>2, <2>1, <3>1, <3>2 DEF ListsAreTrue
    <3> QED
      BY <1>1, <1>2, <3>3, TruthIsListed DEF s
  <2>4. StandingOf(fl.caller, s, kind)
    BY <1>1, StandingIs DEF s
  <2> HIDE DEF value
  <2>5. /\ Follows(fl, gl, kind)
        /\ RightsOf(fl, w, s) /\ (fl.caller \in Users => Tells(fl, key, value, w)) => RightsOf(gl, w, s)
        /\ Honoured(fl, s) /\ IsTrue(key, value, s) /\ StandingOf(fl.caller, s, kind) => Honoured(gl, s)
    BY <1>1, <1>2, <1>3, AfterFollows
  <2>6. A!Goes(f, gl) /\ UNCHANGED A!caches
    BY <1>5, <1>6, <1>7 DEF value, A!caches
  <2> HIDE DEF gl
  <2> QED
    BY <1>2, <1>3, <1>5, <2>2, <2>3, <2>4, <2>5, <2>6, HandledGoesOn DEF w, s
<1>8. CASE ~A!Fresh(cache[key])
  <2> DEFINE gl == [fl EXCEPT !.wait = key]
  <2>1. /\ gl \in Requested /\ Alike(fl, gl) /\ gl.todo = fl.todo /\ gl.node = fl.node /\ gl.does = fl.does /\ gl.wait = key
        /\ gl.at = fl.at /\ gl.installed = fl.installed /\ gl.defaults = fl.defaults
    BY <1>1, <1>2 DEF Requested, Alike
  <2>2. aFlow' = [aFlow EXCEPT ![f] = gl]
    BY <1>6, <1>8 DEF A!Goes
  <2> HIDE DEF gl
  <2>3. Staged(gl, kind)
    BY <1>1, <1>2, <2>1 DEF Staged, FirstCheck, Listing
  <2>4. \A c : Proven(gl, w, c) <=> Proven(fl, w, c)
    BY <2>1 DEF Proven, Manages, Alike
  <2>5. RightsOf(fl, w, s) => RightsOf(gl, w, s)
    BY <2>1, <2>4 DEF RightsOf, Going, Owed, Witnesses, Judged, FirstCheck, Alike
  <2>6. HonourOf(fl, s) => HonourOf(gl, s)
    BY <2>1 DEF HonourOf, Honoured, FirstCheck, Alike
  <2>7. UNCHANGED <<now, kind, github, until, changed, cache, config, override, admins, sessions, aAsked, aUsed>>
    BY <1>5 DEF A!outside, A!store
  <2>8. Around' = Around /\ Calmer
    BY <1>1, <2>7, NothingHappens DEF Around, A!Never
  <2>9. Right(gl, w, s, Around)
    BY <1>1, <1>3, <2>1, <2>3, <2>5, <2>6, AroundIs DEF Right, Going, Led, Alike
  <2>10. gl.caller = fl.caller /\ gl.start = fl.start
    BY <2>1 DEF Alike
  <2>11. \A u \in {gl.caller}, t \in {gl.start} : Right(gl, Lately(u, t), Standing(u), Around')
    BY <2>8, <2>9, <2>10 DEF w, s
  <2>12. \/ UNCHANGED inflight
         \/ \E k \in A!Keys :
                /\ gl.wait = k
                /\ inflight' = [inflight EXCEPT ![k] = [busy |-> TRUE, value |-> A!Truth(k), entry |-> cache[k]]]
    BY <1>2, <1>6, <1>8, <2>1
  <2>13. gl \in Requested
    BY <2>1
  <2> QED
    BY <1>2, <1>3, <2>2, <2>7, <2>8, <2>11, <2>12, <2>13, RequestMoves
<1> QED
  BY <1>7, <1>8

\* A place that is free is right.
LEMMA NoFlowIsRight ==
    /\ A!NoFlow \in Requested /\ A!NoFlow.at = "idle" /\ A!NoFlow.wait = "none"
    /\ \A w, s, n : Right(A!NoFlow, w, s, n)
<1>1. /\ A!NoFlow.at = "idle" /\ A!NoFlow.wait = "none" /\ A!NoFlow.todo = <<>>
  BY DEF A!NoFlow
<1>2. A!NoFlow \in Requested
  <2>1. <<>> \in Seq(Checked)
    OBVIOUS
  <2>2. 0 \in Int
    OBVIOUS
  <2> QED
    BY <2>1, <2>2 DEF A!NoFlow, Requested, Places, Effects
<1>3. ASSUME NEW w, NEW s, NEW n PROVE Right(A!NoFlow, w, s, n)
  BY <1>1 DEF Right, Staged, Checking, Judging, Going, RightsOf, HonourOf
<1> QED
  BY <1>1, <1>2, <1>3

\* A request ends, and nothing else changes.
LEMMA RequestEnds ==
    ASSUME AccessInv, NEW f \in Flows, aFlow[f].wait = "none", A!Ends(f),
           UNCHANGED <<now, A!outside, A!caches, A!store, aUsed>>
    PROVE  AccessInv'
<1>1. UNCHANGED <<now, kind, github, until, changed, cache, inflight, config, override, admins, sessions, aAsked, aUsed>>
  BY DEF A!outside, A!caches, A!store
<1>2. Calmer
  BY <1>1, NothingHappens DEF AccessInv
<1> QED
  BY <1>1, <1>2, NoFlowIsRight, RequestMoves DEF A!Ends, A!Goes

\* The handler of a request takes a step.
Handling == {"act", "resolve", "resolved", "exists", "row", "write"}
\* It moves within the handler, and may read the defaults.
LEMMA HandlerMoves ==
    ASSUME AccessInv, NEW f \in Flows, NEW fl, fl = aFlow[f], fl.at \in Handling, fl.wait = "none",
           NEW place \in Handling, NEW defaults \in SUBSET A!All, NEW gl, gl = [fl EXCEPT !.at = place, !.defaults = defaults],
           ~Around.overlap /\ place \in {"exists", "row"} => defaults = config.caps,
           A!Goes(f, gl), UNCHANGED <<now, A!outside, A!caches, A!store, aUsed>>
    PROVE  AccessInv'
<1> DEFINE w == Lately(fl.caller, fl.start)
           s == Standing(fl.caller)
<1>1. UNCHANGED <<now, kind, github, until, changed, cache, inflight, config, override, admins, sessions, aAsked, aUsed>>
  BY DEF A!outside, A!caches, A!store
<1>2. Calmer /\ Around' = Around
  BY <1>1, NothingHappens DEF AccessInv, Around, A!Never
<1>3. fl \in Requested /\ Staged(fl, kind) /\ Right(fl, w, s, Around)
  BY RequestIs
<1>4. /\ gl \in Requested /\ Alike(fl, gl) /\ gl.todo = fl.todo /\ gl.node = fl.node /\ gl.does = fl.does /\ gl.wait = "none"
      /\ gl.at = place /\ gl.defaults = defaults
  <2>1. place \in Places
    BY DEF Handling, Places
  <2> QED
    BY <1>3, <2>1 DEF Requested, Alike
<1>5. s.defaults = config.caps
  BY DEF Standing
<1> HIDE DEF w, s
<1>6. fl.at \notin Checking /\ place \notin Checking /\ fl.at \notin {"idle", "refused"} /\ place \notin {"idle", "refused"}
  BY DEF Handling, Checking, Judging
<1>7. Staged(gl, kind)
  BY <1>3, <1>4, <1>6 DEF Staged, Checking, Judging
<1>8. \A c : Proven(gl, w, c) <=> Proven(fl, w, c)
  BY <1>4 DEF Proven, Manages, Alike
<1>9. RightsOf(fl, w, s) => RightsOf(gl, w, s)
  BY <1>4, <1>6, <1>8 DEF RightsOf, Going, Owed, Alike
<1>10. HonourOf(fl, s) => HonourOf(gl, s)
  BY <1>4, <1>6 DEF HonourOf, Honoured, Checking, Judging, Alike
<1>11. Right(gl, w, s, Around)
  BY <1>3, <1>4, <1>5, <1>6, <1>7, <1>9, <1>10, AroundIs DEF Right, Going, Led, Alike
<1>12. \A u \in {gl.caller}, t \in {gl.start} : Right(gl, Lately(u, t), Standing(u), Around')
  BY <1>2, <1>4, <1>11 DEF w, s, Alike
<1>13. gl \in Requested /\ aFlow' = [aFlow EXCEPT ![f] = gl]
  BY <1>4 DEF A!Goes
<1> QED
  BY <1>1, <1>2, <1>6, <1>12, <1>13, RequestMoves

\* Answers, and what handlers read.
LEMMA HandlersKeep ==
    ASSUME AccessInv, NEW f \in Flows, A!Respond(f) \/ A!Act(f) \/ A!Resolved(f) \/ A!RowExists(f)
    PROVE  AccessInv'
<1> DEFINE fl == aFlow[f]
<1>1. fl \in Requested /\ fl.defaults \in SUBSET A!All /\ config.caps \in SUBSET A!All
      /\ Right(fl, Lately(fl.caller, fl.start), Standing(fl.caller), Around)
  BY RequestIs, PartsOf DEF AccessInv, AccessTyped
<1>2. UNCHANGED <<now, A!outside, A!caches, A!store, aUsed>> /\ fl.wait = "none"
  BY DEF A!Respond, A!Act, A!Resolved, A!RowExists, A!At
<1>3. CASE A!Respond(f)
  BY <1>2, <1>3, RequestEnds DEF A!Respond
<1>4. ASSUME NEW place \in Handling, fl.at \in Handling, A!Goes(f, [fl EXCEPT !.at = place]),
             ~Around.overlap /\ place \in {"exists", "row"} => fl.defaults = config.caps
      PROVE  AccessInv'
  <2>1. [fl EXCEPT !.at = place] = [fl EXCEPT !.at = place, !.defaults = fl.defaults]
    BY <1>1 DEF Requested
  <2>2. A!Goes(f, [fl EXCEPT !.at = place, !.defaults = fl.defaults])
    BY <1>4, <2>1
  <2> QED
    BY <1>1, <1>2, <1>4, <2>2, HandlerMoves
<1>5. CASE A!Act(f)
  BY <1>4, <1>5 DEF A!Act, A!At, Handling
<1>6. CASE A!RowExists(f)
  <2>1. ~Around.overlap => fl.defaults = config.caps
    BY <1>1, <1>6 DEF Right, Standing, A!RowExists, A!At
  <2> QED
    BY <1>4, <1>6, <2>1 DEF A!RowExists, A!At, Handling
<1>7. CASE A!Resolved(f)
  <2> DEFINE throws == IF fl.does = "clear" THEN ~fl.installed /\ ~config.exists ELSE ~fl.installed \/ kind = "user"
             place == IF fl.does = "override" THEN "exists" ELSE "write"
  <2>1. CASE throws
    BY <1>2, <1>7, <2>1, RequestEnds DEF A!Resolved, A!Ends
  <2>2. CASE ~throws
    <3>1. A!Goes(f, [fl EXCEPT !.at = place, !.defaults = config.caps]) /\ fl.at \in Handling /\ place \in Handling
      BY <1>7, <2>2 DEF A!Resolved, A!At, Handling
    <3> HIDE DEF place
    <3> QED
      BY <1>1, <1>2, <3>1, HandlerMoves
  <2> QED
    BY <2>1, <2>2
<1> QED
  BY <1>3, <1>5, <1>6, <1>7

\* A request arrives: its route asks for what its effect demands.
LEMMA BeginKeeps ==
    ASSUME AccessInv, NEW f \in Flows, NEW u \in Users \cup Machine, NEW how \in A!Requests, NEW side \in {"leader", "follower"},
           A!Begin(f, u, how, side)
    PROVE  AccessInv'
<1> DEFINE kinds == {how} \cup (IF A!Quiet THEN {} ELSE {"overlap"}) \cup (IF side = "leader" THEN {} ELSE {"follower"})
           w == Lately(u, now)
           s == Standing(u)
<1>1. PICK program \in Asked[u][how], caps \in SUBSET A!All :
        A!Goes(f, [A!NoFlow EXCEPT !.caller = u, !.node = side, !.todo = program.checks, !.does = program.does,
                                   !.at = IF program.checks = <<>> THEN "act" ELSE "check",
                                   !.with = caps, !.start = now,
                                   !.could = IF u \in Users THEN A!Granted(u, config.caps) ELSE {},
                                   !.wasAdmin = A!IsAdmin(u), !.wasIn = u \in sessions,
                                   !.entitled = A!Entitled(u, program.checks) /\ now - changed >= TTL])
  <2>1. Grants \subseteq SUBSET A!All
    BY RightsParameters
  <2> QED
    BY <2>1 DEF A!Begin
<1> DEFINE checks == program.checks
           could == IF u \in Users THEN A!Granted(u, config.caps) ELSE {}
           entitled == A!Entitled(u, checks) /\ now - changed >= TTL
           place == IF checks = <<>> THEN "act" ELSE "check"
           admin == A!IsAdmin(u)
           in == u \in sessions
           gl == [A!NoFlow EXCEPT !.caller = u, !.node = side, !.todo = checks, !.does = program.does,
                                  !.at = place, !.with = caps, !.start = now,
                                  !.could = could, !.wasAdmin = admin, !.wasIn = in,
                                  !.entitled = entitled]
<1>2. Sound(checks, program.does)
  <2>1. program \in A!Programs
    BY <1>1, RightsParameters
  <2> QED
    BY <2>1, ProgramsAreSound DEF IsSound
<1>3. AccessTyped /\ aFlow[f].at = "idle" /\ aFlow[f].wait = "none"
  <2>1. aFlow[f].at = "idle" /\ Staged(aFlow[f], kind) /\ aFlow[f] \in Requested
    BY RequestIs DEF A!Begin, A!Idle
  <2>2. aFlow[f].wait \in A!Keys \cup {"none"}
    BY <2>1, PartsOf
  <2> QED
    BY <2>1, <2>2 DEF Staged, AccessInv
<1>4. UNCHANGED <<now, kind, github, until, changed, cache, inflight, config, override, admins, sessions, aAsked>>
  BY DEF A!Begin, A!outside, A!caches, A!store
<1>5. Calmer /\ (\A k \in kinds : aUsed'[k] > 0)
  <2>1. kinds \subseteq A!Kinds /\ A!Uses(kinds)
    BY DEF A!Begin, A!Kinds
  <2> QED
    BY <1>3, <2>1, AccessEvents DEF Calmer, AccessTyped
<1>6. could \in SUBSET A!All /\ (u \in Users => Covers(could, config.caps \cup override[u]))
  <2>1. config.caps \subseteq A!All /\ (u \in Users => override[u] \subseteq A!All) /\ "view" \in A!All
    BY <1>3 DEF AccessTyped, A!All
  <2> QED
    BY <2>1 DEF A!Granted, Covers
<1>7. checks \in Seq(Checked) /\ program.does \in Effects
  BY <1>2 DEF Sound
<1>8. now \in Int /\ changed \in Int /\ TTL \in Int
  BY <1>3, RightsParameters DEF AccessTyped
<1>9. A!IsAdmin(u) \in BOOLEAN /\ entitled \in BOOLEAN
  BY DEF A!IsAdmin, A!Entitled
<1>10. A!NoFlow \in Requested
  BY NoFlowIsRight
<1> HIDE DEF could, entitled, checks, place, admin, in
<1>11. /\ gl \in Requested /\ gl.caller = u /\ gl.node = side /\ gl.todo = checks /\ gl.does = program.does
       /\ gl.at = (IF checks = <<>> THEN "act" ELSE "check") /\ gl.wait = "none" /\ gl.start = now /\ gl.could = could
       /\ gl.wasAdmin = A!IsAdmin(u) /\ gl.wasIn = (u \in sessions) /\ gl.entitled = entitled
  <2> DEFINE el == [A!NoFlow EXCEPT !.caller = u, !.node = side, !.todo = checks, !.does = program.does]
             hl == [el EXCEPT !.at = place, !.with = caps, !.start = now, !.could = could]
  <2>1. gl = [hl EXCEPT !.wasAdmin = admin, !.wasIn = in, !.entitled = entitled]
    OBVIOUS
  <2> HIDE DEF gl
  <2>2. place \in Places /\ admin \in BOOLEAN /\ in \in BOOLEAN
    BY <1>9 DEF Places, Checking, place, admin, in
  <2>3. u \in Users \cup Machine \cup {"nobody"} /\ side \in {"leader", "follower"} /\ "none" \in A!Keys \cup {"none"}
    OBVIOUS
  <2>4. /\ el \in Requested /\ el.caller = u /\ el.node = side /\ el.todo = checks /\ el.does = program.does
        /\ el.wait = "none"
    BY <1>7, <1>10, <2>3, NoFlowIsRight DEF Requested
  <2> HIDE DEF el
  <2>5. /\ hl \in Requested /\ hl.caller = u /\ hl.node = side /\ hl.todo = checks /\ hl.does = program.does
        /\ hl.wait = "none" /\ hl.at = place /\ hl.start = now /\ hl.could = could
    BY <1>6, <1>8, <2>2, <2>4 DEF Requested
  <2> HIDE DEF hl
  <2>6. /\ gl \in Requested /\ gl.caller = u /\ gl.node = side /\ gl.todo = checks /\ gl.does = program.does
        /\ gl.wait = "none" /\ gl.at = place /\ gl.start = now /\ gl.could = could
        /\ gl.wasAdmin = admin /\ gl.wasIn = in /\ gl.entitled = entitled
    BY <1>9, <2>1, <2>2, <2>5 DEF Requested
  <2> QED
    BY <2>6 DEF place, admin, in
<1>12. aFlow' = [aFlow EXCEPT ![f] = gl]
  BY <1>1 DEF A!Goes, checks, could, entitled, place, admin, in
<1> HIDE DEF gl
<1>13. Staged(gl, kind) /\ gl.at \notin Judging /\ gl.at \in {"act", "check"}
  BY <1>11 DEF Staged, Checking, Judging
<1>14. Led(gl)
  BY <1>2, <1>11 DEF Led, Sound
<1>15. gl.caller \in Users => Witnesses(gl, s) /\ Judged(gl, w)
  BY <1>6, <1>11, <1>13 DEF Witnesses, Judged, Standing, Judging
<1>16. Owed(gl, w)
  BY <1>2, <1>11 DEF Owed, Sound
<1>17. RightsOf(gl, w, s)
  BY <1>15, <1>16 DEF RightsOf
<1>18. ASSUME ~(Around.refused)', entitled PROVE Honoured(gl, s) /\ (Around.aged)'
  <2>1. aUsed'["follower"] = 0
    BY <1>18 DEF Around, A!Never
  <2>2. side = "leader"
    BY <1>5, <2>1
  <2>3. now - changed >= TTL /\ A!Entitled(u, checks)
    BY <1>18 DEF entitled
  <2>4. ASSUME NEW i \in 1..Len(checks) PROVE Deserves(u, s, checks[i])
    <3>1. i \in DOMAIN checks
      BY <1>7
    <3> QED
      BY <2>3, <3>1 DEF A!Entitled, Deserves, Standing, OfMachines
  <2>5. (Around.aged)'
    BY <1>4, <2>3 DEF Around
  <2> QED
    BY <1>11, <1>13, <2>2, <2>4, <2>5 DEF Honoured
<1>19. ~(Around.overlap)' => \A g \in Flows : aFlow[g].at = "idle"
  <2>1. ~(Around.overlap)' => aUsed'["overlap"] = 0
    BY DEF Around, A!Never
  <2> QED
    BY <1>5, <2>1 DEF A!Quiet, A!Idle
<1>20. (Around.now)' = now /\ (Around.kind)' = kind
  BY <1>4 DEF Around
<1>21. Right(gl, w, s, Around')
  BY <1>11, <1>13, <1>14, <1>17, <1>18, <1>20 DEF Right, HonourOf
<1> QED
  BY <1>3, <1>4, <1>5, <1>11, <1>12, <1>19, <1>21, RequestMoves DEF w, s

-----------------------------------------------------------------------------
(* Lists arrive.                                                           *)

\* The requests that wait for a list go on with it.
LEMMA ResolvingKeeps ==
    ASSUME AccessInv, NEW key \in A!Keys, NEW value, A!Resolve(key, value), Calmer,
           cache' \in [A!Keys -> Entries], \A k \in A!Keys : cache'[k].at <= now,
           ~(Around.stale)' => ListsAreOld', ~(Around.slow)' => ListsAreTrue',
           ~(Around.stale)' => \A u \in value : HeldAt(key, u, now),
           \A f \in Flows : ~(Around.refused)' /\ aFlow[f].wait = key /\ aFlow[f].entitled
                                /\ Honoured(aFlow[f], Standing(aFlow[f].caller)) =>
                            IsTrue(key, value, Standing(aFlow[f].caller))
    PROVE  AccessInv'
<1>1. /\ UNCHANGED <<now, kind, github, until, changed, config, override, admins, sessions, aAsked>>
      /\ inflight' = [inflight EXCEPT ![key] = A!NoFetch]
      /\ aFlow' = [f \in Flows |-> IF aFlow[f].wait = key THEN A!After(aFlow[f], key, value) ELSE aFlow[f]]
  BY DEF A!Resolve, A!outside, A!store
<1>2. AccessTyped /\ aFlow \in [Flows -> Requested] /\ inflight \in [A!Keys -> [busy : BOOLEAN, value : Lists, entry : Entries]]
  BY DEF AccessInv, AccessTyped
<1>3. key # "none"
  BY DEF A!Keys
<1>4. ASSUME NEW f \in Flows
      PROVE  \/ aFlow[f].wait # key /\ aFlow'[f] = aFlow[f]
             \/ /\ aFlow[f].wait = key /\ aFlow'[f] = A!After(aFlow[f], key, value)
                /\ Follows(aFlow[f], aFlow'[f], kind)
                /\ aFlow[f].at \notin {"idle", "refused"}
  <2>1. CASE aFlow[f].wait # key
    BY <1>1, <2>1
  <2>2. CASE aFlow[f].wait = key
    <3> DEFINE fl == aFlow[f]
               gl == A!After(fl, key, value)
    <3>1. aFlow'[f] = gl
      BY <1>1, <2>2
    <3>2. fl \in Requested /\ Staged(fl, kind) /\ (Going(fl) => Led(fl))
      BY RequestIs
    <3>3. /\ key = Listing(fl) /\ fl.at \in {"resolve", "check", "members", "owners"}
          /\ fl.at = "check" => FirstCheck(fl) \in {"caps", "reveal", "manage", "member", "installed"}
      BY <1>3, <2>2, <3>2 DEF Staged
    <3>4. Led(fl) /\ fl.at \notin {"idle", "refused"}
      BY <3>2, <3>3 DEF Going
    <3>5. Follows(fl, gl, kind)
      <4> HIDE DEF fl
      <4> QED
        BY <3>2, <3>3, <3>4, AfterFollows
    <3> QED
      BY <2>2, <3>1, <3>4, <3>5
  <2> QED
    BY <2>1, <2>2
<1>5. aFlow' \in [Flows -> Requested]
  <2>1. \A f \in Flows : aFlow'[f] \in Requested
    BY <1>2, <1>4 DEF Follows, Alike
  <2> QED
    BY <1>1, <2>1
<1>6. inflight' \in [A!Keys -> [busy : BOOLEAN, value : Lists, entry : Entries]] /\ ~inflight'[key].busy
      /\ \A k \in A!Keys : k # key => inflight'[k] = inflight[k]
  <2>1. 0 \in 0..AccessTime
    BY RightsParameters
  <2>2. A!NoFetch \in [busy : BOOLEAN, value : Lists, entry : Entries] /\ ~A!NoFetch.busy
    BY <2>1 DEF A!NoFetch, A!NoEntry, Lists, Entries
  <2> QED
    BY <1>1, <1>2, <2>2
<1>7. AccessTyped'
  BY <1>1, <1>2, <1>5, <1>6 DEF AccessTyped, Calmer
<1>8. Awaited'
  <2> SUFFICES ASSUME NEW k \in A!Keys, inflight'[k].busy PROVE \E g \in Flows : aFlow'[g].wait = k
    BY DEF Awaited
  <2>1. k # key /\ inflight[k].busy
    BY <1>6
  <2>2. PICK g \in Flows : aFlow[g].wait = k
    BY <2>1 DEF AccessInv, Awaited
  <2> QED
    BY <1>4, <2>1, <2>2
<1>9. ~(Around.overlap)' => Turns'
  <2> SUFFICES ASSUME ~(Around.overlap)' PROVE Turns'
    OBVIOUS
  <2>1. Turns
    BY WhatHasHappened DEF AccessInv
  <2>2. \A f \in Flows : aFlow'[f].at # "idle" => aFlow[f].at # "idle"
    BY <1>4
  <2> QED
    BY <1>1, <2>1, <2>2 DEF Turns
<1>10. /\ \A u, t : Lately(u, t)' = Lately(u, t)
       /\ \A u : Standing(u)' = Standing(u)
  BY <1>1, WorldStays
<1>11. (Around.now)' = Around.now /\ (Around.kind)' = Around.kind /\ (Around.aged)' = Around.aged
  BY <1>1 DEF Around
<1>12. AllRight'
  <2> SUFFICES ASSUME NEW f \in Flows, NEW u \in {aFlow'[f].caller}, NEW t \in {aFlow'[f].start}
               PROVE  Right(aFlow'[f], Lately(u, t), Standing(u), Around')
    BY <1>10 DEF AllRight
  <2> DEFINE fl == aFlow[f]
             gl == aFlow'[f]
  <2>1. gl.caller = fl.caller /\ gl.start = fl.start
    BY <1>4 DEF Follows, Alike
  <2> DEFINE w == Lately(u, t)
             s == Standing(u)
  <2>2. Right(fl, w, s, Around)
    BY <2>1 DEF AccessInv, AllRight
  <2>3. CASE gl = fl
    BY <1>11, <2>2, <2>3, WhatHasHappened DEF Right
  <2>4. CASE fl.wait = key /\ gl = A!After(fl, key, value) /\ Follows(fl, gl, kind) /\ fl.at \notin {"idle", "refused"}
    <3>1. fl \in Requested /\ Staged(fl, kind) /\ Led(fl) /\ AccessTyped
      BY <2>4, RequestIs DEF Going, AccessInv
    <3>2. /\ key = Listing(fl) /\ fl.at \in {"resolve", "check", "members", "owners"}
          /\ fl.at = "check" => FirstCheck(fl) \in {"caps", "reveal", "manage", "member", "installed"}
      BY <1>3, <2>4, <3>1 DEF Staged
    <3>3. u = fl.caller /\ t = fl.start
      BY <2>1
    <3> HIDE DEF w, s, fl
    <3>4. /\ RightsOf(fl, w, s) /\ (fl.caller \in Users => Tells(fl, key, value, w)) => RightsOf(gl, w, s)
          /\ Honoured(fl, s) /\ IsTrue(key, value, s) /\ StandingOf(fl.caller, s, kind) => Honoured(gl, s)
      BY <2>4, <3>1, <3>2, AfterFollows
    <3>5. ASSUME ~(Around.stale)' PROVE RightsOf(gl, w, s)
      <4>1. RightsOf(fl, w, s) /\ fl.start = now
        BY <2>2, <2>4, <3>5, WhatHasHappened, AroundIs DEF Right
      <4>2. now > fl.start - TTL /\ now \in Int
        BY <3>1, <4>1, RightsParameters DEF AccessTyped
      <4>3. key = "owners" => kind = "org"
        BY <3>1, <3>2 DEF Listing, Staged
      <4>4. Tells(fl, key, value, w)
        BY <3>1, <3>3, <3>5, <4>2, <4>3, ListTells DEF w
      <4> QED
        BY <3>4, <4>1, <4>4
    <3>6. ASSUME ~(Around.refused)' PROVE HonourOf(gl, s) /\ (gl.at # "idle" /\ gl.entitled => (Around.aged)')
      <4>1. HonourOf(fl, s) /\ (fl.entitled => Around.aged)
        BY <2>2, <2>4, <3>6, WhatHasHappened DEF Right
      <4>2. gl.entitled = fl.entitled
        BY <2>4 DEF Follows, Alike
      <4>3. StandingOf(fl.caller, s, kind)
        BY <3>1, <3>3, StandingIs DEF s
      <4>4. fl.entitled /\ Honoured(fl, s) => IsTrue(key, value, s)
        BY <2>4, <3>3, <3>6 DEF s, fl
      <4> QED
        BY <1>11, <2>4, <3>4, <4>1, <4>2, <4>3, <4>4 DEF HonourOf
    <3>7. ~(Around.slow)' => gl.start = (Around.now)'
      BY <1>11, <2>1, <2>2, <2>4, WhatHasHappened DEF Right
    <3>8. Staged(gl, (Around.kind)') /\ (Going(gl) => Led(gl)) /\ gl.at \notin {"exists", "row"}
      BY <1>11, <2>4, <3>1, AroundIs DEF Follows
    <3> QED
      BY <3>5, <3>6, <3>7, <3>8 DEF Right, w, s
  <2> QED
    BY <1>4, <2>3, <2>4
<1> QED
  BY <1>1, <1>7, <1>8, <1>9, <1>12 DEF AccessInv

\* GitHub answers: a list is kept for TTL.
LEMMA FetchedKeeps ==
    ASSUME AccessInv, NEW key \in A!Keys, A!Fetched(key)
    PROVE  AccessInv'
<1>1. PICK value \in {inflight[key].value, A!Truth(key)} :
        /\ A!Resolve(key, value)
        /\ cache' = [cache EXCEPT ![key] = [known |-> TRUE, value |-> value, at |-> now]]
        /\ UNCHANGED aUsed
  BY DEF A!Fetched
<1>2. AccessTyped /\ inflight[key].busy
  BY <1>1 DEF AccessInv, A!Resolve
<1>3. /\ UNCHANGED <<now, kind, github, until, changed, config, override, admins, sessions, aAsked>>
      /\ inflight' = [inflight EXCEPT ![key] = A!NoFetch]
  BY <1>1 DEF A!Resolve, A!outside, A!store
<1>4. Calmer /\ Around' = Around
  BY <1>1, <1>2, <1>3, NothingHappens DEF Around, A!Never
<1>5. value \in Lists /\ A!Truth(key) \in Lists /\ \A u : IsTrue(key, A!Truth(key), Standing(u))
  BY <1>2, TruthIsListed DEF AccessTyped
<1>6. ASSUME ~Around.stale PROVE \A u \in value : HeldAt(key, u, now)
  BY <1>2, <1>6, TruthIsListed DEF AccessInv, ListsAreOld
<1>7. ~Around.slow /\ now > changed => value = A!Truth(key)
  BY <1>2 DEF AccessInv, ListsAreTrue
<1>8. /\ cache' \in [A!Keys -> Entries] /\ \A k \in A!Keys : cache'[k].at <= now
      /\ cache'[key] = [known |-> TRUE, value |-> value, at |-> now]
      /\ \A k \in A!Keys : k # key => cache'[k] = cache[k]
  <2>1. [known |-> TRUE, value |-> value, at |-> now] \in Entries
    BY <1>2, <1>5 DEF Entries, AccessTyped
  <2>2. cache \in [A!Keys -> Entries] /\ (\A k \in A!Keys : cache[k].at <= now) /\ now \in Int
    BY <1>2 DEF AccessTyped
  <2> QED
    BY <1>1, <2>1, <2>2
<1>9. ~inflight'[key].busy /\ \A k \in A!Keys : k # key => inflight'[k] = inflight[k]
  BY <1>2, <1>3 DEF AccessTyped, A!NoFetch
<1>10. /\ \A k : A!Truth(k)' = A!Truth(k)
       /\ \A k, u, t : HeldAt(k, u, t)' = HeldAt(k, u, t)
  BY <1>3, WorldStays
<1>11. ~(Around.stale)' => ListsAreOld'
  <2> SUFFICES ASSUME ~Around.stale, NEW k \in A!Keys
               PROVE  /\ cache'[k].known => \A u \in cache'[k].value : HeldAt(k, u, cache'[k].at)
                      /\ inflight'[k].busy => \A u \in inflight'[k].value : HeldAt(k, u, now)
    BY <1>3, <1>4, <1>10 DEF ListsAreOld
  <2>1. ListsAreOld
    BY DEF AccessInv
  <2> QED
    BY <1>6, <1>8, <1>9, <2>1 DEF ListsAreOld
<1>12. ~(Around.slow)' => ListsAreTrue'
  <2> SUFFICES ASSUME ~Around.slow, NEW k \in A!Keys
               PROVE  /\ cache'[k].known /\ cache'[k].at > changed => cache'[k].value = A!Truth(k)
                      /\ inflight'[k].busy /\ now > changed => inflight'[k].value = A!Truth(k)
    BY <1>3, <1>4, <1>10 DEF ListsAreTrue
  <2>1. ListsAreTrue
    BY DEF AccessInv
  <2> QED
    BY <1>7, <1>8, <1>9, <2>1 DEF ListsAreTrue
<1>13. ASSUME NEW f \in Flows, ~(Around.refused)', aFlow[f].wait = key, aFlow[f].entitled
       PROVE  IsTrue(key, value, Standing(aFlow[f].caller))
  <2>1. aFlow[f].at # "idle"
    <3>1. Staged(aFlow[f], kind) /\ key # "none"
      BY RequestIs DEF A!Keys
    <3> QED
      BY <1>13, <3>1 DEF Staged
  <2>2. Around.aged /\ ~Around.slow
    BY <1>4, <1>13, <2>1, RequestIs, AroundIs DEF Right
  <2>3. now > changed
    <3>1. now - changed >= TTL
      BY <2>2, AroundIs
    <3>2. now \in Int /\ changed \in Int /\ TTL \in Nat /\ TTL > 0
      BY <1>2, RightsParameters DEF AccessTyped
    <3> QED
      BY <3>1, <3>2
  <2> QED
    BY <1>5, <1>7, <2>2, <2>3
<1> QED
  BY <1>1, <1>4, <1>6, <1>8, <1>11, <1>12, <1>13, ResolvingKeeps

\* GitHub does not: the last list, however old, serves when there is one.
LEMMA FetchFailsKeeps ==
    ASSUME AccessInv, NEW key \in A!Keys, A!FetchFails(key)
    PROVE  AccessInv'
<1> DEFINE value == IF inflight[key].entry.known THEN inflight[key].entry.value ELSE {}
           why == IF A!Answers(key) THEN "outage" ELSE "unlisted"
<1>1. A!Resolve(key, value) /\ A!Uses({why}) /\ UNCHANGED cache
  BY DEF A!FetchFails
<1>2. AccessTyped
  BY DEF AccessInv
<1>3. Calmer /\ aUsed'[why] > 0
  <2>1. {why} \subseteq A!Kinds
    BY DEF A!Kinds
  <2> QED
    BY <1>1, <1>2, <2>1, AccessEvents DEF Calmer, AccessTyped
<1>4. (Around.stale)' /\ (A!Answers(key) => (Around.refused)')
  <2>1. aUsed'[why] # 0
    BY <1>3
  <2> QED
    BY <2>1 DEF Around, A!Never
<1>5. /\ UNCHANGED <<now, kind, github, until, changed, config, override, admins, sessions, aAsked>>
      /\ inflight' = [inflight EXCEPT ![key] = A!NoFetch]
  BY <1>1 DEF A!Resolve, A!outside, A!store
<1>6. ~(Around.slow)' => ListsAreTrue'
  <2> SUFFICES ASSUME ~(Around.slow)', NEW k \in A!Keys
               PROVE  /\ cache[k].known /\ cache[k].at > changed => cache[k].value = A!Truth(k)
                      /\ inflight'[k].busy /\ now > changed => inflight'[k].value = A!Truth(k)
    BY <1>1, <1>5, WorldStays DEF ListsAreTrue
  <2>1. ListsAreTrue
    BY <1>3, WhatHasHappened DEF AccessInv
  <2>2. inflight'[k] = IF k = key THEN A!NoFetch ELSE inflight[k]
    BY <1>2, <1>5 DEF AccessTyped
  <2> QED
    BY <2>1, <2>2 DEF ListsAreTrue, A!NoFetch
<1>7. cache' \in [A!Keys -> Entries] /\ \A k \in A!Keys : cache'[k].at <= now
  BY <1>1, <1>2 DEF AccessTyped
<1>8. ASSUME NEW f \in Flows, ~(Around.refused)', aFlow[f].wait = key, Honoured(aFlow[f], Standing(aFlow[f].caller))
      PROVE  FALSE
  <2>1. key # "apps" /\ ~github.installed
    BY <1>4, <1>8 DEF A!Answers
  <2>2. Staged(aFlow[f], kind) /\ key # "none"
    BY RequestIs DEF A!Keys
  <2>3. aFlow[f].at \in {"members", "owners"} /\ aFlow[f].installed
    BY <1>8, <2>1, <2>2 DEF Staged, Listing
  <2>4. aFlow[f].installed = github.installed
    BY <1>8, <2>3 DEF Honoured, Judging, Standing
  <2> QED
    BY <2>1, <2>3, <2>4
<1> HIDE DEF value
<1> QED
  BY <1>1, <1>3, <1>4, <1>6, <1>7, <1>8, ResolvingKeeps

-----------------------------------------------------------------------------
(* They change.                                                            *)

\* What a request has noticed grows, and so does what held lately.
Grows(fl, gl) ==
    /\ gl.caller = fl.caller /\ gl.start = fl.start /\ gl.todo = fl.todo /\ gl.at = fl.at /\ gl.node = fl.node
    /\ gl.does = fl.does /\ gl.wait = fl.wait /\ gl.installed = fl.installed /\ gl.defaults = fl.defaults
    /\ fl.wasAdmin => gl.wasAdmin
    /\ fl.wasIn => gl.wasIn
    /\ fl.could \subseteq gl.could
\* The rights of a request are as good as before.
LEMMA RightGrows ==
    ASSUME NEW fl, NEW gl, Grows(fl, gl), NEW w, NEW v, NEW s, NEW r,
           w.installed => v.installed, w.member => v.member, w.owner => v.owner,
           fl.caller \in Users /\ Witnesses(fl, s) => Witnesses(gl, r), RightsOf(fl, w, s)
    PROVE  RightsOf(gl, v, r)
<1>1. \A c : Proven(fl, w, c) => Proven(gl, v, c)
  BY DEF Grows, Proven, Manages
<1>2. Owed(fl, w) => Owed(gl, v)
  BY <1>1 DEF Owed, Grows
<1>3. Judged(fl, w) => Judged(gl, v)
  BY DEF Judged, Grows, Covers, FirstCheck
<1> QED
  BY <1>2, <1>3 DEF RightsOf, Going, Grows

\* Every request notices what happens; all are right then.
LEMMA NoticedIsRight ==
    ASSUME NEW fl, NEW gl, Grows(fl, gl), ~gl.entitled, NEW w, NEW v, NEW s, NEW r, NEW n, NEW m,
           w.installed => v.installed, w.member => v.member, w.owner => v.owner,
           fl.caller \in Users /\ Witnesses(fl, s) => Witnesses(gl, r),
           m.kind = n.kind, m.now = n.now, ~m.slow => ~n.slow, ~m.stale => ~n.stale, ~m.overlap => ~n.overlap,
           ~m.overlap /\ fl.at \in {"exists", "row"} => r.defaults = s.defaults,
           Right(fl, w, s, n)
    PROVE  Right(gl, v, r, m)
<1>1. Staged(gl, m.kind)
  BY DEF Right, Staged, Grows, FirstCheck, Listing
<1>2. Going(gl) => Led(gl)
  BY DEF Right, Going, Led, Grows
<1>3. ~m.stale => RightsOf(gl, v, r)
  BY RightGrows DEF Right
<1> QED
  BY <1>1, <1>2, <1>3 DEF Right, HonourOf, Grows

\* The tables change.
LEMMA TablesKeep ==
    ASSUME AccessInv, NEW f \in Flows, NEW record \in Requested, aFlow' = A!Witnessed(record, f),
           aFlow[f].wait = "none", record.wait = "none", aFlow[f].at # "idle",
           UNCHANGED <<now, A!outside, A!caches, aUsed>>,
           config' \in [exists : BOOLEAN, caps : SUBSET A!All], override' \in [Users -> SUBSET A!All],
           admins' \in SUBSET Users, aAsked' \in [defaults : SUBSET A!All, override : [Users -> SUBSET A!All]],
           aAsked'.override = override', ~Around.overlap => config'.caps = aAsked'.defaults,
           record.caller = aFlow[f].caller \/ record.at = "idle", record.start = aFlow[f].start \/ record.at = "idle",
           \A r : r.defaults = config'.caps =>
                Right(record, Lately(record.caller, record.start), r, Around)
    PROVE  AccessInv'
<1>1. UNCHANGED <<now, kind, github, until, changed, sessions, cache, inflight, aUsed>>
  BY DEF A!outside, A!caches
<1>2. AccessTyped /\ aFlow \in [Flows -> Requested] /\ Around' = Around
  BY <1>1 DEF AccessInv, AccessTyped, Around, A!Never
<1> DEFINE caps(u) == config'.caps \cup override'[u]
           noticed(g) == [aFlow[g] EXCEPT
               !.entitled = FALSE,
               !.could = IF aFlow[g].caller \in Users THEN @ \cup config'.caps \cup override'[aFlow[g].caller] \cup
                               (IF config'.caps \cup override'[aFlow[g].caller] = {} THEN {} ELSE {"view"})
                         ELSE @,
               !.wasAdmin = @ \/ aFlow[g].caller \in admins']
<1>3. aFlow' = [g \in Flows |-> IF g = f THEN record ELSE IF A!Idle(g) THEN aFlow[g] ELSE noticed(g)]
  BY DEF A!Witnessed
<1>4. ASSUME NEW g \in Flows, g # f, aFlow[g].at # "idle"
      PROVE  /\ aFlow'[g] \in Requested /\ Grows(aFlow[g], aFlow'[g]) /\ ~aFlow'[g].entitled
             /\ aFlow[g].caller \in Users => aFlow'[g].could =
                    aFlow[g].could \cup caps(aFlow[g].caller) \cup (IF caps(aFlow[g].caller) = {} THEN {} ELSE {"view"})
             /\ aFlow'[g].wasAdmin = (aFlow[g].wasAdmin \/ aFlow[g].caller \in admins')
  <2> DEFINE fl == aFlow[g]
             could == IF fl.caller \in Users
                      THEN fl.could \cup caps(fl.caller) \cup (IF caps(fl.caller) = {} THEN {} ELSE {"view"}) ELSE fl.could
             admin == fl.wasAdmin \/ fl.caller \in admins'
             gl == [fl EXCEPT !.entitled = FALSE, !.could = could, !.wasAdmin = admin]
  <2>1. fl \in Requested
    BY <1>2
  <2>2. aFlow'[g] = noticed(g)
    BY <1>3, <1>4 DEF A!Idle
  <2>3. aFlow'[g] = gl
    <3>1. fl.could \cup config'.caps \cup override'[fl.caller] = fl.could \cup caps(fl.caller)
      OBVIOUS
    <3> QED
      BY <2>1, <2>2, <3>1 DEF Requested
  <2>4. could \in SUBSET A!All /\ admin \in BOOLEAN
    <3>1. fl.could \in SUBSET A!All /\ fl.wasAdmin \in BOOLEAN /\ "view" \in A!All
      BY <2>1, PartsOf DEF A!All
    <3>2. config'.caps \in SUBSET A!All /\ \A v \in Users : override'[v] \in SUBSET A!All
      OBVIOUS
    <3>3. fl.caller \in Users => caps(fl.caller) \in SUBSET A!All
      BY <3>2
    <3> HIDE DEF caps
    <3> QED
      BY <3>1, <3>3
  <2>5. fl.could \subseteq could /\ (fl.wasAdmin => admin)
    OBVIOUS
  <2> HIDE DEF could, admin, fl
  <2>6. gl \in Requested /\ Grows(fl, gl) /\ ~gl.entitled /\ gl.could = could /\ gl.wasAdmin = admin
    <3> DEFINE el == [fl EXCEPT !.entitled = FALSE]
               hl == [el EXCEPT !.could = could]
    <3>1. gl = [hl EXCEPT !.wasAdmin = admin]
      OBVIOUS
    <3>2. el \in Requested /\ Grows(fl, el) /\ ~el.entitled
      BY <2>1 DEF Requested, Grows
    <3> HIDE DEF el, gl
    <3>3. hl \in Requested /\ Grows(fl, hl) /\ ~hl.entitled /\ hl.could = could
      BY <2>4, <2>5, <3>2 DEF Requested, Grows
    <3> HIDE DEF hl
    <3> QED
      BY <2>4, <2>5, <3>1, <3>3 DEF Requested, Grows
  <2> QED
    BY <2>3, <2>6 DEF could, admin, fl
<1> HIDE DEF noticed
<1>5. \A g \in Flows : /\ aFlow'[g] \in Requested /\ aFlow'[g].wait = aFlow[g].wait
                       /\ aFlow'[g].at # "idle" => aFlow[g].at # "idle"
  <2> TAKE g \in Flows
  <2>1. CASE g = f
    BY <1>3, <2>1
  <2>2. CASE g # f /\ aFlow[g].at = "idle"
    BY <1>2, <1>3, <2>2 DEF A!Idle
  <2>3. CASE g # f /\ aFlow[g].at # "idle"
    BY <1>4, <2>3 DEF Grows
  <2> QED
    BY <2>1, <2>2, <2>3
<1>6. aFlow' \in [Flows -> Requested]
  BY <1>3, <1>5
<1>7. AccessTyped'
  BY <1>1, <1>2, <1>6 DEF AccessTyped
<1>8. Awaited'
  BY <1>1, <1>5 DEF AccessInv, Awaited
<1>9. (\A k : A!Truth(k)' = A!Truth(k)) /\ (\A k, u, t : HeldAt(k, u, t)' = HeldAt(k, u, t))
      /\ \A u, t : Lately(u, t)' = Lately(u, t)
  BY <1>1 DEF A!Truth, HeldAt, Lately
<1>10. (~(Around.stale)' => ListsAreOld') /\ (~(Around.slow)' => ListsAreTrue')
  BY <1>1, <1>2, <1>9 DEF AccessInv, ListsAreOld, ListsAreTrue
<1>11. ~(Around.overlap)' => Turns'
  BY <1>2, <1>5 DEF AccessInv, Turns
<1>12. AllRight'
  <2> SUFFICES ASSUME NEW g \in Flows, NEW u \in {aFlow'[g].caller}, NEW t \in {aFlow'[g].start}
               PROVE  Right(aFlow'[g], Lately(u, t), Standing(u)', Around)
    BY <1>2, <1>9 DEF AllRight
  <2>1. Standing(u)'.defaults = config'.caps
    BY DEF Standing
  <2>2. CASE g = f
    BY <1>3, <2>1, <2>2
  <2>3. CASE g # f /\ aFlow[g].at = "idle"
    <3>1. aFlow'[g] = aFlow[g] /\ Staged(aFlow[g], Around.kind)
      BY <1>3, <2>3, RequestIs, AroundIs DEF A!Idle
    <3> QED
      BY <2>3, <3>1 DEF Right, Going, RightsOf, HonourOf
  <2>4. CASE g # f /\ aFlow[g].at # "idle"
    <3> DEFINE fl == aFlow[g]
               gl == aFlow'[g]
               w == Lately(u, t)
               s == Standing(u)
               r == Standing(u)'
    <3>1. Grows(fl, gl) /\ ~gl.entitled /\ u = fl.caller /\ t = fl.start
      BY <1>4, <2>4 DEF Grows
    <3>2. Right(fl, w, s, Around)
      BY <3>1 DEF AccessInv, AllRight
    <3>3. ASSUME fl.caller \in Users, Witnesses(fl, s) PROVE Witnesses(gl, r)
      <4>1. (s.admin <=> u \in admins \cup Supers) /\ (s.in <=> u \in sessions)
        BY DEF Standing, A!IsAdmin
      <4>2. (r.admin <=> u \in admins' \cup Supers) /\ (r.in <=> u \in sessions)
            /\ r.defaults \cup r.override = caps(u)
        BY <1>1, <3>1, <3>3 DEF Standing, A!IsAdmin
      <4>3. /\ gl.could = fl.could \cup caps(u) \cup (IF caps(u) = {} THEN {} ELSE {"view"})
            /\ gl.wasAdmin = (fl.wasAdmin \/ u \in admins') /\ (fl.wasIn => gl.wasIn)
        BY <1>4, <2>4, <3>1, <3>3 DEF Grows
      <4> HIDE DEF caps, s, r, fl, gl
      <4> QED
        BY <3>3, <4>1, <4>2, <4>3 DEF Witnesses, Covers
    <3>4. ~Around.overlap => FALSE
      BY <2>4 DEF AccessInv, Turns
    <3> HIDE DEF fl, gl, w, s, r
    <3>5. Right(gl, w, r, Around)
      BY <3>1, <3>2, <3>3, <3>4, NoticedIsRight
    <3> QED
      BY <3>5 DEF gl, w, r
  <2> QED
    BY <2>2, <2>3, <2>4
<1> QED
  BY <1>7, <1>8, <1>10, <1>11, <1>12 DEF AccessInv

\* An override writes the row it did not find, with the defaults it has read.
LEMMA WriteRowKeeps ==
    ASSUME AccessInv, NEW f \in Flows, A!WriteRow(f)
    PROVE  AccessInv'
<1> DEFINE fl == aFlow[f]
           gl == [fl EXCEPT !.at = "write"]
           w == Lately(fl.caller, fl.start)
           s == Standing(fl.caller)
<1>1. fl \in Requested /\ Right(fl, w, s, Around) /\ fl.at = "row" /\ fl.wait = "none" /\ fl.defaults \in SUBSET A!All
  BY RequestIs, PartsOf DEF A!WriteRow, A!At
<1>2. /\ config' = [exists |-> TRUE, caps |-> fl.defaults] /\ UNCHANGED <<override, admins, aAsked>>
      /\ aFlow' = A!Witnessed(gl, f) /\ UNCHANGED <<now, A!outside, A!caches, aUsed>>
  BY DEF A!WriteRow
<1>3. /\ override \in [Users -> SUBSET A!All] /\ admins \in SUBSET Users /\ aAsked.override = override
      /\ aAsked \in [defaults : SUBSET A!All, override : [Users -> SUBSET A!All]]
  BY DEF AccessInv, AccessTyped
<1>4. ~Around.overlap => config'.caps = aAsked.defaults
  <2>1. ~Around.overlap => fl.defaults = config.caps
    BY <1>1 DEF Right, Standing
  <2> QED
    BY <1>2, <2>1 DEF AccessInv, Turns
<1>5. config' \in [exists : BOOLEAN, caps : SUBSET A!All]
  BY <1>1, <1>2
<1>6. /\ gl \in Requested /\ Alike(fl, gl) /\ gl.todo = fl.todo /\ gl.node = fl.node /\ gl.does = fl.does /\ gl.wait = "none"
      /\ gl.at = "write" /\ gl.caller = fl.caller /\ gl.start = fl.start
  BY <1>1 DEF Requested, Alike, Places
<1> HIDE DEF fl, gl, w, s
<1>7. Staged(gl, Around.kind) /\ fl.todo = <<>> /\ gl.at \notin Checking /\ Going(fl)
  <2>1. Staged(fl, Around.kind) /\ fl.at \notin Checking
    BY <1>1 DEF Right, Checking, Judging
  <2> QED
    BY <1>1, <1>6, <2>1 DEF Staged, Checking, Judging, Going
<1>8. Led(gl)
  BY <1>1, <1>6, <1>7 DEF Right, Led
<1>9. \A c : Proven(fl, w, c) => Proven(gl, w, c)
  BY <1>6 DEF Proven, Manages, Alike
<1>10. ASSUME NEW r, ~Around.stale PROVE RightsOf(gl, w, r)
  <2>1. gl.caller \in Users => Owed(fl, w)
    BY <1>1, <1>6, <1>7, <1>10 DEF Right, RightsOf
  <2>2. Owed(fl, w) => Owed(gl, w)
    BY <1>6, <1>9 DEF Owed
  <2> QED
    BY <1>7, <2>1, <2>2 DEF RightsOf
<1>11. ASSUME NEW r, ~Around.refused PROVE HonourOf(gl, r)
  <2>1. gl.entitled => fl.node = "leader"
    BY <1>1, <1>6, <1>11 DEF Right, HonourOf, Honoured, Alike
  <2>2. \A i \in 1..Len(gl.todo) : FALSE
    BY <1>6, <1>7
  <2> QED
    BY <1>6, <1>7, <2>1, <2>2 DEF HonourOf, Honoured, Checking, Judging
<1>12. ASSUME NEW r PROVE Right(gl, w, r, Around)
  BY <1>1, <1>6, <1>7, <1>8, <1>10, <1>11 DEF Right, Alike
<1>13. \A r : r.defaults = config'.caps => Right(gl, Lately(gl.caller, gl.start), r, Around)
  BY <1>6, <1>12 DEF w
<1>14. aFlow[f].wait = "none" /\ aFlow[f].at # "idle" /\ gl.caller = aFlow[f].caller /\ gl.start = aFlow[f].start
  BY <1>1, <1>6 DEF fl
<1>15. gl \in Requested /\ gl.wait = "none"
  BY <1>6
<1>16. /\ override' \in [Users -> SUBSET A!All] /\ admins' \in SUBSET Users /\ aAsked'.override = override'
       /\ aAsked' \in [defaults : SUBSET A!All, override : [Users -> SUBSET A!All]]
       /\ ~Around.overlap => config'.caps = aAsked'.defaults
  BY <1>2, <1>3, <1>4
<1> QED
  BY <1>2, <1>5, <1>13, <1>14, <1>15, <1>16, TablesKeep

\* A request writes the tables, and is answered.
LEMMA WriteTablesKeeps ==
    ASSUME AccessInv, NEW f \in Flows, A!WriteTables(f)
    PROVE  AccessInv'
<1> DEFINE fl == aFlow[f]
<1>1. fl \in Requested /\ fl.with \in SUBSET A!All
  BY RequestIs, PartsOf
<1>2. fl.at # "idle" /\ fl.wait = "none"
  BY DEF A!WriteTables, A!SetTeamDefaults, A!SetTeamOverride, A!ClearTeamOverride, A!AddAdmin, A!RemoveAdmin, A!At
<1>3. aFlow' = A!Witnessed(A!NoFlow, f) /\ UNCHANGED <<now, A!outside, A!caches, aUsed>>
  BY DEF A!WriteTables
<1>4. /\ config \in [exists : BOOLEAN, caps : SUBSET A!All]
      /\ override \in [Users -> SUBSET A!All] /\ admins \in SUBSET Users /\ aAsked.override = override
      /\ aAsked \in [defaults : SUBSET A!All, override : [Users -> SUBSET A!All]]
      /\ ~Around.overlap => config.caps = aAsked.defaults
  BY DEF AccessInv, AccessTyped, Turns
<1> DEFINE Kept ==
        /\ config' \in [exists : BOOLEAN, caps : SUBSET A!All]
        /\ override' \in [Users -> SUBSET A!All] /\ admins' \in SUBSET Users /\ aAsked'.override = override'
        /\ aAsked' \in [defaults : SUBSET A!All, override : [Users -> SUBSET A!All]]
        /\ ~Around.overlap => config'.caps = aAsked'.defaults
<1>5. Kept
  <2>1. CASE A!SetTeamDefaults(f)
    <3>1. /\ config' = [exists |-> TRUE, caps |-> fl.with] /\ aAsked' = [aAsked EXCEPT !.defaults = fl.with]
          /\ UNCHANGED <<override, admins>>
      BY <2>1 DEF A!SetTeamDefaults
    <3> HIDE DEF fl
    <3> QED
      BY <1>1, <1>4, <3>1
  <2>2. ASSUME NEW u \in Users, NEW caps \in SUBSET A!All, override' = [override EXCEPT ![u] = caps],
               aAsked' = [aAsked EXCEPT !.override[u] = caps], UNCHANGED <<config, admins>>
        PROVE  Kept
    <3>1. override' \in [Users -> SUBSET A!All]
      BY <1>4, <2>2
    <3>2. aAsked' = [aAsked EXCEPT !.override = override']
      BY <1>4, <2>2
    <3> QED
      BY <1>4, <2>2, <3>1, <3>2
  <2>3. ASSUME NEW u \in Users \ Supers, A!SetTeamOverride(f, u) PROVE Kept
    BY <1>1, <2>2, <2>3 DEF A!SetTeamOverride
  <2>4. ASSUME NEW u \in Users \ Supers, A!ClearTeamOverride(f, u) PROVE Kept
    <3>1. {} \in SUBSET A!All
      OBVIOUS
    <3> QED
      BY <2>2, <2>4, <3>1 DEF A!ClearTeamOverride
  <2>5. ASSUME NEW u \in Users \ Supers, A!AddAdmin(f, u) \/ A!RemoveAdmin(f, u) PROVE Kept
    BY <1>4, <2>5 DEF A!AddAdmin, A!RemoveAdmin
  <2> QED
    BY <2>1, <2>3, <2>4, <2>5 DEF A!WriteTables
<1>6. \A r : Right(A!NoFlow, Lately(A!NoFlow.caller, A!NoFlow.start), r, Around)
  BY NoFlowIsRight
<1> QED
  BY <1>2, <1>3, <1>5, <1>6, NoFlowIsRight, TablesKeep

\* Every request notices that lists or sessions change.
LEMMA NoticedByAll ==
    ASSUME AccessInv, AccessTyped', Calmer, UNCHANGED <<now, kind, inflight, config, override, admins, aAsked>>,
           \A f \in Flows : /\ Grows(aFlow[f], aFlow'[f]) /\ ~aFlow'[f].entitled
                            /\ aFlow[f].caller \in sessions' \ sessions => aFlow'[f].wasIn,
           ~(Around.stale)' => ListsAreOld', ~(Around.slow)' => ListsAreTrue',
           \A u \in Users, t \in {now} : /\ Lately(u, t).installed => Lately(u, t)'.installed
                                         /\ Lately(u, t).member => Lately(u, t)'.member
                                         /\ Lately(u, t).owner => Lately(u, t)'.owner
    PROVE  AccessInv'
<1>1. Awaited'
  BY DEF AccessInv, Awaited, Grows
<1>2. ~(Around.overlap)' => Turns'
  BY WhatHasHappened DEF AccessInv, Turns, Grows
<1>3. AllRight'
  <2> SUFFICES ASSUME NEW f \in Flows, NEW u \in {aFlow'[f].caller}, NEW t \in {aFlow'[f].start}
               PROVE  Right(aFlow'[f], Lately(u, t)', Standing(u)', Around')
    BY DEF AllRight
  <2> DEFINE fl == aFlow[f]
             gl == aFlow'[f]
             w == Lately(u, t)
             v == Lately(u, t)'
             s == Standing(u)
             r == Standing(u)'
             n == Around
             m == Around'
  <2>1. Grows(fl, gl) /\ ~gl.entitled /\ u = fl.caller /\ t = fl.start
    BY DEF Grows
  <2>2. Right(fl, w, s, n)
    BY <2>1 DEF AccessInv, AllRight
  <2>3. /\ r.defaults = s.defaults /\ r.override = s.override /\ (r.admin <=> s.admin)
        /\ r.in => s.in \/ gl.wasIn
    BY <2>1 DEF Standing, A!IsAdmin
  <2>4. /\ m.kind = n.kind /\ m.now = n.now
        /\ ~m.slow => ~n.slow /\ n.now = now
        /\ ~m.stale => ~n.stale /\ ~m.slow
        /\ ~m.overlap => ~n.overlap
    BY WhatHasHappened DEF Around
  <2>5. fl.at # "idle" /\ ~m.stale => t = now
    BY <2>1, <2>2, <2>4 DEF Right
  <2>6. u \in Users /\ t = now => (w.installed => v.installed) /\ (w.member => v.member) /\ (w.owner => v.owner)
    OBVIOUS
  <2> HIDE DEF fl, gl, w, v, s, r, n, m
  <2>7. Witnesses(fl, s) => Witnesses(gl, r)
    BY <2>1, <2>3 DEF Witnesses, Covers, Grows
  <2>8. CASE fl.at # "idle" /\ ~m.stale /\ u \in Users
    BY <2>1, <2>2, <2>3, <2>4, <2>5, <2>6, <2>7, <2>8, NoticedIsRight DEF gl, v, r, m
  <2>9. CASE fl.at = "idle" \/ m.stale \/ u \notin Users
    <3>1. Right(gl, w, r, m)
      BY <2>1, <2>2, <2>3, <2>4, <2>7, NoticedIsRight
    <3>2. gl.at = fl.at /\ gl.caller = u
      BY <2>1 DEF Grows
    <3>3. ~m.stale => RightsOf(gl, v, r)
      BY <2>9, <3>2 DEF RightsOf, Going
    <3>4. Right(gl, v, r, m)
      BY <3>1, <3>3 DEF Right
    <3> QED
      BY <3>4 DEF gl, v, r, m
  <2> QED
    BY <2>8, <2>9
<1> QED
  BY <1>1, <1>2, <1>3 DEF AccessInv

\* What GitHub would answer changes: what was so until now still held lately.
LEMMA GithubKeeps ==
    ASSUME AccessInv, NEW to \in AtGithub, to.owners \subseteq to.members, NEW kinds \in SUBSET A!Kinds,
           A!GithubChanges(to, kinds)
    PROVE  AccessInv'
<1>1. /\ github' = to /\ changed' = now
      /\ until' = [installed |-> IF github.installed THEN now ELSE until.installed,
                   members |-> [u \in Users |-> IF u \in github.members THEN now ELSE until.members[u]],
                   owners |-> [u \in Users |-> IF u \in github.owners THEN now ELSE until.owners[u]]]
      /\ aFlow' = [f \in Flows |-> [aFlow[f] EXCEPT !.entitled = FALSE]]
      /\ UNCHANGED <<now, kind, sessions, cache, inflight, config, override, admins, aAsked>>
  BY DEF A!GithubChanges, A!caches, A!store
<1>2. AccessTyped /\ aFlow \in [Flows -> Requested] /\ now \in Int /\ TTL \in Nat \ {0} /\ cache \in [A!Keys -> Entries]
      /\ until \in [installed : Int, members : [Users -> Int], owners : [Users -> Int]]
      /\ github \in AtGithub /\ AccessTime \in Nat
  BY RightsParameters DEF AccessInv, AccessTyped
<1>3. Calmer
  BY <1>2, AccessEvents DEF A!GithubChanges, Calmer, AccessTyped
<1>4. ASSUME NEW f \in Flows
      PROVE  aFlow'[f] \in Requested /\ Grows(aFlow[f], aFlow'[f]) /\ ~aFlow'[f].entitled
  <2> DEFINE fl == aFlow[f]
  <2>1. fl \in Requested /\ aFlow'[f] = [fl EXCEPT !.entitled = FALSE]
    BY <1>1, <1>2
  <2> HIDE DEF fl
  <2>2. aFlow'[f] \in Requested /\ Grows(fl, aFlow'[f]) /\ ~aFlow'[f].entitled
    BY <2>1 DEF Requested, Grows
  <2> QED
    BY <2>2 DEF fl
<1>5. /\ until' \in [installed : Int, members : [Users -> Int], owners : [Users -> Int]]
      /\ github.installed => until'.installed = now
      /\ ~github.installed => until'.installed = until.installed
      /\ \A u \in Users :
            /\ until'.members[u] = (IF u \in github.members THEN now ELSE until.members[u])
            /\ until'.owners[u] = (IF u \in github.owners THEN now ELSE until.owners[u])
  BY <1>1, <1>2
<1>6. AccessTyped'
  <2>1. aFlow' \in [Flows -> Requested]
    BY <1>1, <1>4
  <2> QED
    BY <1>1, <1>2, <1>3, <1>5, <2>1 DEF AccessTyped, Calmer
<1>7. \A u \in Users, t \in {now} : /\ Lately(u, t).installed => Lately(u, t)'.installed
                                    /\ Lately(u, t).member => Lately(u, t)'.member
                                    /\ Lately(u, t).owner => Lately(u, t)'.owner
  <2> TAKE u \in Users, t \in {now}
  <2>1. until.installed \in Int /\ until.members[u] \in Int /\ until.owners[u] \in Int /\ now > t - TTL
    BY <1>2
  <2> QED
    BY <1>1, <1>2, <1>5, <2>1 DEF Lately
<1>8. \A k \in A!Keys, t \in 0..AccessTime : \A u : t <= now /\ HeldAt(k, u, t) => HeldAt(k, u, t)'
  BY <1>1, <1>2, <1>5 DEF HeldAt
<1>9. ~(Around.stale)' => ListsAreOld'
  <2> SUFFICES ASSUME ~(Around.stale)' PROVE ListsAreOld'
    OBVIOUS
  <2>1. ListsAreOld
    BY <1>3, WhatHasHappened DEF AccessInv
  <2>2. \A k \in A!Keys : cache[k].at \in 0..AccessTime /\ cache[k].at <= now /\ now \in 0..AccessTime
    BY <1>2 DEF AccessTyped, Entries
  <2> QED
    BY <1>1, <1>2, <1>8, <2>1, <2>2 DEF ListsAreOld
<1>10. ListsAreTrue'
  <2>1. \A k \in A!Keys : cache[k].at \in Int /\ cache[k].at <= now
    BY <1>2 DEF AccessTyped, Entries
  <2> QED
    BY <1>1, <1>2, <2>1 DEF ListsAreTrue
<1> QED
  BY <1>1, <1>3, <1>4, <1>6, <1>7, <1>9, <1>10, NoticedByAll

\* The App is installed or uninstalled.
LEMMA InstallationKeeps == AccessInv /\ A!InstallationChanges => AccessInv'
<1> SUFFICES ASSUME AccessInv, A!InstallationChanges PROVE AccessInv'
  OBVIOUS
<1>1. github \in AtGithub /\ github.owners \subseteq github.members
  BY DEF AccessInv, AccessTyped
<1>2. [github EXCEPT !.installed = ~@] \in AtGithub
  BY <1>1 DEF AtGithub
<1>3. [github EXCEPT !.installed = ~@].owners \subseteq [github EXCEPT !.installed = ~@].members
  BY <1>1 DEF AtGithub
<1>4. {"installation"} \subseteq A!Kinds
  BY DEF A!Kinds
<1> QED
  BY <1>2, <1>3, <1>4, GithubKeeps DEF A!InstallationChanges

\* Somebody joins the organization, leaves it, or becomes an owner of it.
LEMMA MembershipKeeps ==
    ASSUME AccessInv, NEW u \in Users, A!MembershipChanges(u)
    PROVE  AccessInv'
<1>1. github \in AtGithub /\ github.owners \subseteq github.members /\ {"membership"} \in SUBSET A!Kinds
  BY DEF AccessInv, AccessTyped, A!Kinds
<1>2. PICK to \in AtGithub : to.owners \subseteq to.members /\ A!GithubChanges(to, {"membership"})
  <2>1. CASE u \notin github.members /\ A!GithubChanges([github EXCEPT !.members = @ \cup {u}], {"membership"})
    <3> DEFINE to == [github EXCEPT !.members = @ \cup {u}]
    <3>1. to \in AtGithub /\ to.owners \subseteq to.members
      BY <1>1 DEF AtGithub
    <3> QED
      BY <2>1, <3>1
  <2>2. CASE A!GithubChanges([github EXCEPT !.members = @ \ {u}, !.owners = @ \ {u}], {"membership"})
    <3> DEFINE to == [github EXCEPT !.members = @ \ {u}, !.owners = @ \ {u}]
    <3>1. to \in AtGithub /\ to.owners \subseteq to.members
      BY <1>1 DEF AtGithub
    <3> QED
      BY <2>2, <3>1
  <2>3. CASE u \in github.members \ github.owners /\ A!GithubChanges([github EXCEPT !.owners = @ \cup {u}], {"membership"})
    <3> DEFINE to == [github EXCEPT !.owners = @ \cup {u}]
    <3>1. to \in AtGithub /\ to.owners \subseteq to.members
      BY <1>1, <2>3 DEF AtGithub
    <3> QED
      BY <2>3, <3>1
  <2>4. CASE A!GithubChanges([github EXCEPT !.owners = @ \ {u}], {"membership"})
    <3> DEFINE to == [github EXCEPT !.owners = @ \ {u}]
    <3>1. to \in AtGithub /\ to.owners \subseteq to.members
      BY <1>1 DEF AtGithub
    <3> QED
      BY <2>4, <3>1
  <2> QED
    BY <2>1, <2>2, <2>3, <2>4 DEF A!MembershipChanges
<1> QED
  BY <1>1, <1>2, GithubKeeps

\* Somebody signs in or out.
LEMMA SessionsKeep ==
    ASSUME AccessInv, NEW u \in Users, A!SessionChanges(u)
    PROVE  AccessInv'
<1>1. /\ sessions' \in SUBSET Users
      /\ aFlow' = [f \in Flows |-> [aFlow[f] EXCEPT !.entitled = FALSE, !.wasIn = @ \/ aFlow[f].caller \in sessions']]
      /\ UNCHANGED <<now, kind, github, until, changed, cache, inflight, config, override, admins, aAsked>>
  BY DEF A!SessionChanges, A!caches, A!store, AccessInv, AccessTyped
<1>2. AccessTyped /\ aFlow \in [Flows -> Requested]
  BY DEF AccessInv, AccessTyped
<1>3. Calmer
  <2>1. {"session"} \in SUBSET A!Kinds
    BY DEF A!Kinds
  <2> QED
    BY <1>2, <2>1, AccessEvents DEF A!SessionChanges, Calmer, AccessTyped
<1>4. ASSUME NEW f \in Flows
      PROVE  /\ aFlow'[f] \in Requested /\ Grows(aFlow[f], aFlow'[f]) /\ ~aFlow'[f].entitled
             /\ aFlow[f].caller \in sessions' => aFlow'[f].wasIn
  <2> DEFINE fl == aFlow[f]
             in == fl.wasIn \/ fl.caller \in sessions'
  <2>1. fl \in Requested /\ aFlow'[f] = [fl EXCEPT !.entitled = FALSE, !.wasIn = in]
    BY <1>1, <1>2
  <2>2. in \in BOOLEAN /\ (fl.wasIn => in) /\ (fl.caller \in sessions' => in)
    BY <2>1, PartsOf
  <2> HIDE DEF fl, in
  <2>3. aFlow'[f] \in Requested /\ Grows(fl, aFlow'[f]) /\ ~aFlow'[f].entitled /\ aFlow'[f].wasIn = in
    BY <2>1, <2>2 DEF Requested, Grows
  <2> QED
    BY <2>2, <2>3 DEF fl
<1>5. AccessTyped'
  <2>1. aFlow' \in [Flows -> Requested]
    BY <1>1, <1>4
  <2> QED
    BY <1>1, <1>2, <1>3, <2>1 DEF AccessTyped, Calmer
<1>6. /\ \A k, v, t : HeldAt(k, v, t)' = HeldAt(k, v, t)
      /\ \A k : A!Truth(k)' = A!Truth(k)
      /\ \A v, t : Lately(v, t)' = Lately(v, t)
  <2>1. \A k, v, t : HeldAt(k, v, t)' = HeldAt(k, v, t)
    BY <1>1 DEF HeldAt
  <2>2. \A k : A!Truth(k)' = A!Truth(k)
    BY <1>1 DEF A!Truth
  <2>3. \A v, t : Lately(v, t)' = Lately(v, t)
    BY <1>1 DEF Lately
  <2> QED
    BY <2>1, <2>2, <2>3
<1>7. (~(Around.stale)' => ListsAreOld') /\ (~(Around.slow)' => ListsAreTrue')
  BY <1>1, <1>3, <1>6, WhatHasHappened DEF AccessInv, ListsAreOld, ListsAreTrue
<1> QED
  BY <1>1, <1>3, <1>4, <1>5, <1>6, <1>7, NoticedByAll

\* Time passes: nothing is fetched while there is no request.
LEMMA TickKeeps == AccessInv /\ A!Tick => AccessInv'
<1> SUFFICES ASSUME AccessInv, A!Tick PROVE AccessInv'
  OBVIOUS
<1>1. /\ now' = now + 1 /\ now < AccessTime
      /\ UNCHANGED <<kind, github, until, changed, sessions, cache, inflight, config, override, admins, aAsked, aFlow>>
  BY DEF A!Tick, A!outside, A!caches, A!store
<1>2. AccessTyped /\ now \in Nat /\ AccessTime \in Nat /\ cache \in [A!Keys -> Entries]
  BY RightsParameters DEF AccessInv, AccessTyped
<1>3. \/ A!Quiet /\ UNCHANGED aUsed
      \/ A!Uses({"slow"})
  BY DEF A!Tick
<1>4. {"slow"} \in SUBSET A!Kinds
  BY DEF A!Kinds
<1>5. Calmer /\ (A!Quiet \/ (Around.slow)')
  <2>1. CASE A!Quiet /\ UNCHANGED aUsed
    BY <1>2, <2>1, NothingHappens
  <2>2. CASE A!Uses({"slow"})
    <3>1. aUsed \in [A!Kinds -> Nat]
      BY <1>2 DEF AccessTyped
    <3>2. Calmer /\ aUsed'["slow"] > 0
      BY <1>4, <2>2, <3>1, AccessEvents DEF Calmer
    <3>3. ~A!Never({"slow"})'
      BY <3>2 DEF A!Never
    <3> QED
      BY <3>2, <3>3 DEF Around
  <2> QED
    BY <1>3, <2>1, <2>2
<1>6. AccessTyped'
  <2>1. \A k \in A!Keys : cache[k].at <= now /\ cache[k].at \in Nat
    BY <1>2 DEF AccessTyped, Entries
  <2>2. now' \in 0..AccessTime /\ \A k \in A!Keys : cache[k].at <= now'
    BY <1>1, <1>2, <2>1
  <2> QED
    BY <1>1, <1>2, <1>5, <2>2 DEF AccessTyped, Calmer
<1>7. /\ \A u, t : Lately(u, t)' = Lately(u, t)
      /\ \A u : Standing(u)' = Standing(u)
      /\ \A k : A!Truth(k)' = A!Truth(k)
      /\ \A k, u, t : HeldAt(k, u, t)' = HeldAt(k, u, t)
  BY <1>1, WorldStays
<1>8. ASSUME A!Quiet PROVE \A k \in A!Keys : ~inflight[k].busy
  <2> SUFFICES ASSUME NEW k \in A!Keys, inflight[k].busy PROVE FALSE
    OBVIOUS
  <2>1. PICK f \in Flows : aFlow[f].wait = k
    BY DEF AccessInv, Awaited
  <2>2. k # "none"
    BY DEF A!Keys
  <2>3. Staged(aFlow[f], kind)
    BY RequestIs
  <2> QED
    BY <1>8, <2>1, <2>2, <2>3 DEF Staged, A!Quiet, A!Idle
<1>9. ~(Around.slow)' => ListsAreTrue'
  BY <1>1, <1>5, <1>7, <1>8, WhatHasHappened DEF AccessInv, ListsAreTrue
<1>10. ~(Around.stale)' => ListsAreOld'
  BY <1>1, <1>5, <1>7, <1>8, WhatHasHappened DEF AccessInv, ListsAreOld
<1>11. ~(Around.overlap)' => Turns'
  BY <1>1, <1>5, WhatHasHappened DEF AccessInv, Turns
<1>12. Awaited'
  BY <1>1 DEF AccessInv, Awaited
<1>13. AllRight'
  <2> SUFFICES ASSUME NEW f \in Flows, NEW u \in {aFlow[f].caller}, NEW t \in {aFlow[f].start}
               PROVE  Right(aFlow[f], Lately(u, t), Standing(u), Around')
    BY <1>1, <1>7 DEF AllRight
  <2> DEFINE fl == aFlow[f]
             w == Lately(u, t)
             s == Standing(u)
             n == Around
             m == Around'
  <2>1. Right(fl, w, s, n)
    BY DEF AccessInv, AllRight
  <2>2. m.kind = n.kind /\ (~m.stale => ~n.stale /\ ~m.slow) /\ (~m.refused => ~n.refused /\ ~m.slow) /\ (~m.overlap => ~n.overlap)
    BY <1>1, <1>5, WhatHasHappened DEF Around
  <2>3. ~m.slow => fl.at = "idle"
    BY <1>5 DEF A!Quiet, A!Idle
  <2> HIDE DEF fl, w, s, n, m
  <2>4. Right(fl, w, s, m)
    BY <2>1, <2>2, <2>3 DEF Right, HonourOf
  <2> QED
    BY <2>4 DEF fl, w, s, m
<1> QED
  BY <1>1, <1>6, <1>9, <1>10, <1>11, <1>12, <1>13 DEF AccessInv

\* No request, and lists that are true.
LEMMA AccessInvInitially == Init => AccessInv
<1> SUFFICES ASSUME Init PROVE AccessInv
  OBVIOUS
<1>1. A!Init
  BY DEF Init
<1>2. PICK start \in Starts :
        /\ kind = start.kind /\ github = start.github /\ admins = start.admins
        /\ config = [exists |-> start.caps # {}, caps |-> start.caps]
        /\ cache = [k \in A!Keys |-> IF start.warm THEN [known |-> TRUE, value |-> A!Truth(k), at |-> now] ELSE A!NoEntry]
  BY <1>1 DEF A!Init
<1>3. /\ now = TTL /\ changed = 0
      /\ until = [installed |-> -1, members |-> [u \in Users |-> -1], owners |-> [u \in Users |-> -1]]
      /\ inflight = [k \in A!Keys |-> A!NoFetch]
      /\ override = [u \in Users |-> {}] /\ sessions = Users
      /\ aFlow = [f \in Flows |-> A!NoFlow]
      /\ aAsked = [defaults |-> config.caps, override |-> override]
      /\ aUsed = [k \in A!Kinds |-> 0]
  BY <1>1 DEF A!Init
<1>4. /\ start.kind \in {"org", "user"} /\ start.github \in AtGithub /\ start.github.owners \subseteq start.github.members
      /\ start.admins \in SUBSET Users /\ start.caps \in SUBSET A!All
  BY RightsParameters DEF AtGithub
<1>5. now \in 0..AccessTime /\ 0 \in 0..AccessTime /\ now \in Nat /\ now > 0
  BY <1>3, RightsParameters
<1>6. \A k \in A!Keys : A!Truth(k) \in Lists /\ \A u \in A!Truth(k) : HeldAt(k, u, now)
  <2> TAKE k \in A!Keys
  <2>1. k \in {"apps", "members", "owners"}
    BY DEF A!Keys
  <2>2. github.members \subseteq Users /\ github.owners \subseteq Users /\ github.installed \in BOOLEAN
    BY <1>2, <1>4 DEF AtGithub
  <2>3. CASE k = "apps"
    <3>1. A!Truth(k) = IF github.installed THEN {"owner"} ELSE {}
      BY <2>3 DEF A!Truth
    <3> QED
      BY <2>3, <3>1 DEF Lists, HeldAt
  <2>4. CASE k \in {"members", "owners"}
    BY <2>2, <2>4 DEF A!Truth, Lists, HeldAt
  <2> QED
    BY <2>1, <2>3, <2>4
<1>7. A!NoEntry \in Entries /\ ~A!NoEntry.known /\ A!NoEntry.at = 0
  BY <1>5 DEF A!NoEntry, Entries, Lists
<1>8. A!NoFetch \in [busy : BOOLEAN, value : Lists, entry : Entries] /\ ~A!NoFetch.busy
  BY <1>7 DEF A!NoFetch, Lists
<1>9. \A k \in A!Keys :
        /\ cache[k] \in Entries /\ cache[k].at <= now
        /\ cache[k].known => cache[k].value = A!Truth(k) /\ cache[k].at = now
        /\ ~inflight[k].busy
  <2> TAKE k \in A!Keys
  <2>1. [known |-> TRUE, value |-> A!Truth(k), at |-> now] \in Entries
    BY <1>5, <1>6 DEF Entries
  <2>2. cache[k] = [known |-> TRUE, value |-> A!Truth(k), at |-> now] \/ cache[k] = A!NoEntry
    BY <1>2
  <2>3. ~inflight[k].busy
    BY <1>3, <1>8
  <2> QED
    BY <1>5, <1>7, <2>1, <2>2, <2>3
<1>10. AccessTyped
  <2>1. cache \in [A!Keys -> Entries] /\ inflight \in [A!Keys -> [busy : BOOLEAN, value : Lists, entry : Entries]]
    BY <1>2, <1>3, <1>8, <1>9
  <2>2. config \in [exists : BOOLEAN, caps : SUBSET A!All] /\ override \in [Users -> SUBSET A!All]
        /\ aAsked \in [defaults : SUBSET A!All, override : [Users -> SUBSET A!All]]
    BY <1>2, <1>3, <1>4
  <2>3. aFlow \in [Flows -> Requested] /\ aUsed \in [A!Kinds -> Nat]
    BY <1>3, NoFlowIsRight
  <2>4. until \in [installed : Int, members : [Users -> Int], owners : [Users -> Int]]
    BY <1>3
  <2> QED
    BY <1>2, <1>3, <1>4, <1>5, <1>9, <2>1, <2>2, <2>3, <2>4 DEF AccessTyped
<1>11. Awaited /\ ListsAreOld /\ ListsAreTrue
  BY <1>6, <1>9 DEF Awaited, ListsAreOld, ListsAreTrue
<1>12. Turns /\ AllRight
  BY <1>3, NoFlowIsRight DEF Turns, AllRight
<1> QED
  BY <1>3, <1>10, <1>11, <1>12 DEF AccessInv

\* What moves no request and no list changes no right.
LEMMA AccessIsLeft == AccessInv /\ UNCHANGED aVars => AccessInv'
<1> SUFFICES ASSUME AccessInv, UNCHANGED aVars PROVE AccessInv'
  OBVIOUS
<1>1. UNCHANGED <<now, kind, github, until, changed, cache, inflight, config, override, admins, sessions, aFlow, aAsked, aUsed>>
  BY DEF aVars
<1>2. /\ \A u, t : Lately(u, t)' = Lately(u, t)
      /\ \A u : Standing(u)' = Standing(u)
      /\ \A k : A!Truth(k)' = A!Truth(k)
      /\ \A k, u, t : HeldAt(k, u, t)' = HeldAt(k, u, t)
  BY <1>1, WorldStays
<1>3. Around' = Around
  BY <1>1 DEF Around, A!Never
<1>4. AccessTyped' /\ Awaited' /\ (Turns' <=> Turns)
  BY <1>1 DEF AccessInv, AccessTyped, Awaited, Turns
<1>5. (ListsAreOld' <=> ListsAreOld) /\ (ListsAreTrue' <=> ListsAreTrue)
  BY <1>1, <1>2 DEF ListsAreOld, ListsAreTrue
<1>6. AllRight'
  <2> SUFFICES ASSUME NEW f \in Flows, NEW u \in {aFlow[f].caller}, NEW t \in {aFlow[f].start}
               PROVE  Right(aFlow[f], Lately(u, t), Standing(u), Around)
    BY <1>1, <1>2, <1>3 DEF AllRight
  <2> QED
    BY DEF AccessInv, AllRight
<1> QED
  BY <1>1, <1>3, <1>4, <1>5, <1>6 DEF AccessInv

\* Every step keeps the rights right.
LEMMA AccessInvPreserved == AccessInv /\ [Next]_<<part, cVars, aVars, rVars>> => AccessInv'
<1> SUFFICES ASSUME AccessInv, [Next]_<<part, cVars, aVars, rVars>> PROVE AccessInv'
  OBVIOUS
<1>1. UNCHANGED aVars \/ A!Next
  BY DEF Next
<1>2. CASE UNCHANGED aVars
  BY <1>2, AccessIsLeft
<1>3. CASE A!Next
  <2>1. ASSUME NEW f \in Flows, NEW u \in Users \cup Machine, NEW how \in A!Requests, NEW side \in {"leader", "follower"},
               A!Begin(f, u, how, side)
        PROVE  AccessInv'
    BY <2>1, BeginKeeps
  <2>2. ASSUME NEW f \in Flows, \/ A!CheckHere(f) \/ A!ReadCache(f) \/ A!Check(f)
                                \/ A!Respond(f) \/ A!Act(f) \/ A!Resolved(f) \/ A!RowExists(f)
                                \/ A!WriteRow(f) \/ A!WriteTables(f)
        PROVE  AccessInv'
    BY <2>2, CheckHereKeeps, ReadingKeeps, CheckKeeps, HandlersKeep, WriteRowKeeps, WriteTablesKeeps
  <2>3. ASSUME NEW k \in A!Keys, A!Fetched(k) \/ A!FetchFails(k) PROVE AccessInv'
    BY <2>3, FetchedKeeps, FetchFailsKeeps
  <2>4. ASSUME NEW u \in Users, A!MembershipChanges(u) \/ A!SessionChanges(u) PROVE AccessInv'
    BY <2>4, MembershipKeeps, SessionsKeep
  <2> QED
    BY <1>3, <2>1, <2>2, <2>3, <2>4, InstallationKeeps, TickKeeps DEF A!Next
<1> QED
  BY <1>1, <1>2, <1>3

\* What a request does when its checks are done.
LEMMA WhoActsHasTheRight ==
    ASSUME AccessInv, ~Around.stale, NEW f \in Flows, aFlow[f].at = "act", aFlow[f].caller \in Users
    PROVE  A!ActsWith(f)
<1> DEFINE fl == aFlow[f]
           w == Lately(fl.caller, fl.start)
<1>1. fl \in Requested /\ Staged(fl, kind) /\ RightsOf(fl, w, Standing(fl.caller))
  BY RequestIs DEF Right
<1>2. fl.todo = <<>>
  BY <1>1 DEF Staged, Checking, Judging
<1>3. Owed(fl, w)
  BY <1>1 DEF RightsOf, Going
<1>4. \A c \in Required(fl.does) : Proven(fl, w, c)
  BY <1>2, <1>3, NothingLeft DEF Owed, Due
<1>5. /\ w.installed <=> A!InstalledLately(f)
      /\ w.member <=> A!MemberLately(f)
      /\ Manages(fl, w) <=> A!Managed(f)
  BY DEF Lately, A!InstalledLately, A!MemberLately, A!OwnerLately, A!Managed, Manages
<1>6. A!Session.check = "session" /\ A!Manage.check = "manage" /\ A!Member.check = "member" /\ A!Admin.check = "admin"
      /\ A!Super.check = "super" /\ \A cap : A!Team(cap).check = "caps" /\ A!Team(cap).cap = cap
  BY DEF A!Session, A!Manage, A!Member, A!Admin, A!Super, A!Team
<1>7. fl.does \in DOMAIN A!Demands => A!Demands[fl.does] # "any"
  BY DEF A!Demands
<1> HIDE DEF w
<1>14. CASE fl.does \in A!Unchecked
  BY <1>4, <1>6, <1>14 DEF Required, Proven, A!ActsWith
<1>15. SUFFICES ASSUME fl.does \notin A!Unchecked PROVE A!HadRight(f)
  BY <1>14 DEF A!ActsWith
<1>16. \A c \in Demanded(fl.does) : Proven(fl, w, c)
  BY <1>4, <1>15 DEF Required
<1>8. fl.does \in {"login", "node"} \/ fl.wasIn
  BY <1>6, <1>16 DEF Demanded, Proven
<1>9. fl.does \in DOMAIN A!Demands =>
         A!InstalledLately(f) /\ (A!Managed(f) \/ (A!MemberLately(f) /\ A!Demands[fl.does] \in fl.could))
  <2> SUFFICES ASSUME fl.does \in DOMAIN A!Demands
               PROVE  A!InstalledLately(f) /\ (A!Managed(f) \/ (A!MemberLately(f) /\ A!Demands[fl.does] \in fl.could))
    OBVIOUS
  <2>1. A!Team(A!Demands[fl.does]) \in Demanded(fl.does)
    BY DEF Demanded
  <2>2. Proven(fl, w, A!Team(A!Demands[fl.does]))
    BY <1>16, <2>1
  <2> QED
    BY <1>5, <1>6, <1>7, <2>2 DEF Proven
<1>10. fl.does \in {"manage", "defaults", "override", "clear"} => A!InstalledLately(f) /\ A!Managed(f)
  BY <1>5, <1>6, <1>16 DEF Demanded, Proven
<1>11. fl.does = "list" => A!Managed(f) \/ (A!MemberLately(f) /\ fl.could # {})
  BY <1>5, <1>6, <1>16 DEF Demanded, Proven
<1>12. fl.does \in A!OfAdmins => fl.wasAdmin
  BY <1>6, <1>16 DEF Demanded, Proven
<1>13. fl.does \in {"promote", "demote"} => fl.caller \in Supers
  BY <1>6, <1>16 DEF Demanded, Proven
<1> QED
  BY <1>8, <1>9, <1>10, <1>11, <1>12, <1>13 DEF A!HadRight

\* Who may do what (controllers/authz.ts, routes.ts): on every route, a request that goes
\* as far as its handler had the right its effect demands, or a session where no handler
\* checks the effect (ProgramsAreSound says which), at the leader if it is not about
\* the node itself; who has the right is served; defaults and overrides are those last
\* asked for. For every team, every set of users, every program of checks the routes have,
\* every order of requests, fetches and changes, and every TTL.
THEOREM AccessIsKept == Spec => []AccessIsRight
<1>1. AccessInv => A!TypeOK
  <2> SUFFICES ASSUME AccessInv PROVE A!TypeOK
    OBVIOUS
  <2>1. AccessTyped /\ \A f \in Flows : aFlow[f].wait \in A!Keys \cup {"none"} /\ aFlow[f].could \in SUBSET A!All
    BY RequestIs, PartsOf DEF AccessInv
  <2>2. \A k \in A!Keys : cache[k].at \in 0..AccessTime /\ inflight[k].busy \in BOOLEAN
    BY <2>1 DEF AccessTyped, Entries
  <2> QED
    BY <2>1, <2>2 DEF AccessTyped, AtGithub, A!TypeOK
<1>2. AccessInv => A!ActsWithRights
  BY WhoActsHasTheRight DEF A!ActsWithRights, Around
<1>3. AccessInv => A!RightsAreHonoured
  <2> SUFFICES ASSUME AccessInv, ~Around.refused, NEW f \in Flows, aFlow[f].at = "refused" PROVE ~aFlow[f].entitled
    BY DEF A!RightsAreHonoured, Around
  <2> QED
    BY RequestIs DEF Right, HonourOf, Honoured
<1>4. AccessInv => A!WritesRunOnTheLeader
  <2> SUFFICES ASSUME AccessInv, NEW f \in Flows, aFlow[f].at = "act", aFlow[f].does \notin A!OnAnyNode
               PROVE  aFlow[f].node = "leader"
    BY DEF A!WritesRunOnTheLeader
  <2>1. Staged(aFlow[f], kind) /\ Led(aFlow[f])
    BY RequestIs DEF Going
  <2>2. aFlow[f].todo = <<>>
    BY <2>1 DEF Staged, Checking, Judging
  <2> QED
    BY <2>1, <2>2, NothingLeft DEF Led
<1>5. AccessInv => A!GrantsAreKept
  BY DEF AccessInv, A!GrantsAreKept, Around, Turns
<1>6. AccessInv => AccessIsRight
  BY <1>1, <1>2, <1>3, <1>4, <1>5 DEF AccessIsRight
<1> QED
  BY <1>6, AccessInvInitially, AccessInvPreserved, PTL DEF Spec

=============================================================================
