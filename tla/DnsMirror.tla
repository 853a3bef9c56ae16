----------------------------- MODULE DnsMirror -----------------------------
(* The zones and records of one registrar account and NSM's mirror of      *)
(* them on the leader: the mirror's refresh (reconcile/cloudflareSync.ts), *)
(* the public IP watcher (reconcile/publicIpWatcher.ts), the record        *)
(* editor (controllers/dnsController.ts), domain deletion                  *)
(* (controllers/domainsController.ts) and the port bindings that follow a  *)
(* reservation (controllers/portReservationController.ts).                 *)
(*                                                                         *)
(* Every request and cron job is a job: a sequence of awaits between which *)
(* the other jobs run. The registrar and the dashboard people use on it    *)
(* are the environment.                                                    *)
EXTENDS Integers, FiniteSets, Functions, TLC

CONSTANTS
    Zones,
    ARecords,   \* of type A: of an AAAA record no edit fills in the address
    SrvRecords,
    ZoneOf,     \* the zone of every record
    IPs,        \* public addresses; numbers, 0 is an address of someone else
    Jobs,       \* bound: jobs at once
    Budgets     \* bound: each is how often events of each kind may happen

Kinds == {"overlap",   \* a job starts while another runs
          "ip",        \* the public address changes
          "dashboard", \* a record is changed at the registrar
          "zone",      \* a zone comes or goes at the registrar
          "kept",      \* an edit empties a comment, and the registrar keeps the old one
          "edit", "create", "delete", "drop", "price", "release", "project",
          "failed",    \* a call to the registrar fails
          "crash"}

Records == ARecords \union SrvRecords

ASSUME DnsAssumption ==
    /\ ARecords \intersect SrvRecords = {}
    /\ ZoneOf \in [Records -> Zones]
    /\ IPs \subseteq Nat \ {0} /\ IPs # {}
    /\ Budgets \subseteq [Kinds -> Nat]

VARIABLES
    rzones,   \* the zones of the account at the registrar
    remote,   \* the records at the registrar, by id
    rows,     \* DnsZoneModel: the price cached with each zone
    cached,   \* DnsRecordModel: the mirrored records
    public,   \* the address ipify sees
    known,    \* the address in the meta table, 0 before the first
    reserved, \* whether the port reservation the SRV records are bound to exists
    paid,     \* the zones a purchase price was recorded for
    job,      \* per job: what it does and where it stands
    used      \* how often an event of each kind has happened

vars == <<rzones, remote, rows, cached, public, known, reserved, paid, job, used>>
registrar == <<rzones, remote>>
mirror == <<rows, cached>>
others == <<public, known, reserved, paid>>

May(kinds) ==
    \E b \in Budgets : \A k \in Kinds : used[k] + (IF k \in kinds THEN 1 ELSE 0) <= b[k]
Uses(kinds) ==
    /\ May(kinds)
    /\ used' = [k \in Kinds |-> used[k] + (IF k \in kinds THEN 1 ELSE 0)]
Never(kinds) == \A k \in kinds : used[k] = 0

-----------------------------------------------------------------------------
(* Records and zones *)

NoPrice == 0
Price == 1

\* What a record says. Of the comment it is told apart whether it holds the
\* dynamic tag, the tag of the reservation, and anything else.
Record(ip, dyn, bound, note) == [ip |-> ip, dyn |-> dyn, bound |-> bound, note |-> note]
RecordSet == [ip : IPs \union {0}, dyn : BOOLEAN, bound : BOOLEAN, note : BOOLEAN]

InZone(recs, z) == Restrict(recs, {r \in DOMAIN recs : ZoneOf[r] = z})
Without(f, S) == Restrict(f, DOMAIN f \ S)

\* What the registrar's lists return, read page by page.
ListZones == rzones
ListRecords(z) == InZone(remote, z)

\* What it makes of a write, and of the deletion of a zone. A comment of which nothing is
\* left is not sent at all, and an update changes only what is sent.
Commented(rec) == rec.dyn \/ rec.bound \/ rec.note
Updated(old, body) == IF Commented(body) THEN body ELSE [old EXCEPT !.ip = body.ip]
Written(r, body) == (r :> IF r \in DOMAIN remote THEN Updated(remote[r], body) ELSE body) @@ remote
WithoutZone(z) == Without(remote, DOMAIN InZone(remote, z))

Idle == [op |-> "idle", pc |-> "done", todo |-> {}, zone |-> CHOOSE z \in Zones : TRUE,
         price |-> NoPrice, recs |-> <<>>, rec |-> CHOOSE r \in Records : TRUE,
         body |-> Record(0, FALSE, FALSE, FALSE), ip |-> 0, push |-> {}, listed |-> {}]

\* A job starts; requests and cron jobs do not wait for one another.
Begins(j, kinds) ==
    /\ job[j] = Idle
    /\ Uses(IF \A i \in Jobs : job[i] = Idle THEN kinds ELSE kinds \union {"overlap"})
Goes(j, s) == job' = [job EXCEPT ![j] = s]
At(j, pc) == job[j].pc = pc

-----------------------------------------------------------------------------
(* The refresh of the mirror *)

\* performAccountSync: the zones are listed before anything else is read.
StartSync(j) ==
    /\ Begins(j, {})
    /\ Goes(j, [Idle EXCEPT !.op = "sync", !.pc = "zones", !.todo = ListZones, !.listed = ListZones])
    /\ UNCHANGED <<registrar, mirror, others>>

Full(j) == job[j].op = "sync"

\* A zone that cannot be refreshed ends a full sync; of the zones refreshed
\* after a write only that one is skipped.
GivesUp(j, z) == IF Full(j) THEN Idle ELSE [job[j] EXCEPT !.pc = "zones", !.todo = @ \ {z}]

\* mutant: the registrar's billing replaces the cached one
KeptPrice_Dropped(z) == NoPrice
\* What mergeBilling, or the spread of the row, keeps of the price.
KeptPrice(z) == IF z \in DOMAIN rows THEN rows[z] ELSE NoPrice

\* The row is read, then the records are listed.
ReadZone(j, z) ==
    /\ At(j, "zones") /\ z \in job[j].todo
    /\ \/ /\ z \in rzones /\ (Full(j) \/ z \in DOMAIN rows)
          /\ Goes(j, [job[j] EXCEPT !.pc = "erase", !.zone = z, !.todo = @ \ {z},
                      !.price = KeptPrice(z), !.recs = ListRecords(z)])
          /\ UNCHANGED used
       \/ /\ z \notin rzones \/ (~Full(j) /\ z \notin DOMAIN rows)
          /\ Goes(j, GivesUp(j, z)) /\ UNCHANGED used
       \/ Uses({"failed"}) /\ Goes(j, GivesUp(j, z))
    /\ UNCHANGED <<registrar, mirror, others>>

\* replaceZoneRecordsModel, first half: until the rows are back, no other job
\* finds the records of the zone.
Erase(j) ==
    /\ At(j, "erase")
    /\ cached' = Without(cached, DOMAIN InZone(cached, job[j].zone) \union DOMAIN job[j].recs)
    /\ Goes(j, [job[j] EXCEPT !.pc = "insert"])
    /\ UNCHANGED <<registrar, rows, others, used>>

\* ... second half: bulkCreate refuses ids that another refresh has inserted.
Insert(j) ==
    /\ At(j, "insert")
    /\ IF DOMAIN cached \intersect DOMAIN job[j].recs = {}
       THEN cached' = job[j].recs @@ cached /\ Goes(j, [job[j] EXCEPT !.pc = "upsert"])
       ELSE Goes(j, GivesUp(j, job[j].zone)) /\ UNCHANGED cached
    /\ UNCHANGED <<registrar, rows, others, used>>

Upsert(j) ==
    /\ At(j, "upsert")
    /\ rows' = (job[j].zone :> job[j].price) @@ rows
    /\ Goes(j, [job[j] EXCEPT !.pc = "zones", !.recs = <<>>, !.price = NoPrice])
    /\ UNCHANGED <<registrar, cached, others, used>>

\* mutant: a zone that is gone at the registrar is kept
Gone_Kept(j) == {}
Gone(j) == DOMAIN rows \ job[j].listed

\* deleteDnsZonesNotInModelForAccount: the rows go first.
Prune(j) ==
    /\ At(j, "zones") /\ Full(j) /\ job[j].todo = {}
    /\ rows' = Without(rows, Gone(j))
    /\ Goes(j, [Idle EXCEPT !.op = "sync", !.pc = "records", !.todo = Gone(j)])
    /\ UNCHANGED <<registrar, cached, others, used>>

\* ... then the records of each.
PruneRecords(j) ==
    /\ At(j, "records")
    /\ cached' = Without(cached, {r \in DOMAIN cached : ZoneOf[r] \in job[j].todo})
    /\ Goes(j, Idle)
    /\ UNCHANGED <<registrar, rows, others, used>>

\* The refresh after a write ends.
Refreshed(j) ==
    /\ At(j, "zones") /\ ~Full(j) /\ job[j].todo = {}
    /\ Goes(j, Idle)
    /\ UNCHANGED <<registrar, mirror, others, used>>

RefreshFrom(s, zones) == [Idle EXCEPT !.op = s.op, !.pc = "zones", !.todo = zones]

-----------------------------------------------------------------------------
(* The public IP watcher *)

Dynamic(recs) == {r \in DOMAIN recs : recs[r].dyn}

\* mutant: only the first address is pushed
IpChanged_First(ip) == known = 0
IpChanged(ip) == ip # known

\* checkPublicIp reads the records and the last address, then detects.
StartCheck(j) ==
    /\ Dynamic(cached) # {} /\ IpChanged(public)
    /\ Begins(j, {})
    /\ Goes(j, [Idle EXCEPT !.op = "check", !.pc = "push", !.ip = public, !.push = Dynamic(cached)])
    /\ UNCHANGED <<registrar, mirror, others>>

\* One round of the loop: a record whose zone is unknown, or whose update
\* fails, is skipped.
PushIp(j, r) ==
    /\ At(j, "push") /\ r \in job[j].push
    /\ LET s == [job[j] EXCEPT !.push = @ \ {r}]
       IN  \/ /\ ZoneOf[r] \in DOMAIN rows /\ r \in DOMAIN remote
              /\ remote' = [remote EXCEPT ![r].ip = job[j].ip]
              /\ Goes(j, [s EXCEPT !.todo = @ \union {ZoneOf[r]}]) /\ UNCHANGED used
           \/ /\ ZoneOf[r] \notin DOMAIN rows \/ r \notin DOMAIN remote
              /\ Goes(j, s) /\ UNCHANGED <<remote, used>>
           \/ Uses({"failed"}) /\ Goes(j, s) /\ UNCHANGED remote
    /\ UNCHANGED <<rzones, mirror, others>>

\* The address is stored whatever became of the updates.
StoreIp(j) ==
    /\ At(j, "push") /\ job[j].push = {}
    /\ known' = job[j].ip
    /\ Goes(j, RefreshFrom(job[j], job[j].todo))
    /\ UNCHANGED <<registrar, mirror, public, reserved, paid, used>>

-----------------------------------------------------------------------------
(* Edits *)

KnownIp == IF known # 0 THEN known ELSE public

\* buildRecordInput for an update: a field that is not in the request is the
\* cached one, and a dynamic record gets the last known address; one that is no longer
\* dynamic, or is given an address, loses the tag.
Body(old, what) ==
    LET dyn == IF what = "rest" THEN old.dyn ELSE what = "dynamic"
    IN  Record(IF dyn THEN KnownIp ELSE IF what = "content" THEN 0 ELSE old.ip,
               dyn, old.bound, old.note)

\* updateRecord reads the record from the mirror. A record whose reservation
\* is gone cannot be edited.
StartEdit(j, r, what) ==
    /\ r \in DOMAIN cached /\ (cached[r].bound => reserved)
    /\ r \in SrvRecords => what = "rest"
    /\ Begins(j, {"edit"})
    /\ Goes(j, [Idle EXCEPT !.op = what, !.pc = "update", !.rec = r, !.body = Body(cached[r], what)])
    /\ UNCHANGED <<registrar, mirror, others>>

\* createRecord of a dynamic record.
StartCreate(j, r) ==
    /\ r \in ARecords \ (DOMAIN remote \union DOMAIN cached) /\ ZoneOf[r] \in DOMAIN rows
    /\ \A i \in Jobs : job[i].rec # r \/ job[i].pc # "create"
    /\ Begins(j, {"create"})
    /\ Goes(j, [Idle EXCEPT !.op = "create", !.pc = "create", !.rec = r,
                !.body = Record(KnownIp, TRUE, FALSE, FALSE)])
    /\ UNCHANGED <<registrar, mirror, others>>

\* The registrar answers; an error goes to the user.
WriteRecord(j) ==
    /\ At(j, "update") \/ At(j, "create")
    /\ LET r == job[j].rec
           there == IF At(j, "create") THEN ZoneOf[r] \in rzones ELSE r \in DOMAIN remote
           kept == r \in DOMAIN remote /\ Commented(remote[r]) /\ ~Commented(job[j].body)
       IN  \/ /\ there /\ Uses(IF kept THEN {"kept"} ELSE {})
              /\ remote' = Written(r, job[j].body)
              /\ Goes(j, RefreshFrom(job[j], {ZoneOf[r]}))
           \/ ~there /\ Goes(j, Idle) /\ UNCHANGED <<remote, used>>
           \/ Uses({"failed"}) /\ Goes(j, Idle) /\ UNCHANGED remote
    /\ UNCHANGED <<rzones, mirror, others>>

\* deleteRecord
StartDelete(j, r) ==
    /\ r \in DOMAIN cached \intersect DOMAIN remote
    /\ Begins(j, {"delete"})
    /\ remote' = Without(remote, {r})
    /\ Goes(j, RefreshFrom([Idle EXCEPT !.op = "delete"], {ZoneOf[r]}))
    /\ UNCHANGED <<rzones, mirror, others>>

\* deleteDomain: at the registrar first, then the records, then the row.
StartDrop(j, z) ==
    /\ z \in DOMAIN rows \intersect rzones
    /\ Begins(j, {"drop"})
    /\ rzones' = rzones \ {z} /\ remote' = WithoutZone(z)
    /\ Goes(j, [Idle EXCEPT !.op = "drop", !.pc = "dropRecords", !.zone = z])
    /\ UNCHANGED <<mirror, others>>

DropRecords(j) ==
    /\ At(j, "dropRecords")
    /\ cached' = Without(cached, DOMAIN InZone(cached, job[j].zone))
    /\ Goes(j, [job[j] EXCEPT !.pc = "dropRow"])
    /\ UNCHANGED <<registrar, rows, others, used>>

DropRow(j) ==
    /\ At(j, "dropRow")
    /\ rows' = Without(rows, {job[j].zone})
    /\ Goes(j, Idle)
    /\ UNCHANGED <<registrar, cached, others, used>>

\* recordZonePurchasePrice reads the row and writes it back with the price.
StartPrice(j, z) ==
    /\ z \in DOMAIN rows
    /\ Begins(j, {"price"})
    /\ Goes(j, [Idle EXCEPT !.op = "price", !.pc = "price", !.zone = z])
    /\ UNCHANGED <<registrar, mirror, others>>

WritePrice(j) ==
    /\ At(j, "price")
    /\ rows' = (job[j].zone :> Price) @@ rows
    /\ paid' = paid \union {job[j].zone}
    /\ Goes(j, Idle)
    /\ UNCHANGED <<registrar, cached, public, known, reserved, used>>

\* deleteReservation, and syncPortBoundRecords up to its loop.
StartRelease(j) ==
    /\ reserved
    /\ Begins(j, {"release"})
    /\ reserved' = FALSE
    /\ Goes(j, [Idle EXCEPT !.op = "release", !.pc = "strip",
                !.push = {r \in DOMAIN cached : cached[r].bound}])
    /\ UNCHANGED <<registrar, mirror, public, known, paid>>

\* One round of the loop. A comment of which only the tag is left would become
\* empty; that is sent as no comment at all, and the registrar keeps the old one.
Strip(j, r) ==
    /\ At(j, "strip") /\ r \in job[j].push
    /\ LET s == [job[j] EXCEPT !.push = @ \ {r}]
       IN  IF ZoneOf[r] \in DOMAIN rows /\ r \in DOMAIN cached /\ r \in DOMAIN remote
           THEN /\ remote' = IF cached[r].note
                             THEN [remote EXCEPT ![r].bound = FALSE, ![r].note = TRUE]
                             ELSE remote
                /\ Goes(j, [s EXCEPT !.todo = @ \union {ZoneOf[r]}])
           ELSE UNCHANGED remote /\ Goes(j, s)
    /\ UNCHANGED <<rzones, mirror, others, used>>

Stripped(j) ==
    /\ At(j, "strip") /\ job[j].push = {}
    /\ Goes(j, RefreshFrom(job[j], job[j].todo))
    /\ UNCHANGED <<registrar, mirror, others, used>>

\* DELETE_PROJECT removes the reservations of the project and no more.
DeleteProject ==
    /\ reserved /\ Uses({"project"})
    /\ reserved' = FALSE
    /\ UNCHANGED <<registrar, mirror, public, known, paid, job>>

-----------------------------------------------------------------------------
(* The environment *)

NewIp(ip) ==
    /\ ip # public /\ Uses({"ip"})
    /\ public' = ip
    /\ UNCHANGED <<registrar, mirror, known, reserved, paid, job>>

\* People use the registrar's dashboard.
Dashboard(r) ==
    /\ ZoneOf[r] \in rzones /\ Uses({"dashboard"})
    /\ remote' \in {Without(remote, {r}), (r :> Record(0, FALSE, FALSE, TRUE)) @@ remote} \ {remote}
    /\ UNCHANGED <<rzones, mirror, others, job>>

ZoneChanges(z) ==
    /\ Uses({"zone"})
    /\ IF z \in rzones
       THEN rzones' = rzones \ {z} /\ remote' = WithoutZone(z)
       ELSE rzones' = rzones \union {z} /\ UNCHANGED remote
    /\ UNCHANGED <<mirror, others, job>>

\* The leader restarts: jobs are not resumed.
Crash ==
    /\ \E j \in Jobs : job[j] # Idle
    /\ Uses({"crash"})
    /\ job' = [j \in Jobs |-> Idle]
    /\ UNCHANGED <<registrar, mirror, others>>

-----------------------------------------------------------------------------
Init ==
    /\ rzones = Zones /\ rows = [z \in Zones |-> NoPrice]
    /\ public = (CHOOSE ip \in IPs : TRUE) /\ known \in {0, public}
    /\ reserved = TRUE /\ paid = {}
    /\ \E present \in SUBSET ARecords, note \in BOOLEAN :
          remote = [r \in SrvRecords \union present |->
                      IF r \in ARecords THEN Record(public, TRUE, FALSE, FALSE)
                      ELSE Record(0, FALSE, TRUE, note)]
    /\ cached = remote
    /\ job = [j \in Jobs |-> Idle]
    /\ used = [k \in Kinds |-> 0]

Requests(j) ==
    \/ StartSync(j) \/ StartCheck(j) \/ StartRelease(j)
    \/ \E r \in Records : StartCreate(j, r) \/ StartDelete(j, r)
                          \/ \E what \in {"dynamic", "content", "rest"} : StartEdit(j, r, what)
    \/ \E z \in Zones : StartDrop(j, z) \/ StartPrice(j, z)

Step(j) ==
    \/ \E z \in Zones : ReadZone(j, z)
    \/ Erase(j) \/ Insert(j) \/ Upsert(j) \/ Prune(j) \/ PruneRecords(j) \/ Refreshed(j)
    \/ \E r \in Records : PushIp(j, r) \/ Strip(j, r)
    \/ StoreIp(j) \/ WriteRecord(j) \/ DropRecords(j) \/ DropRow(j) \/ WritePrice(j) \/ Stripped(j)

Environment ==
    \/ \E ip \in IPs : NewIp(ip)
    \/ \E r \in Records : Dashboard(r)
    \/ \E z \in Zones : ZoneChanges(z)
    \/ DeleteProject \/ Crash

Next == (\E j \in Jobs : Requests(j) \/ Step(j)) \/ Environment

Spec == Init /\ [][Next]_vars

\* Jobs go on. The cron jobs come every few minutes and find the leader idle
\* again and again, since a job takes seconds.
Fairness ==
    /\ \A j \in Jobs : WF_vars(Step(j))
    /\ SF_vars(\E j \in Jobs : StartSync(j)) /\ SF_vars(\E j \in Jobs : StartCheck(j))

FairSpec == Spec /\ Fairness

-----------------------------------------------------------------------------
(* Properties *)

PartialOn(S, T) == UNION {[D -> T] : D \in SUBSET S}

TypeOK ==
    /\ rzones \subseteq Zones /\ paid \subseteq Zones
    /\ remote \in PartialOn(Records, RecordSet) /\ cached \in PartialOn(Records, RecordSet)
    /\ rows \in PartialOn(Zones, {NoPrice, Price})
    /\ public \in IPs /\ known \in IPs \union {0} /\ reserved \in BOOLEAN
    /\ DOMAIN job = Jobs
    /\ \A j \in Jobs : At(j, "push") => job[j].push \subseteq ARecords
    /\ used \in [Kinds -> Nat]

Quiet == \A j \in Jobs : job[j] = Idle

\* A purchase price, which the registrar does not tell again, survives every
\* refresh (cloudflareSync.ts:13) while jobs do not overlap and the zone stays.
PriceIsKept ==
    Never({"overlap", "zone", "drop"}) => \A z \in paid : z \in DOMAIN rows /\ rows[z] = Price

\* The same when jobs overlap.
PriceIsAlwaysKept == Never({"zone", "drop"}) /\ Quiet => \A z \in paid : rows[z] = Price

\* An edit leaves what it does not name as it is at the registrar, for a
\* record with a fixed address, when nothing made the mirror stale: no job
\* beside it, nobody on the dashboard, no refresh that was cut off or failed.
EditKeepsTheRest ==
    [][\A j \in Jobs :
        /\ Never({"overlap", "dashboard", "failed", "crash"})
        /\ job[j].op = "rest" /\ At(j, "update") /\ ~job[j].body.dyn /\ job'[j].pc = "zones"
        => remote'[job[j].rec] = remote[job[j].rec]]_vars

\* The records that carry the dynamic tag at the registrar come to hold the public
\* address and keep it, unless an update failed, jobs overlapped, someone changed the
\* record at the registrar or an edit gave an address to a record whose tag it could not
\* remove. A restart in the middle of a check does no harm, except when the address has
\* changed back by then.
DynamicRecordsFollow ==
    <>[](/\ Never({"failed", "overlap", "dashboard", "kept"})
         /\ Never({"crash"}) \/ used["ip"] <= 1
         => \A r \in Dynamic(remote) : remote[r].ip = public)

\* The same when an update may fail (publicIpWatcher.ts:56).
DynamicRecordsAlwaysFollow ==
    <>[](Never({"overlap", "dashboard", "kept"}) => \A r \in Dynamic(remote) : remote[r].ip = public)

\* The same when jobs may overlap.
DynamicRecordsFollowBeside ==
    <>[](Never({"failed", "dashboard", "kept"}) => \A r \in Dynamic(remote) : remote[r].ip = public)

\* The same with an edit that gives an address to a dynamic record: when its comment holds
\* nothing but the tag, the tag stays, the record holds the address until the public one
\* changes, and is overwritten then.
DynamicRecordsFollowEdits ==
    <>[](Never({"failed", "overlap", "dashboard", "crash"}) =>
            \A r \in Dynamic(remote) : remote[r].ip = public)

\* An edit that turns dynamic off, or gives an address, removes the tag
\* (dnsController.ts:145).
DynamicIsTurnedOff ==
    [][\A j \in Jobs :
        At(j, "update") /\ ~job[j].body.dyn /\ job'[j].pc = "zones"
            => ~remote'[job[j].rec].dyn]_vars

\* The mirror comes to show what is at the registrar, whatever the order of
\* refreshes, edits and changes there. A record is left behind without its
\* zone only by a restart, or by a refresh beside the deletion of the domain.
Mirrored == DOMAIN rows = rzones /\ cached = remote
MirrorConverges ==
    []<>(Never({"crash"}) /\ (Never({"drop"}) \/ Never({"overlap"})) => Mirrored)

\* The same with a restart.
MirrorAlwaysConverges == []<>(Never({"overlap"}) => Mirrored)

\* A reservation that was deleted is stripped from the records bound to it
\* (dnsController.ts:188).
StrippedWhenReleased ==
    Quiet /\ ~reserved /\ Never({"failed", "crash", "overlap", "project", "dashboard", "zone"})
    => \A r \in DOMAIN remote : ~remote[r].bound

=============================================================================
