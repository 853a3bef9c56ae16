------------------------------- MODULE Health -------------------------------
(* One project's health on the leader: the sampling tick, the events it    *)
(* emits, the hourly rollups and the pruning of both                       *)
(* (controllers/healthController.ts, persistence/projectHealthPersistence.ts). *)
(*                                                                         *)
(* Time counts sampling intervals. A tick probes every target, compares    *)
(* with what is stored, emits an event and only then inserts, so two ticks *)
(* that overlap compare with the same past. What a target answers, and     *)
(* whether it still exists, is the environment's.                          *)
EXTENDS Integers, Sequences, FiniteSets

CONSTANTS
    Targets,    \* URLs and services of the project
    Answers,    \* bound: the answers a target may give, of Replies
    Ticks,      \* bound: ticks at once
    Hour,       \* sampling intervals in ROLLUP_GRANULARITY_MS
    RawKept,    \* RAW_RETENTION_MS, whole hours
    RollupKept, \* ROLLUP_RETENTION_MS
    MaxTime,    \* bound
    Budgets     \* bound: each is how often events of the kinds it names may happen

Kinds == {"change",  \* a target answers differently
          "gone",    \* a target is removed from the project
          "overlap", \* a tick starts while another runs
          "lost",    \* a bulk insert fails
          "down",    \* the leader does not run for an interval
          "crash", "delete",
          "during"}  \* a tick or a rollup runs while the project is deleted

VARIABLES
    now,
    answer,    \* what each target answers
    samples,   \* ProjectHealthSampleModel
    rollups,   \* ProjectHealthRollupModel; a row exists when its total is positive
    tick,      \* per tick: where it stands and what it has sampled
    roll,      \* the rows a rollup has computed and not written yet, if any
    due,       \* the hourly rollup has not run yet
    events,    \* the transitions announced, in order
    exists,    \* the project: "yes", "deleting", "no"
    used       \* how often an event of each kind has happened

vars == <<now, answer, samples, rollups, tick, roll, due, events, exists, used>>
world == <<now, answer, exists>>
stored == <<samples, rollups>>
rolling == <<roll, due>>

May(kinds) ==
    \E b \in Budgets : \A k \in Kinds :
        used[k] + (IF k \in kinds THEN 1 ELSE 0) <= IF k \in DOMAIN b THEN b[k] ELSE 0
Uses(kinds) ==
    /\ May(kinds)
    /\ used' = [k \in Kinds |-> used[k] + (IF k \in kinds THEN 1 ELSE 0)]
Never(kinds) == \A k \in kinds : used[k] = 0

Statuses == {"UP", "DEGRADED", "DOWN"}
Replies == {"response", "5xx", "bad certificate", "unreachable",
            "as expected", "not as expected", "gone"}
NoRows == {}
Idle == [pc |-> "idle", ts |-> 0, got |-> {}]
Buckets == 0..(MaxTime \div Hour)
NoRow == [total |-> 0, up |-> 0]

\* probeUrl and containerChecks.
StatusOf(reply) ==
    CASE reply \in {"response", "as expected"} -> "UP"
      [] reply = "bad certificate" -> "DEGRADED"
      [] OTHER -> "DOWN"
IsUp(status) == status # "DOWN"

WorstStatus(statuses) ==
    CASE "DOWN" \in statuses -> "DOWN"
      [] "DEGRADED" \in statuses -> "DEGRADED"
      [] "UP" \in statuses -> "UP"
      [] OTHER -> "UNKNOWN"
Overall(ss) == WorstStatus({s.status : s \in ss})

\* getLatestSamplesForProjectModel: the last sample of every target ever stored.
Latest == {s \in samples : \A o \in samples : o.target = s.target => o.ts <= s.ts}

BucketOf(ts) == ts \div Hour
CurrentBucket == BucketOf(now)
Busy == \E k \in Ticks : tick[k] # Idle

-----------------------------------------------------------------------------
(* Sampling *)

\* sampleProject: one sample per target that the project still has.
SampleProject(ts) ==
    {[target |-> t, status |-> StatusOf(answer[t]), ts |-> ts] :
        t \in {u \in Targets : answer[u] # "gone"}}

\* The interval passes and sampleAllProjects starts; the project is read here.
\* The clock waits for the jobs of an interval, except that ticks may overlap.
StartTick(k) ==
    /\ now < MaxTime /\ ~due /\ roll = NoRows
    /\ tick[k] = Idle
    /\ Uses((IF Busy THEN {"overlap"} ELSE {}) \union (IF exists = "deleting" THEN {"during"} ELSE {}))
    /\ now' = now + 1
    /\ due' = (exists # "no" /\ (now + 1) % Hour = 1)
    /\ tick' = IF exists = "no" THEN tick
               ELSE [tick EXCEPT ![k] = [Idle EXCEPT !.pc = "probe", !.ts = now + 1]]
    /\ UNCHANGED <<answer, exists, stored, roll, events>>

Probe(k) ==
    /\ tick[k].pc = "probe"
    /\ tick' = [tick EXCEPT ![k].pc = "detect", ![k].got = SampleProject(tick[k].ts)]
    /\ UNCHANGED <<world, stored, rolling, events, used>>

\* mutant: only failures are announced
DetectHealthTransition_Failures(got) ==
    events' = IF Overall(got) \in {"UNKNOWN", "UP", Overall(Latest)} \/ Overall(Latest) = "UNKNOWN"
              THEN events ELSE Append(events, Overall(got))
DetectHealthTransition(got) ==
    LET next == Overall(got)
        prev == Overall(Latest)
    IN events' = IF next = "UNKNOWN" \/ prev = "UNKNOWN" \/ prev = next THEN events
                 ELSE Append(events, next)

Detect(k) ==
    /\ tick[k].pc = "detect"
    /\ DetectHealthTransition(tick[k].got)
    /\ tick' = [tick EXCEPT ![k].pc = "insert"]
    /\ UNCHANGED <<world, stored, rolling, used>>

\* The bulk insert, after every project was sampled.
Insert(k) ==
    /\ tick[k].pc = "insert"
    /\ samples' = samples \union tick[k].got
    /\ tick' = [tick EXCEPT ![k] = Idle]
    /\ UNCHANGED <<world, rollups, rolling, events, used>>

InsertFails(k) ==
    /\ tick[k].pc = "insert"
    /\ Uses({"lost"})
    /\ tick' = [tick EXCEPT ![k] = Idle]
    /\ UNCHANGED <<world, stored, rolling, events>>

-----------------------------------------------------------------------------
(* Rollups and pruning *)

Since == now - RawKept

Closed(b) == b < CurrentBucket

RowOf(ss) == [total |-> Cardinality(ss), up |-> Cardinality({s \in ss : IsUp(s.status)})]
SamplesOf(t, b) == {s \in samples : s.target = t /\ BucketOf(s.ts) = b}
\* buildRollupsForProject over getSamplesInRangeModel.
RollupsSince(ts) ==
    [i \in Targets \X Buckets |->
        IF Closed(i[2]) THEN RowOf({s \in SamplesOf(i[1], i[2]) : s.ts >= ts}) ELSE NoRow]

\* The cron job at five past: the samples are read, and written an await later.
RollupReads ==
    /\ due /\ roll = NoRows
    /\ due' = FALSE
    /\ Uses(IF exists = "deleting" THEN {"during"} ELSE {})
    /\ roll' = IF exists = "no" THEN NoRows ELSE {RollupsSince(Since)}
    /\ UNCHANGED <<world, stored, tick, events>>

\* mutant: a rerun adds to the rows it finds
Upserted_Adds(row, new) == [total |-> row.total + new.total, up |-> row.up + new.up]
\* upsertHealthRollupsModel: a computed row replaces the stored one.
Upserted(row, new) == IF new.total > 0 THEN new ELSE row

RollupWrites ==
    /\ \E rows \in roll :
          rollups' = [i \in Targets \X Buckets |-> Upserted(rollups[i], rows[i])]
    /\ roll' = NoRows
    /\ UNCHANGED <<world, samples, tick, due, events, used>>

\* pruneHealthSamples and pruneHealthRollups, at three o'clock.
Prune ==
    /\ now % Hour = 0
    /\ samples' = {s \in samples : s.ts >= now - RawKept}
    /\ rollups' = [i \in Targets \X Buckets |->
                    IF i[2] * Hour < now - RollupKept THEN NoRow ELSE rollups[i]]
    /\ UNCHANGED <<world, tick, rolling, events, used>>

ClearProjectHealth ==
    /\ samples' = {}
    /\ rollups' = [i \in Targets \X Buckets |-> NoRow]

\* deleteProject clears the health first and deletes the project later.
StartDelete ==
    /\ exists = "yes"
    /\ Uses({"delete"} \union (IF Busy \/ roll # NoRows THEN {"during"} ELSE {}))
    /\ exists' = "deleting"
    /\ ClearProjectHealth
    /\ UNCHANGED <<now, answer, tick, rolling, events>>

Delete ==
    /\ exists = "deleting"
    /\ exists' = "no"
    /\ UNCHANGED <<now, answer, stored, tick, rolling, events, used>>

-----------------------------------------------------------------------------
(* The environment *)

Change(t, reply) ==
    /\ answer[t] \notin {"gone", reply}
    /\ Uses({IF reply = "gone" THEN "gone" ELSE "change"})
    /\ answer' = [answer EXCEPT ![t] = reply]
    /\ UNCHANGED <<now, exists, stored, tick, rolling, events>>

\* An interval without a leader: no tick, and a rollup that was due is missed.
Down ==
    /\ now < MaxTime /\ ~Busy /\ roll = NoRows
    /\ Uses({"down"})
    /\ now' = now + 1 /\ due' = FALSE
    /\ UNCHANGED <<answer, exists, stored, tick, roll, events>>

Crash ==
    /\ Busy \/ roll # NoRows
    /\ Uses({"crash"})
    /\ tick' = [k \in Ticks |-> Idle] /\ roll' = NoRows
    /\ UNCHANGED <<world, stored, due, events>>

-----------------------------------------------------------------------------

Init ==
    /\ now = 0 /\ answer = [t \in Targets |-> "response"] /\ exists = "yes"
    /\ samples = {} /\ rollups = [i \in Targets \X Buckets |-> NoRow]
    /\ tick = [k \in Ticks |-> Idle] /\ roll = NoRows /\ due = FALSE
    /\ events = <<>>
    /\ used = [k \in Kinds |-> 0]

Next ==
    \/ \E k \in Ticks : StartTick(k) \/ Probe(k) \/ Detect(k) \/ Insert(k) \/ InsertFails(k)
    \/ RollupReads \/ RollupWrites \/ Prune
    \/ StartDelete \/ Delete
    \/ \E t \in Targets, reply \in Answers : Change(t, reply)
    \/ Down \/ Crash

Spec == Init /\ [][Next]_vars

-----------------------------------------------------------------------------
(* Properties *)

TypeOK ==
    /\ now \in 0..MaxTime /\ answer \in [Targets -> Replies] /\ exists \in {"yes", "deleting", "no"}
    /\ samples \subseteq [target : Targets, status : Statuses, ts : 0..MaxTime]
    /\ rollups \in [Targets \X Buckets -> [total : 0..Hour, up : 0..Hour]]
    /\ \A k \in Ticks : tick[k].pc \in {"idle", "probe", "detect", "insert"}
    /\ \A rows \in roll : DOMAIN rows = Targets \X Buckets
    /\ events \in Seq(Statuses) /\ due \in BOOLEAN
    /\ used \in [Kinds -> Nat]

Disturbances == {"gone", "overlap", "lost", "crash", "delete"}
\* The last samples are not pruned before the leader runs again.
BriefOutages == used["down"] < RawKept

\* Every event announces a change: no status is announced twice in a row
\* (healthController.ts:148-164), while ticks take turns, every insert
\* succeeds, no target is removed and outages are brief.
EventsAreChanges ==
    Never(Disturbances) /\ BriefOutages => \A i \in 1..(Len(events) - 1) : events[i] # events[i + 1]

\* The same when a target is removed from the project.
RemovedTargetsAreSilent ==
    \A i \in 1..(Len(events) - 1) : events[i] # events[i + 1]

\* Between ticks, what was announced last is what is stored: nobody is left
\* believing a project to be down.
AnnouncedIsCurrent ==
    Never(Disturbances) /\ BriefOutages /\ ~Busy /\ events # <<>>
    => events[Len(events)] = Overall(Latest)

\* Both when the leader is down for longer: what it knew is pruned, and the change
\* it comes back to is not announced.
EventsAreChangesAfterOutage ==
    Never(Disturbances) => \A i \in 1..(Len(events) - 1) : events[i] # events[i + 1]
AnnouncedIsCurrentAfterOutage ==
    Never(Disturbances) /\ ~Busy /\ events # <<>> => events[Len(events)] = Overall(Latest)

\* The same when ticks overlap.
AnnouncedIsAlwaysCurrent == ~Busy /\ events # <<>> => events[Len(events)] = Overall(Latest)

\* getProjectHealthSummary: an hour from its rollup, the current one from the samples.
HourShown(t, b) ==
    IF Closed(b) THEN rollups[<<t, b>>]
    ELSE RowOf(SamplesOf(t, b))

\* An hour that is rolled up, and all of whose samples are still kept, is shown with
\* exactly those, each counted once however often the rollup has run
\* (healthController.ts:199-201, :239-241).
UptimeMatchesSamples ==
    Never({"overlap", "during"}) =>
    \A t \in Targets, b \in Buckets :
        b * Hour >= now - RawKept /\ HourShown(t, b).total > 0
        => HourShown(t, b) = RowOf(SamplesOf(t, b))

\* An hour whose samples are pruned was rolled up, and the row that stays is that of
\* these samples, or of all but those of its first interval: the last rollup before
\* the pruning no longer sees them, and replaces the row by one that lacks them.
\* While samples are kept for longer than outages can make rollups wait
\* (healthController.ts:38-41, :239-251).
HistoryIsKept ==
    [][exists' = "yes" /\ Never({"crash", "overlap", "during"}) /\ (used["down"] + 1) * Hour < RawKept =>
       \A s \in samples \ samples' :
          LET b == BucketOf(s.ts)
              row == rollups'[<<s.target, b>>]
              ss == SamplesOf(s.target, b)
          IN  b * Hour >= now - RollupKept =>
                row.total > 0 /\ row \in {RowOf(ss), RowOf({o \in ss : o.ts > b * Hour})}]_vars

\* The same for any outage.
RollupsAreNeverMissed ==
    [][exists' = "yes" /\ Never({"crash", "overlap"}) =>
       \A s \in samples \ samples' :
          BucketOf(s.ts) * Hour >= now - RollupKept => rollups'[<<s.target, BucketOf(s.ts)>>].total > 0]_vars

\* Recomputing a closed hour does not lose samples ("Idempotent: re-running recomputes
\* and overwrites the same rows", healthController.ts:201).
ClosedHourNeverShrinks ==
    [][exists' = "yes" =>
       \A i \in Targets \X Buckets :
          i[2] * Hour >= now - RollupKept => rollups'[i].total >= rollups[i].total]_vars

\* A closed hour is shown as soon as it is closed.
ClosedHourIsShown ==
    \A s \in samples : Closed(BucketOf(s.ts)) => HourShown(s.target, BucketOf(s.ts)).total > 0

\* No health outlives its project, unless a tick or a rollup ran beside the
\* deletion (projectController.ts:187-191).
HealthDiesWithProject ==
    exists = "no" /\ ~Busy /\ roll = NoRows /\ Never({"during"})
    => samples = {} /\ \A i \in Targets \X Buckets : rollups[i] = NoRow

\* The same when a tick runs beside it.
HealthAlwaysDiesWithProject ==
    exists = "no" /\ ~Busy /\ roll = NoRows => samples = {}

=============================================================================
