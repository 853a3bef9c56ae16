----------------------------- MODULE Incidents -----------------------------
(* The incidents of a project and their timelines                          *)
(* (controllers/incidentController.ts, persistence/incidentPersistence.ts). *)
(*                                                                         *)
(* Every request reads the incident, and writes the whole row one or two   *)
(* awaits later; deleting removes the row first and its timeline next. The *)
(* events tell the project's webhooks.                                     *)
EXTENDS Integers, Sequences

CONSTANTS
    Incs,       \* incidents
    Statuses,
    Terminal,   \* TERMINAL_STATUSES
    Flows,      \* bound: requests at once
    Budgets     \* bound: each is how often events of the kinds it names may happen

Kinds == {"create", "update", "edit", "delete",
          "past",    \* an incident is created as resolved
          "reopen",  \* an update or an edit reopens a resolved incident
          "silent",  \* an edit resolves or reopens an incident
          "overlap", "crash"}

VARIABLES
    incident,  \* IncidentModel
    timeline,  \* IncidentUpdateModel: the statuses of its entries, in order
    told,      \* the last event emitted about each incident
    asked,     \* the status and title the last request about it asked for
    flow,      \* per request: where it stands
    used       \* how often an event of each kind has happened

vars == <<incident, timeline, told, asked, flow, used>>
tables == <<incident, timeline>>

May(kinds) ==
    \E b \in Budgets : \A k \in Kinds :
        used[k] + (IF k \in kinds THEN 1 ELSE 0) <= IF k \in DOMAIN b THEN b[k] ELSE 0
Uses(kinds) ==
    /\ May(kinds)
    /\ used' = [k \in Kinds |-> used[k] + (IF k \in kinds THEN 1 ELSE 0)]
Never(kinds) == \A k \in kinds : used[k] = 0

\* Titles stand for everything of an incident but its status.
Titles == {"first", "second"}
NoRow == [status |-> "absent", title |-> "absent", resolvedAt |-> FALSE]
Rows == [status : Statuses, title : Titles, resolvedAt : BOOLEAN]
NoFlow == [pc |-> "done", inc |-> "none", row |-> NoRow, event |-> "none"]

Begins(f, kinds, first) ==
    /\ flow[f] = NoFlow
    /\ Uses(IF \A g \in Flows : flow[g] = NoFlow THEN kinds ELSE kinds \union {"overlap"})
    /\ flow' = [flow EXCEPT ![f] = first]
Goes(f, pc) == flow' = [flow EXCEPT ![f].pc = pc]
Ends(f) == flow' = [flow EXCEPT ![f] = NoFlow]
Known(i) == incident[i] # NoRow
Fresh(i) == incident[i] = NoRow /\ told[i] = "none" /\ \A f \in Flows : flow[f].inc # i
If(condition, kind) == IF condition THEN {kind} ELSE {}
Reopens(i, s) == incident[i].status \in Terminal /\ s \notin Terminal

-----------------------------------------------------------------------------
(* The requests *)

\* createIncident. Its id is new, so nothing can come between its two writes.
Create(f, i, s) ==
    /\ Fresh(i)
    /\ Begins(f, {"create"} \union If(s \in Terminal, "past"),
              [pc |-> "entry", inc |-> i, event |-> "created",
               row |-> [status |-> s, title |-> "first", resolvedAt |-> s \in Terminal]])
    /\ incident' = [incident EXCEPT ![i] = [status |-> s, title |-> "first", resolvedAt |-> s \in Terminal]]
    /\ asked' = [asked EXCEPT ![i] = [status |-> s, title |-> "first"]]
    /\ UNCHANGED <<timeline, told>>

\* mutant: the update is recorded in the timeline only
WithUpdate_TimelineOnly(row, s) == row
\* addIncidentUpdate: an incident that is reopened keeps its resolvedAt.
WithUpdate(row, s) ==
    [row EXCEPT !.status = s, !.resolvedAt = @ \/ s \in Terminal]

UpdateEvent(s) == IF s \in Terminal THEN "resolved" ELSE "updated"

\* addIncidentUpdate reads the incident; the entry is written first.
StartUpdate(f, i, s) ==
    /\ Known(i)
    /\ Begins(f, {"update"} \union If(Reopens(i, s), "reopen"),
              [pc |-> "entry", inc |-> i, event |-> UpdateEvent(s), row |-> WithUpdate(incident[i], s)])
    /\ asked' = [asked EXCEPT ![i].status = s]
    /\ UNCHANGED <<tables, told>>

\* ADD_INCIDENT_UPDATE.
AddEntry(f) ==
    /\ flow[f].pc = "entry"
    /\ timeline' = [timeline EXCEPT ![flow[f].inc] = Append(@, flow[f].row.status)]
    /\ Goes(f, IF flow[f].event = "created" THEN "tell" ELSE "row")
    /\ UNCHANGED <<incident, told, asked, used>>

\* createIncident without a message: no entry.
NoEntry(f) ==
    /\ flow[f].pc = "entry" /\ flow[f].event = "created"
    /\ Goes(f, "tell")
    /\ UNCHANGED <<tables, told, asked, used>>

\* updateIncident: a status that moves out of the terminal ones leaves resolvedAt undefined.
WithEdit(row, s) ==
    [row EXCEPT !.status = s, !.resolvedAt = IF s \in Terminal THEN TRUE ELSE s = row.status /\ @]

StartEdit(f, i, s, t) ==
    /\ Known(i)
    /\ s = incident[i].status \/ t = incident[i].title
    /\ Begins(f, {"edit"} \union If((s \in Terminal) # (incident[i].status \in Terminal), "silent")
                       \union If(Reopens(i, s), "reopen"),
              [pc |-> "row", inc |-> i, event |-> "none",
               row |-> [WithEdit(incident[i], s) EXCEPT !.title = t]])
    /\ asked' = [asked EXCEPT ![i] = [status |-> IF s = incident[i].status THEN @.status ELSE s,
                                      title |-> IF t = incident[i].title THEN @.title ELSE t]]
    /\ UNCHANGED <<tables, told>>

\* What the row is after a write of all its fields: one that is undefined is not
\* written, so a resolvedAt that is stored stays.
Written(old, new) == [new EXCEPT !.resolvedAt = @ \/ old.resolvedAt]

\* UPSERT_INCIDENT writes the whole row, and creates it when it is not there.
WriteRow(f) ==
    /\ flow[f].pc = "row"
    /\ incident' = [incident EXCEPT ![flow[f].inc] = Written(@, flow[f].row)]
    /\ IF flow[f].event = "none" THEN Ends(f) ELSE Goes(f, "tell")
    /\ UNCHANGED <<timeline, told, asked, used>>

\* emitProjectEvent, after everything was written.
Tell(f) ==
    /\ flow[f].pc = "tell"
    /\ told' = [told EXCEPT ![flow[f].inc] = flow[f].event]
    /\ Ends(f)
    /\ UNCHANGED <<tables, asked, used>>

\* deleteIncident; DELETE_INCIDENT is two statements.
StartDelete(f, i) ==
    /\ Known(i)
    /\ Begins(f, {"delete"}, [pc |-> "destroy", inc |-> i, row |-> incident[i], event |-> "none"])
    /\ UNCHANGED <<tables, told, asked>>

DestroyRow(f) ==
    /\ flow[f].pc = "destroy"
    /\ incident' = [incident EXCEPT ![flow[f].inc] = NoRow]
    /\ asked' = [asked EXCEPT ![flow[f].inc] = [status |-> "absent", title |-> "absent"]]
    /\ Goes(f, "entries")
    /\ UNCHANGED <<timeline, told, used>>

DestroyedEntries(i) == [timeline EXCEPT ![i] = <<>>]

DestroyEntries(f) ==
    /\ flow[f].pc = "entries"
    /\ timeline' = DestroyedEntries(flow[f].inc)
    /\ Ends(f)
    /\ UNCHANGED <<incident, told, asked, used>>

Crash ==
    /\ \E f \in Flows : flow[f] # NoFlow
    /\ Uses({"crash"})
    /\ flow' = [f \in Flows |-> NoFlow]
    /\ UNCHANGED <<tables, told, asked>>

-----------------------------------------------------------------------------

Init ==
    /\ incident = [i \in Incs |-> NoRow] /\ timeline = [i \in Incs |-> <<>>]
    /\ told = [i \in Incs |-> "none"]
    /\ asked = [i \in Incs |-> [status |-> "absent", title |-> "absent"]]
    /\ flow = [f \in Flows |-> NoFlow]
    /\ used = [k \in Kinds |-> 0]

Next ==
    \/ \E f \in Flows, i \in Incs, s \in Statuses :
         \/ Create(f, i, s) \/ StartUpdate(f, i, s)
         \/ \E t \in Titles : StartEdit(f, i, s, t)
    \/ \E f \in Flows : AddEntry(f) \/ NoEntry(f) \/ WriteRow(f) \/ Tell(f) \/ DestroyRow(f) \/ DestroyEntries(f)
    \/ \E f \in Flows, i \in Incs : StartDelete(f, i)
    \/ Crash

Spec == Init /\ [][Next]_vars

-----------------------------------------------------------------------------
(* Properties *)

Steps == {"done", "entry", "row", "tell", "destroy", "entries"}
TypeOK ==
    /\ incident \in [Incs -> Rows \union {NoRow}]
    /\ timeline \in [Incs -> Seq(Statuses)]
    /\ told \in [Incs -> {"none", "created", "updated", "resolved"}]
    /\ \A f \in Flows : flow[f].pc \in Steps /\ (flow[f] # NoFlow => flow[f].row \in Rows)
    /\ used \in [Kinds -> Nat]

Quiet(i) == \A f \in Flows : flow[f].inc # i

\* An incident that is over carries a resolution time, whichever requests run beside
\* each other and whatever is deleted or lost between their writes
\* (incidentController.ts:12, :63-73); and while requests take turns one that is open
\* carries none, unless it was reopened.
ResolutionIsStamped ==
    /\ \A i \in Incs : Known(i) /\ incident[i].status \in Terminal => incident[i].resolvedAt
    /\ Never({"reopen", "overlap"}) =>
         \A i \in Incs : Known(i) /\ incident[i].resolvedAt => incident[i].status \in Terminal

\* The same when it was reopened: neither an update nor an edit takes the resolution
\* time away, though the edit means to (incidentController.ts:85, incidentPersistence.ts:69).
ReopenedIsNotResolved ==
    \A i \in Incs : Known(i) => (incident[i].resolvedAt <=> incident[i].status \in Terminal)

\* What the last request about an incident asked for is what is stored, while
\* requests take turns: no whole-row write takes a status or a title back.
LastRequestWins ==
    Never({"overlap", "crash"}) =>
    \A i \in Incs : Quiet(i) /\ Known(i) =>
       incident[i].status = asked[i].status /\ incident[i].title = asked[i].title

\* The same when they do not take turns.
LastRequestAlwaysWins ==
    \A i \in Incs : Quiet(i) /\ Known(i) /\ Never({"crash"}) =>
       incident[i].status = asked[i].status /\ incident[i].title = asked[i].title

\* A deleted incident leaves nothing behind and does not return, while requests
\* take turns.
DeletedIsGone ==
    Never({"overlap", "crash"}) =>
    \A i \in Incs : Quiet(i) /\ ~Known(i) => timeline[i] = <<>>

\* The same when an update runs beside the deletion.
DeletedStaysDeleted ==
    [][\A i \in Incs : told[i] # "none" /\ ~Known(i) => incident'[i] = NoRow]_vars

\* Whoever follows an incident is told of its resolution, unless it was
\* resolved by an edit.
ResolutionIsTold ==
    Never({"past", "silent", "overlap", "crash"}) =>
    \A i \in Incs : Quiet(i) /\ Known(i) =>
       (incident[i].status \in Terminal <=> told[i] = "resolved")

\* The same when it was resolved by an edit.
ResolutionIsAlwaysTold ==
    Never({"past", "overlap", "crash"}) =>
    \A i \in Incs : Quiet(i) /\ Known(i) /\ incident[i].status \in Terminal => told[i] = "resolved"

=============================================================================
