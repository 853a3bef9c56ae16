--------------------------- MODULE StatusPageProofs ---------------------------
(***************************************************************************)
(* Incidents and their messages, Discord messages, quota alerts and health *)
(* checks, for every number of incidents, statuses, subjects, deliveries,  *)
(* resources, targets and requests at once. Of the components of           *)
(* MCStatusPage each proof uses only its own, and that the others leave    *)
(* its variables alone.                                                    *)
(***************************************************************************)
EXTENDS MCStatusPage, FiniteSetTheorems, TLAPS

-----------------------------------------------------------------------------
(* Incidents: how often events have happened.                              *)

\* Counting events keeps the counts natural numbers, and counts those named.
LEMMA IncidentEvents ==
    ASSUME iUsed \in [I!Kinds -> Nat], NEW kinds \in SUBSET I!Kinds, I!Uses(kinds)
    PROVE  /\ iUsed' \in [I!Kinds -> Nat]
           /\ \A k \in kinds : iUsed'[k] > 0
           /\ \A K \in SUBSET I!Kinds : I!Never(K)' => I!Never(K)
<1>1. iUsed' = [k \in I!Kinds |-> iUsed[k] + (IF k \in kinds THEN 1 ELSE 0)]
  BY DEF I!Uses
<1>2. \A k \in I!Kinds : iUsed'[k] = iUsed[k] + (IF k \in kinds THEN 1 ELSE 0)
  BY <1>1
<1>3. iUsed' \in [I!Kinds -> Nat]
  BY <1>1
<1>4. \A k \in I!Kinds : iUsed'[k] = 0 => iUsed[k] = 0
  BY <1>2
<1>5. \A K \in SUBSET I!Kinds : I!Never(K)' => I!Never(K)
  BY <1>4 DEF I!Never
<1> QED
  BY <1>2, <1>3, <1>5

\* A request that begins counts its kinds, and that another one is under way.
LEMMA RequestsBegin ==
    ASSUME iUsed \in [I!Kinds -> Nat], NEW f \in Flows, NEW kinds \in SUBSET I!Kinds, NEW first,
           I!Begins(f, kinds, first)
    PROVE  /\ iUsed' \in [I!Kinds -> Nat]
           /\ \A k \in kinds : iUsed'[k] > 0
           /\ I!Never({"overlap"})' => \A g \in Flows : iFlow[g] = I!NoFlow
           /\ \A K \in SUBSET I!Kinds : I!Never(K)' => I!Never(K)
<1> DEFINE all == IF \A g \in Flows : iFlow[g] = I!NoFlow THEN kinds ELSE kinds \cup {"overlap"}
<1>1. all \in SUBSET I!Kinds /\ I!Uses(all)
  BY DEF I!Begins, I!Kinds
<1>2. /\ iUsed' \in [I!Kinds -> Nat] /\ \A k \in all : iUsed'[k] > 0
      /\ \A K \in SUBSET I!Kinds : I!Never(K)' => I!Never(K)
  BY <1>1, IncidentEvents
<1>3. ASSUME I!Never({"overlap"})' PROVE \A g \in Flows : iFlow[g] = I!NoFlow
  <2>1. "overlap" \notin all
    BY <1>2, <1>3 DEF I!Never
  <2> QED
    BY <2>1
<1> QED
  BY <1>2, <1>3

-----------------------------------------------------------------------------
(* Incidents: the strengthening.                                           *)

USE NamesAssumption

IncidentFlow == [pc : I!Steps \ {"done"}, inc : Incs, row : I!Rows,
                 event : {"none", "created", "updated", "resolved"}]
IncidentsTyped ==
    /\ incident \in [Incs -> I!Rows \cup {I!NoRow}]
    /\ timeline \in [Incs -> Seq(IncidentStatuses)]
    /\ told \in [Incs -> {"none", "created", "updated", "resolved"}]
    /\ asked \in [Incs -> [status : IncidentStatuses \cup {"absent"}, title : I!Titles \cup {"absent"}]]
    /\ iFlow \in [Flows -> IncidentFlow \cup {I!NoFlow}]
    /\ iUsed \in [I!Kinds -> Nat]

\* A request that is going to write the row it has computed.
Rewrites(r) == r.pc = "row" \/ (r.pc = "entry" /\ r.event # "created")

\* What is stored, and what is going to be, has a resolution time when it is over.
Dated(row) == row.status \in Terminal => row.resolvedAt
EndsAreDated ==
    /\ \A i \in Incs : I!Known(i) => Dated(incident[i])
    /\ \A f \in Flows : Rewrites(iFlow[f]) => Dated(iFlow[f].row)

\* And until one is reopened has none when it is not, that of the row before included.
Undated(row) == row.resolvedAt => row.status \in Terminal
OthersAreUndated ==
    /\ \A i \in Incs : Undated(incident[i])
    /\ \A f \in Flows : Rewrites(iFlow[f]) => Undated(I!Written(incident[iFlow[f].inc], iFlow[f].row))

OneRequest == \A f, g \in Flows : f # g => iFlow[f] = I!NoFlow \/ iFlow[g] = I!NoFlow

\* What was asked for is stored, or on its way.
Matches(row, want) == row.status = want.status /\ row.title = want.title
AskedIsStored ==
    /\ \A i \in Incs : I!Quiet(i) /\ I!Known(i) => Matches(incident[i], asked[i])
    /\ \A f \in Flows : iFlow[f] # I!NoFlow /\ iFlow[f].pc \notin {"destroy", "entries"} =>
         Matches(IF Rewrites(iFlow[f]) THEN iFlow[f].row ELSE incident[iFlow[f].inc], asked[iFlow[f].inc])
    /\ \A f \in Flows : iFlow[f].pc = "entries" => ~I!Known(iFlow[f].inc)

\* Entries without a row are about to go, and nobody writes a row that is gone.
DeletedLeavesNothing ==
    /\ \A i \in Incs : I!Known(i) \/ timeline[i] = <<>> \/ \E f \in Flows : iFlow[f].inc = i /\ iFlow[f].pc = "entries"
    /\ \A f \in Flows : iFlow[f].pc \in {"entry", "row", "tell", "destroy"} => I!Known(iFlow[f].inc)

\* A row that is over is told to be resolved, or about to be.
Tells(row, event) == row.status \in Terminal <=> event = "resolved"
TheEndIsTold ==
    /\ \A i \in Incs : I!Quiet(i) /\ I!Known(i) => Tells(incident[i], told[i])
    /\ \A f \in Flows : LET r == iFlow[f] IN
        /\ Rewrites(r) => Tells(r.row, IF r.event = "none" THEN told[r.inc] ELSE r.event)
        /\ r.pc = "tell" \/ (r.pc = "entry" /\ r.event = "created") => Tells(incident[r.inc], r.event)
        /\ r.pc = "entries" => ~I!Known(r.inc)

IncidentsInv ==
    /\ IncidentsTyped
    /\ EndsAreDated
    /\ I!Never({"overlap"}) => OneRequest
    /\ I!Never({"reopen", "overlap"}) => OthersAreUndated
    /\ I!Never({"overlap", "crash"}) => AskedIsStored /\ DeletedLeavesNothing
    /\ I!Never({"past", "silent", "overlap", "crash"}) => TheEndIsTold

\* A request under way is one of an incident.
LEMMA NoFlowIsNone == I!NoFlow \notin IncidentFlow
BY DEF I!NoFlow, IncidentFlow

\* An incident that is stored has a row.
LEMMA KnownHasRow ==
    ASSUME IncidentsTyped, NEW i \in Incs PROVE I!Known(i) <=> incident[i] \in I!Rows
BY DEF IncidentsTyped, I!Known, I!Rows, I!NoRow, I!Titles

\* What a request computes is a row.
LEMMA ComputedRows ==
    ASSUME NEW row \in I!Rows, NEW s \in IncidentStatuses, NEW t \in I!Titles
    PROVE  /\ I!WithUpdate(row, s) \in I!Rows
           /\ I!WithUpdate(row, s).status = s /\ I!WithUpdate(row, s).title = row.title
           /\ [I!WithEdit(row, s) EXCEPT !.title = t] \in I!Rows
           /\ [I!WithEdit(row, s) EXCEPT !.title = t].status = s
           /\ [I!WithEdit(row, s) EXCEPT !.title = t].title = t
           /\ I!UpdateEvent(s) \in {"updated", "resolved"}
           /\ I!UpdateEvent(s) = "resolved" <=> s \in Terminal
BY DEF I!WithUpdate, I!WithEdit, I!Rows, I!UpdateEvent

\* What is written over a row is a row, as it was computed but for the time that stays.
LEMMA WrittenRows ==
    ASSUME NEW old \in I!Rows \cup {I!NoRow}, NEW row \in I!Rows
    PROVE  /\ I!Written(old, row) \in I!Rows
           /\ I!Written(old, row).status = row.status /\ I!Written(old, row).title = row.title
           /\ I!Written(old, row).resolvedAt <=> row.resolvedAt \/ old.resolvedAt
BY DEF I!Written, I!Rows, I!NoRow

\* What is computed is dated when it is over, and not when it is not, unless it is reopened.
LEMMA ComputedIsDated ==
    ASSUME NEW row \in I!Rows, NEW s \in IncidentStatuses, NEW t \in I!Titles
    PROVE  /\ Dated(row) => Dated(I!WithUpdate(row, s)) /\ Dated([I!WithEdit(row, s) EXCEPT !.title = t])
           /\ Undated(row) /\ ~(row.status \in Terminal /\ s \notin Terminal) =>
                /\ Undated(I!Written(row, I!WithUpdate(row, s)))
                /\ Undated(I!Written(row, [I!WithEdit(row, s) EXCEPT !.title = t]))
<1> DEFINE edited == [I!WithEdit(row, s) EXCEPT !.title = t]
<1>1. /\ I!WithUpdate(row, s) \in I!Rows /\ I!WithUpdate(row, s).status = s
      /\ edited \in I!Rows /\ edited.status = s
  BY ComputedRows
<1>2. /\ I!WithUpdate(row, s).resolvedAt <=> row.resolvedAt \/ s \in Terminal
      /\ s \in Terminal => edited.resolvedAt
      /\ edited.resolvedAt => s \in Terminal \/ (s = row.status /\ row.resolvedAt)
  BY DEF I!WithUpdate, I!WithEdit, I!Rows
<1> HIDE DEF edited
<1>3. /\ I!Written(row, I!WithUpdate(row, s)).status = s /\ I!Written(row, edited).status = s
      /\ I!Written(row, I!WithUpdate(row, s)).resolvedAt <=> I!WithUpdate(row, s).resolvedAt \/ row.resolvedAt
      /\ I!Written(row, edited).resolvedAt <=> edited.resolvedAt \/ row.resolvedAt
  BY <1>1, WrittenRows
<1>4. Dated(row) => Dated(I!WithUpdate(row, s)) /\ Dated(edited)
  BY <1>1, <1>2 DEF Dated
<1>5. Undated(row) /\ ~(row.status \in Terminal /\ s \notin Terminal) =>
        Undated(I!Written(row, I!WithUpdate(row, s))) /\ Undated(I!Written(row, edited))
  BY <1>1, <1>2, <1>3 DEF Undated
<1> QED
  BY <1>4, <1>5 DEF edited

-----------------------------------------------------------------------------
(* Incidents: every step keeps it.                                         *)

\* Every step of the component counts what happens.
LEMMA IncidentsCount ==
    ASSUME iUsed \in [I!Kinds -> Nat], I!Next
    PROVE  /\ iUsed' \in [I!Kinds -> Nat]
           /\ \A K \in SUBSET I!Kinds : I!Never(K)' => I!Never(K)
<1>1. ASSUME UNCHANGED iUsed PROVE \A K \in SUBSET I!Kinds : I!Never(K)' => I!Never(K)
  BY <1>1 DEF I!Never
<1>2. ASSUME NEW f, NEW kinds \in SUBSET I!Kinds, NEW first, I!Begins(f, kinds, first)
      PROVE  \E all \in SUBSET I!Kinds : I!Uses(all)
  BY <1>2 DEF I!Begins, I!Kinds
<1>3. ASSUME NEW f \in Flows, NEW i \in Incs, NEW s \in IncidentStatuses,
             \/ I!Create(f, i, s) \/ I!StartUpdate(f, i, s)
             \/ \E t \in I!Titles : I!StartEdit(f, i, s, t)
      PROVE  \E all \in SUBSET I!Kinds : I!Uses(all)
  <2>1. /\ {"create"} \cup I!If(s \in Terminal, "past") \in SUBSET I!Kinds
        /\ {"update"} \cup I!If(I!Reopens(i, s), "reopen") \in SUBSET I!Kinds
        /\ {"edit"} \cup I!If((s \in Terminal) # (incident[i].status \in Terminal), "silent") \cup I!If(I!Reopens(i, s), "reopen") \in SUBSET I!Kinds
    BY DEF I!Kinds, I!If
  <2>2. ASSUME I!Create(f, i, s) PROVE \E all \in SUBSET I!Kinds : I!Uses(all)
    BY <1>2, <2>1, <2>2 DEF I!Create
  <2>3. ASSUME I!StartUpdate(f, i, s) PROVE \E all \in SUBSET I!Kinds : I!Uses(all)
    BY <1>2, <2>1, <2>3 DEF I!StartUpdate
  <2>4. ASSUME NEW t, I!StartEdit(f, i, s, t) PROVE \E all \in SUBSET I!Kinds : I!Uses(all)
    BY <1>2, <2>1, <2>4 DEF I!StartEdit
  <2> QED
    BY <1>3, <2>2, <2>3, <2>4
<1>4. ASSUME NEW f \in Flows, \/ I!AddEntry(f) \/ I!NoEntry(f) \/ I!WriteRow(f) \/ I!Tell(f)
                              \/ I!DestroyRow(f) \/ I!DestroyEntries(f)
      PROVE  UNCHANGED iUsed
  BY <1>4 DEF I!AddEntry, I!NoEntry, I!WriteRow, I!Tell, I!DestroyRow, I!DestroyEntries
<1>5. I!Crash => \E all \in SUBSET I!Kinds : I!Uses(all)
  BY DEF I!Crash, I!Kinds
<1>6. (\E f \in Flows, i \in Incs : I!StartDelete(f, i)) => \E all \in SUBSET I!Kinds : I!Uses(all)
  BY <1>2 DEF I!StartDelete, I!Kinds
<1> QED
  BY <1>1, <1>3, <1>4, <1>5, <1>6, IncidentEvents DEF I!Next

\* A request that steps, begins or ends.
IncidentStep(f) ==
    \/ \E i \in Incs, s \in IncidentStatuses :
         I!Create(f, i, s) \/ I!StartUpdate(f, i, s) \/ \E t \in I!Titles : I!StartEdit(f, i, s, t)
    \/ I!AddEntry(f) \/ I!NoEntry(f) \/ I!WriteRow(f) \/ I!Tell(f) \/ I!DestroyRow(f) \/ I!DestroyEntries(f)
    \/ \E i \in Incs : I!StartDelete(f, i)

\* Where a request stands is where the next step is taken from.
LEMMA UnderWay ==
    ASSUME IncidentsTyped, NEW f \in Flows, iFlow[f].pc # "done"
    PROVE  /\ iFlow[f] \in IncidentFlow /\ iFlow[f].inc \in Incs /\ iFlow[f].row \in I!Rows
           /\ iFlow[f].event \in {"none", "created", "updated", "resolved"}
<1>1. iFlow[f] # I!NoFlow
  BY DEF I!NoFlow
<1> QED
  BY <1>1 DEF IncidentsTyped, IncidentFlow

\* It goes on as the same request, and no other moves.
LEMMA GoesOn ==
    ASSUME IncidentsTyped, NEW f \in Flows, iFlow[f].pc # "done", NEW pc \in I!Steps \ {"done"}, I!Goes(f, pc)
    PROVE  /\ iFlow' \in [Flows -> IncidentFlow \cup {I!NoFlow}]
           /\ iFlow'[f].pc = pc /\ iFlow'[f].inc = iFlow[f].inc /\ iFlow'[f].row = iFlow[f].row
           /\ iFlow'[f].event = iFlow[f].event /\ iFlow'[f] # I!NoFlow
           /\ \A g \in Flows \ {f} : iFlow'[g] = iFlow[g]
<1>1. iFlow[f] \in IncidentFlow /\ iFlow \in [Flows -> IncidentFlow \cup {I!NoFlow}]
  BY UnderWay DEF IncidentsTyped
<1>2. iFlow' = [iFlow EXCEPT ![f] = [iFlow[f] EXCEPT !.pc = pc]]
  BY DEF I!Goes
<1>3. [iFlow[f] EXCEPT !.pc = pc] \in IncidentFlow
  BY <1>1 DEF IncidentFlow
<1>4. iFlow' \in [Flows -> IncidentFlow \cup {I!NoFlow}] /\ \A g \in Flows \ {f} : iFlow'[g] = iFlow[g]
  BY <1>1, <1>2, <1>3
<1>5. iFlow'[f] = [iFlow[f] EXCEPT !.pc = pc]
  BY <1>1, <1>2
<1> QED
  BY <1>1, <1>4, <1>5 DEF IncidentFlow, I!NoFlow

\* Its entry is written, or not, before the row; an incident that is created has one.
LEMMA EntryIsNext ==
    ASSUME IncidentsTyped, NEW f \in Flows, I!AddEntry(f) \/ I!NoEntry(f)
    PROVE  /\ iFlow[f].pc = "entry" /\ iFlow'[f].row = iFlow[f].row /\ iFlow'[f].inc = iFlow[f].inc
           /\ iFlow'[f].pc = (IF iFlow[f].event = "created" THEN "tell" ELSE "row")
           /\ iFlow'[f].event = iFlow[f].event /\ iFlow'[f] # I!NoFlow
           /\ \A g \in Flows \ {f} : iFlow'[g] = iFlow[g]
           /\ UNCHANGED <<incident, told, asked, iUsed>>
<1>1. CASE I!AddEntry(f) /\ iFlow[f].event # "created"
  BY <1>1, GoesOn DEF I!AddEntry, I!Steps
<1>2. CASE I!AddEntry(f) /\ iFlow[f].event = "created"
  BY <1>2, GoesOn DEF I!AddEntry, I!Steps
<1>3. CASE I!NoEntry(f)
  BY <1>3, GoesOn DEF I!NoEntry, I!Steps, I!tables
<1> QED
  BY <1>1, <1>2, <1>3

\* Or it ends.
LEMMA IsOver ==
    ASSUME IncidentsTyped, NEW f \in Flows, I!Ends(f)
    PROVE  /\ iFlow' \in [Flows -> IncidentFlow \cup {I!NoFlow}]
           /\ iFlow'[f] = I!NoFlow /\ \A g \in Flows \ {f} : iFlow'[g] = iFlow[g]
BY DEF IncidentsTyped, I!Ends

\* Or it begins.
LEMMA IsBegun ==
    ASSUME IncidentsTyped, NEW f \in Flows, NEW kinds, NEW first, I!Begins(f, kinds, first)
    PROVE  iFlow'[f] = first /\ \A g \in Flows \ {f} : iFlow'[g] = iFlow[g]
BY DEF IncidentsTyped, I!Begins

\* The row that is written is the one computed, but for the date.
LEMMA WhatIsWritten ==
    ASSUME IncidentsTyped, NEW f \in Flows, I!WriteRow(f)
    PROVE  /\ iFlow[f].pc = "row" /\ UNCHANGED <<asked, told, timeline>>
           /\ incident'[iFlow[f].inc] \in I!Rows
           /\ incident'[iFlow[f].inc].status = iFlow[f].row.status
           /\ incident'[iFlow[f].inc].title = iFlow[f].row.title
           /\ \A i \in Incs : i # iFlow[f].inc => incident'[i] = incident[i]
<1>1. /\ iFlow[f].pc = "row" /\ UNCHANGED <<asked, told, timeline>>
      /\ incident' = [incident EXCEPT ![iFlow[f].inc] = I!Written(incident[iFlow[f].inc], iFlow[f].row)]
  BY DEF I!WriteRow, IncidentsTyped
<1>2. iFlow[f].inc \in Incs /\ iFlow[f].row \in I!Rows /\ incident[iFlow[f].inc] \in I!Rows \cup {I!NoRow}
  BY <1>1, UnderWay DEF IncidentsTyped
<1>3. incident'[iFlow[f].inc] = I!Written(incident[iFlow[f].inc], iFlow[f].row)
  BY <1>1, <1>2 DEF IncidentsTyped
<1> QED
  BY <1>1, <1>2, <1>3, WrittenRows DEF IncidentsTyped

\* Every step keeps the types.
LEMMA IncidentsTypedPreserved ==
    ASSUME IncidentsTyped, I!Next PROVE IncidentsTyped'
<1>1. iUsed' \in [I!Kinds -> Nat]
  BY IncidentsCount DEF IncidentsTyped
<1> USE DEF IncidentsTyped
<1>2. ASSUME NEW f \in Flows, NEW i \in Incs, NEW s \in IncidentStatuses, I!Create(f, i, s) PROVE IncidentsTyped'
  <2>1. [status |-> s, title |-> "first", resolvedAt |-> s \in Terminal] \in I!Rows
    BY DEF I!Rows, I!Titles
  <2>2. [pc |-> "entry", inc |-> i, event |-> "created",
         row |-> [status |-> s, title |-> "first", resolvedAt |-> s \in Terminal]] \in IncidentFlow
    BY <2>1 DEF IncidentFlow, I!Steps
  <2>3. [status |-> s, title |-> "first"] \in [status : IncidentStatuses \cup {"absent"}, title : I!Titles \cup {"absent"}]
    BY DEF I!Titles
  <2> QED
    BY <1>1, <1>2, <2>1, <2>2, <2>3 DEF I!Create, I!Begins
<1>3. ASSUME NEW f \in Flows, NEW i \in Incs, NEW s \in IncidentStatuses, I!StartUpdate(f, i, s) PROVE IncidentsTyped'
  <2>1. [pc |-> "entry", inc |-> i, event |-> I!UpdateEvent(s), row |-> I!WithUpdate(incident[i], s)] \in IncidentFlow
    BY <1>3, KnownHasRow, ComputedRows DEF I!StartUpdate, IncidentFlow, I!Steps, I!Titles
  <2>2. asked' \in [Incs -> [status : IncidentStatuses \cup {"absent"}, title : I!Titles \cup {"absent"}]]
    BY <1>3 DEF I!StartUpdate
  <2> QED
    BY <1>1, <1>3, <2>1, <2>2 DEF I!StartUpdate, I!Begins, I!tables
<1>4. ASSUME NEW f \in Flows, NEW i \in Incs, NEW s \in IncidentStatuses, NEW t \in I!Titles, I!StartEdit(f, i, s, t)
      PROVE  IncidentsTyped'
  <2>1. [pc |-> "row", inc |-> i, event |-> "none",
         row |-> [I!WithEdit(incident[i], s) EXCEPT !.title = t]] \in IncidentFlow
    BY <1>4, KnownHasRow, ComputedRows DEF I!StartEdit, IncidentFlow, I!Steps
  <2>2. asked' \in [Incs -> [status : IncidentStatuses \cup {"absent"}, title : I!Titles \cup {"absent"}]]
    BY <1>4 DEF I!StartEdit
  <2> QED
    BY <1>1, <1>4, <2>1, <2>2 DEF I!StartEdit, I!Begins, I!tables
<1>5. ASSUME NEW f \in Flows, I!AddEntry(f) PROVE IncidentsTyped'
  <2>1. iFlow[f].inc \in Incs /\ iFlow[f].row.status \in IncidentStatuses
    BY <1>5, UnderWay DEF I!AddEntry, I!Rows
  <2>2. timeline' \in [Incs -> Seq(IncidentStatuses)]
    BY <1>5, <2>1 DEF I!AddEntry
  <2>3. iFlow' \in [Flows -> IncidentFlow \cup {I!NoFlow}]
    BY <1>5, GoesOn DEF I!AddEntry, I!Steps
  <2> QED
    BY <1>1, <1>5, <2>2, <2>3 DEF I!AddEntry
<1>6. ASSUME NEW f \in Flows, I!NoEntry(f) PROVE IncidentsTyped'
  <2>1. iFlow' \in [Flows -> IncidentFlow \cup {I!NoFlow}]
    BY <1>6, GoesOn DEF I!NoEntry, I!Steps
  <2> QED
    BY <1>1, <1>6, <2>1 DEF I!NoEntry, I!tables
<1>7. ASSUME NEW f \in Flows, I!WriteRow(f) PROVE IncidentsTyped'
  <2>1. iFlow' \in [Flows -> IncidentFlow \cup {I!NoFlow}]
    BY <1>7, GoesOn, IsOver DEF I!WriteRow, I!Steps
  <2>2. I!Written(incident[iFlow[f].inc], iFlow[f].row) \in I!Rows
    BY <1>7, UnderWay, WrittenRows DEF I!WriteRow
  <2> QED
    BY <1>1, <1>7, <2>1, <2>2 DEF I!WriteRow
<1>8. ASSUME NEW f \in Flows, I!Tell(f) PROVE IncidentsTyped'
  <2>1. iFlow[f].event \in {"none", "created", "updated", "resolved"}
    BY <1>8, UnderWay DEF I!Tell, IncidentFlow
  <2> QED
    BY <1>1, <1>8, <2>1 DEF I!Tell, I!Ends, I!tables
<1>9. ASSUME NEW f \in Flows, I!DestroyRow(f) PROVE IncidentsTyped'
  <2>1. iFlow' \in [Flows -> IncidentFlow \cup {I!NoFlow}]
    BY <1>9, GoesOn DEF I!DestroyRow, I!Steps
  <2> QED
    BY <1>1, <1>9, <2>1 DEF I!DestroyRow
<1>10. ASSUME NEW f \in Flows, I!DestroyEntries(f) PROVE IncidentsTyped'
  <2>1. timeline' \in [Incs -> Seq(IncidentStatuses)]
    <3>1. <<>> \in Seq(IncidentStatuses)
      OBVIOUS
    <3> QED
      BY <1>10, <3>1 DEF I!DestroyEntries, I!DestroyedEntries
  <2> QED
    BY <1>1, <1>10, <2>1, IsOver DEF I!DestroyEntries
<1>11. ASSUME NEW f \in Flows, NEW i \in Incs, I!StartDelete(f, i) PROVE IncidentsTyped'
  <2>1. [pc |-> "destroy", inc |-> i, row |-> incident[i], event |-> "none"] \in IncidentFlow
    BY <1>11, KnownHasRow DEF I!StartDelete, IncidentFlow, I!Steps
  <2> QED
    BY <1>1, <1>11, <2>1 DEF I!StartDelete, I!Begins, I!tables
<1>12. CASE I!Crash
  BY <1>1, <1>12 DEF I!Crash, I!tables
<1> QED
  BY <1>2, <1>3, <1>4, <1>5, <1>6, <1>7, <1>8, <1>9, <1>10, <1>11, <1>12 DEF I!Next

\* Who tells or deletes is not going to write the row.
LEMMA LeavesTheRows ==
    ASSUME IncidentsTyped, NEW f \in Flows, \/ I!Tell(f) \/ I!DestroyRow(f) \/ I!DestroyEntries(f)
                                            \/ \E i \in Incs : I!StartDelete(f, i)
    PROVE  iFlow'[f].pc \in {"done", "destroy", "entries"} /\ \A g \in Flows \ {f} : iFlow'[g] = iFlow[g]
<1>1. CASE I!Tell(f) \/ I!DestroyEntries(f)
  BY <1>1, IsOver DEF I!Tell, I!DestroyEntries, I!NoFlow
<1>2. CASE I!DestroyRow(f)
  BY <1>2, GoesOn DEF I!DestroyRow, I!Steps
<1>3. ASSUME NEW i \in Incs, I!StartDelete(f, i)
      PROVE  iFlow'[f].pc = "destroy" /\ \A g \in Flows \ {f} : iFlow'[g] = iFlow[g]
  BY <1>3, IsBegun DEF I!StartDelete
<1> QED
  BY <1>1, <1>2, <1>3

\* A row is dated as it is computed, and keeps its date as it is written.
LEMMA EndsAreDatedPreserved ==
    ASSUME IncidentsTyped, EndsAreDated, I!Next PROVE EndsAreDated'
<1> USE DEF IncidentsTyped, EndsAreDated
<1>1. ASSUME NEW f \in Flows, NEW i \in Incs, NEW s \in IncidentStatuses, I!Create(f, i, s) PROVE EndsAreDated'
  BY <1>1 DEF I!Create, I!Begins, I!Known, Rewrites, Dated
<1>2. ASSUME NEW f \in Flows, NEW i \in Incs, NEW s \in IncidentStatuses, I!StartUpdate(f, i, s) PROVE EndsAreDated'
  <2> DEFINE row == I!WithUpdate(incident[i], s)
  <2>1. Dated(row)
    BY <1>2, KnownHasRow, ComputedIsDated DEF I!StartUpdate, I!Titles
  <2> HIDE DEF row
  <2> QED
    BY <1>2, <2>1 DEF I!StartUpdate, I!Begins, I!Known, I!tables, row
<1>3. ASSUME NEW f \in Flows, NEW i \in Incs, NEW s \in IncidentStatuses, NEW t \in I!Titles, I!StartEdit(f, i, s, t)
      PROVE  EndsAreDated'
  <2>1. Dated([I!WithEdit(incident[i], s) EXCEPT !.title = t])
    BY <1>3, KnownHasRow, ComputedIsDated DEF I!StartEdit
  <2> QED
    BY <1>3, <2>1 DEF I!StartEdit, I!Begins, I!Known, I!tables
<1>4. ASSUME NEW f \in Flows, I!AddEntry(f) \/ I!NoEntry(f) PROVE EndsAreDated'
  BY <1>4, EntryIsNext DEF I!Known, Rewrites
<1>5. ASSUME NEW f \in Flows, I!WriteRow(f) PROVE EndsAreDated'
  <2>1. iFlow'[f].pc \in {"done", "tell"} /\ \A g \in Flows \ {f} : iFlow'[g] = iFlow[g]
    BY <1>5, GoesOn, IsOver DEF I!WriteRow, I!Steps, I!NoFlow
  <2>2. Dated(I!Written(incident[iFlow[f].inc], iFlow[f].row))
    <3>1. Dated(iFlow[f].row)
      BY <1>5 DEF I!WriteRow, Rewrites
    <3> QED
      BY <1>5, <3>1, UnderWay, WrittenRows DEF I!WriteRow, Dated
  <2> DEFINE row == I!Written(incident[iFlow[f].inc], iFlow[f].row)
  <2>3. incident' = [incident EXCEPT ![iFlow[f].inc] = row]
    BY <1>5 DEF I!WriteRow
  <2>4. Dated(row)
    BY <2>2
  <2> HIDE DEF row
  <2>5. ASSUME NEW i \in Incs, I!Known(i)' PROVE Dated(incident[i])'
    <3>1. CASE i = iFlow[f].inc
      BY <2>3, <2>4, <3>1 DEF Dated
    <3>2. CASE i # iFlow[f].inc
      <4>1. incident'[i] = incident[i]
        BY <2>3, <3>2
      <4> QED
        BY <2>5, <4>1 DEF I!Known, Dated
    <3> QED
      BY <3>1, <3>2
  <2>6. ASSUME NEW g \in Flows, Rewrites(iFlow[g])' PROVE Dated(iFlow[g].row)'
    BY <2>1, <2>6 DEF Rewrites, Dated
  <2> QED
    BY <2>5, <2>6
<1>6. ASSUME NEW f \in Flows, \/ I!Tell(f) \/ I!DestroyRow(f) \/ I!DestroyEntries(f)
                              \/ \E i \in Incs : I!StartDelete(f, i)
      PROVE  EndsAreDated'
  <2>1. iFlow'[f].pc \in {"done", "destroy", "entries"} /\ \A g \in Flows \ {f} : iFlow'[g] = iFlow[g]
    BY <1>6, LeavesTheRows
  <2>2. \A i \in Incs : incident'[i] \in {incident[i], I!NoRow}
    BY <1>6 DEF I!Tell, I!DestroyRow, I!DestroyEntries, I!StartDelete, I!tables
  <2> QED
    BY <2>1, <2>2 DEF I!Known, Rewrites
<1>7. CASE I!Crash
  BY <1>7 DEF I!Crash, I!NoFlow, I!Known, I!tables, Rewrites
<1> QED
  BY <1>1, <1>2, <1>3, <1>4, <1>5, <1>6, <1>7 DEF I!Next

\* A request that begins while another is under way is counted, so there is one.
LEMMA OneRequestPreserved ==
    ASSUME IncidentsTyped, OneRequest, I!Next, I!Never({"overlap"})' PROVE OneRequest'
<1> USE DEF OneRequest
<1>1. ASSUME NEW f \in Flows, NEW kinds \in SUBSET I!Kinds, NEW first, I!Begins(f, kinds, first) PROVE OneRequest'
  BY <1>1, RequestsBegin, IsBegun DEF IncidentsTyped
<1>2. ASSUME NEW f \in Flows, iFlow[f] # I!NoFlow, \A g \in Flows \ {f} : iFlow'[g] = iFlow[g] PROVE OneRequest'
  BY <1>2
<1>3. ASSUME NEW f \in Flows, NEW i \in Incs, NEW s \in IncidentStatuses, I!Create(f, i, s) PROVE OneRequest'
  BY <1>1, <1>3 DEF I!Create, I!Kinds, I!If
<1>4. ASSUME NEW f \in Flows, NEW i \in Incs, NEW s \in IncidentStatuses, I!StartUpdate(f, i, s) PROVE OneRequest'
  BY <1>1, <1>4 DEF I!StartUpdate, I!Kinds, I!If
<1>5. ASSUME NEW f \in Flows, NEW i \in Incs, NEW s \in IncidentStatuses, NEW t \in I!Titles, I!StartEdit(f, i, s, t)
      PROVE  OneRequest'
  BY <1>1, <1>5 DEF I!StartEdit, I!Kinds, I!If
<1>6. ASSUME NEW f \in Flows, NEW i \in Incs, I!StartDelete(f, i) PROVE OneRequest'
  BY <1>1, <1>6 DEF I!StartDelete, I!Kinds
<1>7. ASSUME NEW f \in Flows, \/ I!AddEntry(f) \/ I!NoEntry(f) \/ I!WriteRow(f) \/ I!Tell(f)
                              \/ I!DestroyRow(f) \/ I!DestroyEntries(f)
      PROVE  OneRequest'
  <2>1. iFlow[f] # I!NoFlow
    BY <1>7 DEF I!AddEntry, I!NoEntry, I!WriteRow, I!Tell, I!DestroyRow, I!DestroyEntries, I!NoFlow
  <2>2. \A g \in Flows \ {f} : iFlow'[g] = iFlow[g]
    BY <1>7 DEF I!AddEntry, I!NoEntry, I!WriteRow, I!Tell, I!DestroyRow, I!DestroyEntries, I!Goes, I!Ends,
                IncidentsTyped
  <2> QED
    BY <1>2, <2>1, <2>2
<1>8. CASE I!Crash
  BY <1>8 DEF I!Crash
<1> QED
  BY <1>3, <1>4, <1>5, <1>6, <1>7, <1>8 DEF I!Next

\* Nobody else is about an incident than the one request that steps.
LEMMA OthersAreQuiet ==
    ASSUME IncidentsTyped, OneRequest, NEW f \in Flows, iFlow[f] # I!NoFlow
    PROVE  /\ \A g \in Flows \ {f} : iFlow[g] = I!NoFlow
           /\ \A i \in Incs : I!Quiet(i) <=> iFlow[f].inc # i
BY DEF IncidentsTyped, OneRequest, I!Quiet, I!NoFlow

\* A request that begins is the only one, and the date a row has is one it may have.
LEMMA OthersAreUndatedPreserved ==
    ASSUME IncidentsTyped, OneRequest, OthersAreUndated, I!Next, I!Never({"reopen", "overlap"})' PROVE OthersAreUndated'
<1>1. I!Never({"overlap"})' /\ ~(iUsed'["reopen"] > 0)
  BY DEF I!Never
<1>2. \A i \in Incs : Undated(incident[i])
  BY DEF OthersAreUndated
<1>3. ASSUME NEW f \in Flows, NEW kinds \in SUBSET I!Kinds, NEW first, I!Begins(f, kinds, first)
      PROVE  /\ \A g \in Flows \ {f} : iFlow'[g] = I!NoFlow
             /\ iFlow'[f] = first /\ "reopen" \notin kinds
  <2>1. (\A g \in Flows : iFlow[g] = I!NoFlow) /\ \A k \in kinds : iUsed'[k] > 0
    BY <1>1, <1>3, RequestsBegin DEF IncidentsTyped
  <2>2. iFlow'[f] = first /\ \A g \in Flows \ {f} : iFlow'[g] = iFlow[g]
    BY <1>3, IsBegun
  <2> QED
    BY <1>1, <2>1, <2>2
<1>4. ASSUME NEW f \in Flows, \A g \in Flows \ {f} : iFlow'[g] = I!NoFlow, \A i \in Incs : Undated(incident'[i]),
             Rewrites(iFlow'[f]) => Undated(I!Written(incident'[iFlow'[f].inc], iFlow'[f].row))
      PROVE  OthersAreUndated'
  BY <1>4 DEF OthersAreUndated, Undated, Rewrites, I!NoFlow, I!Written
<1>5. ASSUME NEW f \in Flows, NEW i \in Incs, NEW s \in IncidentStatuses, I!Create(f, i, s) PROVE OthersAreUndated'
  <2> DEFINE row == [status |-> s, title |-> "first", resolvedAt |-> s \in Terminal]
             first == [pc |-> "entry", inc |-> i, event |-> "created", row |-> row]
             kinds == {"create"} \cup I!If(s \in Terminal, "past")
  <2>1. (\A g \in Flows \ {f} : iFlow'[g] = I!NoFlow) /\ iFlow'[f] = first
    <3>1. I!Begins(f, kinds, first) /\ kinds \in SUBSET I!Kinds
      BY <1>5 DEF I!Create, I!Kinds, I!If
    <3> QED
      BY <1>3, <3>1
  <2>2. \A o \in Incs : Undated(incident'[o])
    BY <1>2, <1>5 DEF I!Create, Undated, IncidentsTyped
  <2> QED
    BY <1>4, <2>1, <2>2 DEF Rewrites
<1>6. ASSUME NEW f \in Flows, NEW i \in Incs, NEW s \in IncidentStatuses, I!StartUpdate(f, i, s) PROVE OthersAreUndated'
  <2> DEFINE row == I!WithUpdate(incident[i], s)
             first == [pc |-> "entry", inc |-> i, event |-> I!UpdateEvent(s), row |-> row]
             kinds == {"update"} \cup I!If(I!Reopens(i, s), "reopen")
  <2>1. /\ (\A g \in Flows \ {f} : iFlow'[g] = I!NoFlow) /\ iFlow'[f] = first
        /\ ~(incident[i].status \in Terminal /\ s \notin Terminal)
    <3>1. I!Begins(f, kinds, first) /\ kinds \in SUBSET I!Kinds
      BY <1>6 DEF I!StartUpdate, I!Kinds, I!If
    <3> QED
      BY <1>3, <3>1 DEF I!If, I!Reopens
  <2>2. Undated(I!Written(incident[i], row)) /\ UNCHANGED incident
    BY <1>2, <1>6, <2>1, KnownHasRow, ComputedIsDated DEF I!StartUpdate, I!tables, I!Titles
  <2> HIDE DEF row
  <2> QED
    BY <1>2, <1>4, <2>1, <2>2
<1>7. ASSUME NEW f \in Flows, NEW i \in Incs, NEW s \in IncidentStatuses, NEW t \in I!Titles, I!StartEdit(f, i, s, t)
      PROVE  OthersAreUndated'
  <2> DEFINE row == [I!WithEdit(incident[i], s) EXCEPT !.title = t]
             first == [pc |-> "row", inc |-> i, event |-> "none", row |-> row]
             kinds == {"edit"} \cup I!If((s \in Terminal) # (incident[i].status \in Terminal), "silent")
                               \cup I!If(I!Reopens(i, s), "reopen")
  <2>1. /\ (\A g \in Flows \ {f} : iFlow'[g] = I!NoFlow) /\ iFlow'[f] = first
        /\ ~(incident[i].status \in Terminal /\ s \notin Terminal)
    <3>1. I!Begins(f, kinds, first) /\ kinds \in SUBSET I!Kinds
      BY <1>7 DEF I!StartEdit, I!Kinds, I!If
    <3> QED
      BY <1>3, <3>1 DEF I!If, I!Reopens
  <2>2. Undated(I!Written(incident[i], row)) /\ UNCHANGED incident
    BY <1>2, <1>7, <2>1, KnownHasRow, ComputedIsDated DEF I!StartEdit, I!tables
  <2> HIDE DEF row
  <2> QED
    BY <1>2, <1>4, <2>1, <2>2
<1>8. ASSUME NEW f \in Flows, I!AddEntry(f) \/ I!NoEntry(f) PROVE OthersAreUndated'
  <2>1. \A g \in Flows \ {f} : iFlow'[g] = I!NoFlow
    BY <1>8, EntryIsNext, OthersAreQuiet DEF I!NoFlow
  <2>2. Rewrites(iFlow'[f]) => Rewrites(iFlow[f])
    BY <1>8, EntryIsNext DEF Rewrites
  <2>3. iFlow'[f].row = iFlow[f].row /\ iFlow'[f].inc = iFlow[f].inc /\ UNCHANGED incident
    BY <1>8, EntryIsNext
  <2> QED
    BY <1>2, <1>4, <2>1, <2>2, <2>3 DEF OthersAreUndated
<1>9. ASSUME NEW f \in Flows, I!WriteRow(f) PROVE OthersAreUndated'
  <2>1. iFlow'[f].pc \in {"done", "tell"} /\ \A g \in Flows \ {f} : iFlow'[g] = I!NoFlow
    BY <1>9, GoesOn, IsOver, OthersAreQuiet DEF I!WriteRow, I!Steps, I!NoFlow
  <2>2. Undated(I!Written(incident[iFlow[f].inc], iFlow[f].row))
    BY <1>9 DEF I!WriteRow, Rewrites, OthersAreUndated
  <2>3. incident' = [incident EXCEPT ![iFlow[f].inc] = I!Written(incident[iFlow[f].inc], iFlow[f].row)]
    BY <1>9, UnderWay DEF I!WriteRow, IncidentsTyped
  <2>4. \A i \in Incs : Undated(incident'[i])
    BY <1>2, <2>2, <2>3 DEF IncidentsTyped
  <2> QED
    BY <1>4, <2>1, <2>4 DEF Rewrites
<1>10. ASSUME NEW f \in Flows, \/ I!Tell(f) \/ I!DestroyRow(f) \/ I!DestroyEntries(f)
                               \/ \E i \in Incs : I!StartDelete(f, i)
      PROVE  OthersAreUndated'
  <2>1. iFlow'[f].pc \in {"done", "destroy", "entries"} /\ \A g \in Flows \ {f} : iFlow'[g] = iFlow[g]
    BY <1>10, LeavesTheRows
  <2>2. \A g \in Flows \ {f} : iFlow'[g] = I!NoFlow
    <3>1. ASSUME NEW i \in Incs, I!StartDelete(f, i) PROVE \A g \in Flows \ {f} : iFlow'[g] = I!NoFlow
      <4>1. {"delete"} \in SUBSET I!Kinds
        BY DEF I!Kinds
      <4> QED
        BY <1>3, <3>1, <4>1 DEF I!StartDelete
    <3>2. ~(\E i \in Incs : I!StartDelete(f, i)) => iFlow[f] # I!NoFlow
      BY <1>10 DEF I!Tell, I!DestroyRow, I!DestroyEntries, I!NoFlow
    <3> QED
      BY <2>1, <3>1, <3>2, OthersAreQuiet
  <2>3. \A i \in Incs : incident'[i] \in {incident[i], I!NoRow}
    BY <1>10 DEF I!Tell, I!DestroyRow, I!DestroyEntries, I!StartDelete, I!tables, IncidentsTyped
  <2>4. \A i \in Incs : Undated(incident'[i])
    BY <1>2, <2>3 DEF Undated, I!NoRow
  <2> QED
    BY <1>4, <2>1, <2>2, <2>4 DEF Rewrites
<1>11. CASE I!Crash
  <2>1. UNCHANGED incident /\ \A f \in Flows : iFlow'[f] = I!NoFlow
    BY <1>11 DEF I!Crash, I!tables
  <2> QED
    BY <1>2, <2>1 DEF OthersAreUndated, Rewrites, I!NoFlow
<1> QED
  BY <1>5, <1>6, <1>7, <1>8, <1>9, <1>10, <1>11 DEF I!Next

\* What is asked for is what is about to be written; nothing is written from before.
LEMMA AskedIsStoredPreserved ==
    ASSUME IncidentsTyped, IncidentsTyped', OneRequest, OneRequest', AskedIsStored, I!Next, I!Never({"overlap", "crash"})'
    PROVE  AskedIsStored'
<1>1. ~I!Crash
  <2>1. I!Crash => iUsed'["crash"] > 0
    BY IncidentEvents DEF I!Crash, I!Kinds, IncidentsTyped
  <2> QED
    BY <2>1 DEF I!Never
<1>2. ASSUME NEW f \in Flows, NEW kinds \in SUBSET I!Kinds, NEW first, I!Begins(f, kinds, first)
      PROVE  /\ \A i \in Incs : I!Known(i) => Matches(incident[i], asked[i])
             /\ \A g \in Flows \ {f} : iFlow'[g] = I!NoFlow
             /\ iFlow'[f] = first
  <2>1. \A g \in Flows : iFlow[g] = I!NoFlow
    BY <1>2, RequestsBegin DEF IncidentsTyped, I!Never
  <2> QED
    BY <1>2, <2>1, IsBegun DEF AskedIsStored, I!Quiet, I!NoFlow
<1>3. ASSUME NEW f \in Flows, \A g \in Flows \ {f} : iFlow'[g] = I!NoFlow,
             \A i \in Incs : incident'[i] # I!NoRow /\ iFlow'[f].inc # i => Matches(incident'[i], asked'[i]),
             iFlow'[f] # I!NoFlow /\ iFlow'[f].pc \notin {"destroy", "entries"} =>
               Matches(IF Rewrites(iFlow'[f]) THEN iFlow'[f].row ELSE incident'[iFlow'[f].inc], asked'[iFlow'[f].inc]),
             iFlow'[f].pc = "entries" => incident'[iFlow'[f].inc] = I!NoRow
      PROVE  AskedIsStored'
  BY <1>3 DEF AskedIsStored, I!Quiet, I!Known, Matches, Rewrites, I!NoFlow
<1>4. ASSUME NEW f \in Flows, NEW i \in Incs, NEW s \in IncidentStatuses, I!Create(f, i, s) PROVE AskedIsStored'
  <2> DEFINE row == [status |-> s, title |-> "first", resolvedAt |-> s \in Terminal]
             first == [pc |-> "entry", inc |-> i, event |-> "created", row |-> row]
             kinds == {"create"} \cup I!If(s \in Terminal, "past")
  <2>1. /\ \A o \in Incs : I!Known(o) => Matches(incident[o], asked[o])
        /\ \A g \in Flows \ {f} : iFlow'[g] = I!NoFlow
        /\ iFlow'[f] = first
    <3>1. I!Begins(f, kinds, first) /\ kinds \in SUBSET I!Kinds
      BY <1>4 DEF I!Create, I!Kinds, I!If
    <3> QED
      BY <1>2, <3>1
  <2>2. /\ incident'[i].status = s /\ incident'[i].title = "first"
        /\ asked'[i].status = s /\ asked'[i].title = "first"
        /\ \A o \in Incs \ {i} : incident'[o] = incident[o] /\ asked'[o] = asked[o]
    BY <1>4 DEF I!Create, IncidentsTyped
  <2> QED
    BY <1>3, <2>1, <2>2 DEF I!Known, Matches, Rewrites
<1>5. ASSUME NEW f \in Flows, NEW i \in Incs, NEW s \in IncidentStatuses, I!StartUpdate(f, i, s) PROVE AskedIsStored'
  <2> DEFINE row == I!WithUpdate(incident[i], s)
             first == [pc |-> "entry", inc |-> i, event |-> I!UpdateEvent(s), row |-> row]
             kinds == {"update"} \cup I!If(I!Reopens(i, s), "reopen")
  <2>1. /\ \A o \in Incs : I!Known(o) => Matches(incident[o], asked[o])
        /\ \A g \in Flows \ {f} : iFlow'[g] = I!NoFlow
        /\ iFlow'[f] = first
    <3>1. I!Begins(f, kinds, first) /\ kinds \in SUBSET I!Kinds
      BY <1>5 DEF I!StartUpdate, I!Kinds, I!If
    <3> QED
      BY <1>2, <3>1
  <2>2. row.status = s /\ row.title = incident[i].title /\ I!UpdateEvent(s) # "created"
    <3>1. incident[i] \in I!Rows /\ "first" \in I!Titles
      BY <1>5, KnownHasRow DEF I!StartUpdate, I!Titles
    <3> QED
      BY <3>1, ComputedRows
  <2>3. /\ asked'[i].status = s /\ asked'[i].title = asked[i].title /\ UNCHANGED incident
        /\ \A o \in Incs \ {i} : asked'[o] = asked[o]
    BY <1>5 DEF I!StartUpdate, I!tables, IncidentsTyped
  <2>4. Matches(row, asked'[i])
    BY <1>5, <2>1, <2>2, <2>3 DEF I!StartUpdate, Matches
  <2> HIDE DEF row
  <2> QED
    BY <1>3, <2>1, <2>2, <2>3, <2>4 DEF I!Known, Rewrites
<1>6. ASSUME NEW f \in Flows, NEW i \in Incs, NEW s \in IncidentStatuses, NEW t \in I!Titles, I!StartEdit(f, i, s, t)
      PROVE  AskedIsStored'
  <2> DEFINE row == [I!WithEdit(incident[i], s) EXCEPT !.title = t]
             first == [pc |-> "row", inc |-> i, event |-> "none", row |-> row]
             kinds == {"edit"} \cup I!If((s \in Terminal) # (incident[i].status \in Terminal), "silent") \cup I!If(I!Reopens(i, s), "reopen")
  <2>1. /\ \A o \in Incs : I!Known(o) => Matches(incident[o], asked[o])
        /\ \A g \in Flows \ {f} : iFlow'[g] = I!NoFlow
        /\ iFlow'[f] = first
    <3>1. I!Begins(f, kinds, first) /\ kinds \in SUBSET I!Kinds
      BY <1>6 DEF I!StartEdit, I!Kinds, I!If
    <3> QED
      BY <1>2, <3>1
  <2>2. row.status = s /\ row.title = t
    BY <1>6, KnownHasRow, ComputedRows DEF I!StartEdit
  <2>3. /\ UNCHANGED incident /\ \A o \in Incs \ {i} : asked'[o] = asked[o]
        /\ asked'[i].status = (IF s = incident[i].status THEN asked[i].status ELSE s)
        /\ asked'[i].title = (IF t = incident[i].title THEN asked[i].title ELSE t)
    BY <1>6 DEF I!StartEdit, I!tables, IncidentsTyped
  <2>4. Matches(row, asked'[i])
    BY <1>6, <2>1, <2>2, <2>3 DEF I!StartEdit, Matches
  <2> HIDE DEF row
  <2> QED
    BY <1>3, <2>1, <2>2, <2>3, <2>4 DEF I!Known, Rewrites
<1>7. ASSUME NEW f \in Flows, NEW i \in Incs, I!StartDelete(f, i) PROVE AskedIsStored'
  <2>1. /\ \A o \in Incs : I!Known(o) => Matches(incident[o], asked[o])
        /\ \A g \in Flows \ {f} : iFlow'[g] = I!NoFlow
        /\ iFlow'[f] = [pc |-> "destroy", inc |-> i, row |-> incident[i], event |-> "none"]
    <3>1. {"delete"} \in SUBSET I!Kinds
      BY DEF I!Kinds
    <3> QED
      BY <1>2, <1>7, <3>1 DEF I!StartDelete
  <2> QED
    BY <1>3, <1>7, <2>1 DEF I!StartDelete, I!Known, I!tables
<1>8. ASSUME NEW f \in Flows, iFlow[f].pc # "done"
      PROVE  /\ iFlow[f] # I!NoFlow /\ \A g \in Flows \ {f} : iFlow[g] = I!NoFlow
             /\ \A i \in Incs : I!Known(i) /\ iFlow[f].inc # i => Matches(incident[i], asked[i])
             /\ iFlow[f].pc \notin {"destroy", "entries"} =>
                  Matches(IF Rewrites(iFlow[f]) THEN iFlow[f].row ELSE incident[iFlow[f].inc], asked[iFlow[f].inc])
             /\ iFlow[f].pc = "entries" => ~I!Known(iFlow[f].inc)
  <2>1. iFlow[f] # I!NoFlow
    BY <1>8 DEF I!NoFlow
  <2> QED
    BY <1>8, <2>1, OthersAreQuiet DEF AskedIsStored
<1>9. ASSUME NEW f \in Flows, I!AddEntry(f) \/ I!NoEntry(f) PROVE AskedIsStored'
  <2>1. /\ iFlow[f].pc = "entry" /\ iFlow'[f].row = iFlow[f].row /\ iFlow'[f].inc = iFlow[f].inc
        /\ iFlow'[f].pc = (IF iFlow[f].event = "created" THEN "tell" ELSE "row")
        /\ \A g \in Flows \ {f} : iFlow'[g] = iFlow[g]
    BY <1>9, EntryIsNext
  <2>2. UNCHANGED <<incident, asked>>
    BY <1>9 DEF I!AddEntry, I!NoEntry, I!tables
  <2> QED
    BY <1>3, <1>8, <2>1, <2>2 DEF Rewrites, I!Known
<1>10. ASSUME NEW f \in Flows, I!WriteRow(f) PROVE AskedIsStored'
  <2>1. /\ iFlow'[f] = I!NoFlow \/ (iFlow'[f].pc = "tell" /\ iFlow'[f].inc = iFlow[f].inc)
        /\ \A g \in Flows \ {f} : iFlow'[g] = iFlow[g]
    BY <1>10, GoesOn, IsOver DEF I!WriteRow, I!Steps
  <2>2. /\ incident'[iFlow[f].inc].status = iFlow[f].row.status /\ incident'[iFlow[f].inc].title = iFlow[f].row.title
        /\ UNCHANGED asked /\ iFlow[f].pc = "row"
        /\ \A i \in Incs : i # iFlow[f].inc => incident'[i] = incident[i]
    BY <1>10, WhatIsWritten
  <2> QED
    BY <1>3, <1>8, <2>1, <2>2 DEF Rewrites, I!Known, I!NoFlow, Matches
<1>11. ASSUME NEW f \in Flows, I!Tell(f) PROVE AskedIsStored'
  <2>1. iFlow'[f] = I!NoFlow /\ \A g \in Flows \ {f} : iFlow'[g] = iFlow[g]
    BY <1>11, IsOver DEF I!Tell
  <2>2. UNCHANGED <<incident, asked>> /\ iFlow[f].pc = "tell"
    BY <1>11 DEF I!Tell, I!tables
  <2> QED
    BY <1>3, <1>8, <2>1, <2>2 DEF Rewrites, I!Known, I!NoFlow
<1>12. ASSUME NEW f \in Flows, I!DestroyRow(f) PROVE AskedIsStored'
  <2>1. /\ iFlow'[f].pc = "entries" /\ iFlow'[f].inc = iFlow[f].inc
        /\ \A g \in Flows \ {f} : iFlow'[g] = iFlow[g]
    BY <1>12, GoesOn DEF I!DestroyRow, I!Steps
  <2>2. \A i \in Incs : iFlow[f].inc # i => incident'[i] = incident[i] /\ asked'[i] = asked[i]
    BY <1>12 DEF I!DestroyRow, IncidentsTyped
  <2>3. incident'[iFlow[f].inc] = I!NoRow /\ iFlow[f].pc = "destroy"
    BY <1>12, UnderWay DEF I!DestroyRow, IncidentsTyped
  <2> QED
    BY <1>3, <1>8, <2>1, <2>2, <2>3 DEF I!Known
<1>13. ASSUME NEW f \in Flows, I!DestroyEntries(f) PROVE AskedIsStored'
  <2>1. iFlow'[f] = I!NoFlow /\ \A g \in Flows \ {f} : iFlow'[g] = iFlow[g]
    BY <1>13, IsOver DEF I!DestroyEntries
  <2>2. UNCHANGED <<incident, asked>> /\ iFlow[f].pc = "entries"
    BY <1>13 DEF I!DestroyEntries
  <2> QED
    BY <1>3, <1>8, <2>1, <2>2 DEF I!Known, I!NoFlow
<1> QED
  BY <1>1, <1>4, <1>5, <1>6, <1>7, <1>9, <1>10, <1>11, <1>12, <1>13 DEF I!Next

\* A request begins when there is no other.
LEMMA BeginsAlone ==
    ASSUME IncidentsTyped, I!Never({"overlap"})', NEW f \in Flows, NEW kinds \in SUBSET I!Kinds, NEW first,
           I!Begins(f, kinds, first)
    PROVE  /\ \A g \in Flows : iFlow[g] = I!NoFlow
           /\ \A g \in Flows \ {f} : iFlow'[g] = I!NoFlow
           /\ iFlow'[f] = first
           /\ \A k \in kinds : iUsed'[k] > 0
<1>1. (\A g \in Flows : iFlow[g] = I!NoFlow) /\ \A k \in kinds : iUsed'[k] > 0
  BY RequestsBegin DEF IncidentsTyped
<1>2. iFlow'[f] = first /\ \A g \in Flows \ {f} : iFlow'[g] = iFlow[g]
  BY IsBegun
<1> QED
  BY <1>1, <1>2

\* What a request begins with.
LEMMA FirstSteps ==
    ASSUME IncidentsTyped, I!Never({"overlap"})', NEW f \in Flows, NEW i \in Incs
    PROVE  /\ \A s \in IncidentStatuses : I!Create(f, i, s) =>
                /\ \A g \in Flows : iFlow[g] = I!NoFlow
                /\ \A g \in Flows \ {f} : iFlow'[g] = I!NoFlow
                /\ iFlow'[f].pc = "entry" /\ iFlow'[f].inc = i /\ iFlow'[f].event = "created"
                /\ s \in Terminal => iUsed'["past"] > 0
           /\ \A s \in IncidentStatuses : I!StartUpdate(f, i, s) =>
                /\ \A g \in Flows : iFlow[g] = I!NoFlow
                /\ \A g \in Flows \ {f} : iFlow'[g] = I!NoFlow
                /\ iFlow'[f].pc = "entry" /\ iFlow'[f].inc = i /\ iFlow'[f].event \in {"updated", "resolved"}
                /\ iFlow'[f].row.status = s /\ (iFlow'[f].event = "resolved" <=> s \in Terminal)
           /\ \A s \in IncidentStatuses, t \in I!Titles : I!StartEdit(f, i, s, t) =>
                /\ \A g \in Flows : iFlow[g] = I!NoFlow
                /\ \A g \in Flows \ {f} : iFlow'[g] = I!NoFlow
                /\ iFlow'[f].pc = "row" /\ iFlow'[f].inc = i /\ iFlow'[f].event = "none"
                /\ iFlow'[f].row.status = s
                /\ ~(s \in Terminal <=> incident[i].status \in Terminal) => iUsed'["silent"] > 0
           /\ I!StartDelete(f, i) =>
                /\ \A g \in Flows : iFlow[g] = I!NoFlow
                /\ \A g \in Flows \ {f} : iFlow'[g] = I!NoFlow
                /\ iFlow'[f].pc = "destroy" /\ iFlow'[f].inc = i /\ iFlow'[f].event = "none"
<1> USE DEF I!If
<1>1. ASSUME NEW s \in IncidentStatuses, I!Create(f, i, s)
      PROVE  /\ \A g \in Flows : iFlow[g] = I!NoFlow
             /\ \A g \in Flows \ {f} : iFlow'[g] = I!NoFlow
             /\ iFlow'[f].pc = "entry" /\ iFlow'[f].inc = i /\ iFlow'[f].event = "created"
             /\ s \in Terminal => iUsed'["past"] > 0
  <2> DEFINE kinds == {"create"} \cup I!If(s \in Terminal, "past")
             first == [pc |-> "entry", inc |-> i, event |-> "created",
                       row |-> [status |-> s, title |-> "first", resolvedAt |-> s \in Terminal]]
  <2>1. I!Begins(f, kinds, first) /\ kinds \in SUBSET I!Kinds
    BY <1>1 DEF I!Create, I!Kinds
  <2> HIDE DEF kinds, first
  <2>4. /\ (\A g \in Flows : iFlow[g] = I!NoFlow) /\ (\A g \in Flows \ {f} : iFlow'[g] = I!NoFlow)
        /\ iFlow'[f] = first /\ \A k \in kinds : iUsed'[k] > 0
    BY <2>1, BeginsAlone
  <2> QED
    BY <2>4 DEF kinds, first
<1>2. ASSUME NEW s \in IncidentStatuses, I!StartUpdate(f, i, s)
      PROVE  /\ \A g \in Flows : iFlow[g] = I!NoFlow
             /\ \A g \in Flows \ {f} : iFlow'[g] = I!NoFlow
             /\ iFlow'[f].pc = "entry" /\ iFlow'[f].inc = i /\ iFlow'[f].event \in {"updated", "resolved"}
             /\ iFlow'[f].row.status = s /\ (iFlow'[f].event = "resolved" <=> s \in Terminal)
  <2> DEFINE kinds == {"update"} \cup I!If(I!Reopens(i, s), "reopen")
             first == [pc |-> "entry", inc |-> i, event |-> I!UpdateEvent(s), row |-> I!WithUpdate(incident[i], s)]
  <2>1. I!Begins(f, kinds, first) /\ kinds \in SUBSET I!Kinds
    BY <1>2 DEF I!StartUpdate, I!Kinds
  <2>2. incident[i] \in I!Rows /\ "first" \in I!Titles
    BY <1>2, KnownHasRow DEF I!StartUpdate, I!Titles
  <2>3. /\ I!WithUpdate(incident[i], s).status = s /\ I!UpdateEvent(s) \in {"updated", "resolved"}
        /\ I!UpdateEvent(s) = "resolved" <=> s \in Terminal
    BY <2>2, ComputedRows
  <2> HIDE DEF kinds, first
  <2>4. /\ (\A g \in Flows : iFlow[g] = I!NoFlow) /\ (\A g \in Flows \ {f} : iFlow'[g] = I!NoFlow)
        /\ iFlow'[f] = first /\ \A k \in kinds : iUsed'[k] > 0
    BY <2>1, BeginsAlone
  <2> QED
    BY <2>3, <2>4 DEF kinds, first
<1>3. ASSUME NEW s \in IncidentStatuses, NEW t \in I!Titles, I!StartEdit(f, i, s, t)
      PROVE  /\ \A g \in Flows : iFlow[g] = I!NoFlow
             /\ \A g \in Flows \ {f} : iFlow'[g] = I!NoFlow
             /\ iFlow'[f].pc = "row" /\ iFlow'[f].inc = i /\ iFlow'[f].event = "none"
             /\ iFlow'[f].row.status = s
             /\ ~(s \in Terminal <=> incident[i].status \in Terminal) => iUsed'["silent"] > 0
  <2> DEFINE kinds == {"edit"} \cup I!If((s \in Terminal) # (incident[i].status \in Terminal), "silent") \cup I!If(I!Reopens(i, s), "reopen")
             row == [I!WithEdit(incident[i], s) EXCEPT !.title = t]
             first == [pc |-> "row", inc |-> i, event |-> "none", row |-> row]
  <2>1. I!Begins(f, kinds, first) /\ kinds \in SUBSET I!Kinds
    BY <1>3 DEF I!StartEdit, I!Kinds
  <2>2. row.status = s
    BY <1>3, KnownHasRow, ComputedRows DEF I!StartEdit
  <2> HIDE DEF kinds, first
  <2>4. /\ (\A g \in Flows : iFlow[g] = I!NoFlow) /\ (\A g \in Flows \ {f} : iFlow'[g] = I!NoFlow)
        /\ iFlow'[f] = first /\ \A k \in kinds : iUsed'[k] > 0
    BY <2>1, BeginsAlone
  <2>5. ~(s \in Terminal <=> incident[i].status \in Terminal) => "silent" \in kinds
    BY DEF kinds
  <2> HIDE DEF row
  <2> QED
    BY <2>2, <2>4, <2>5 DEF first
<1>4. ASSUME I!StartDelete(f, i)
      PROVE  /\ \A g \in Flows : iFlow[g] = I!NoFlow
             /\ \A g \in Flows \ {f} : iFlow'[g] = I!NoFlow
             /\ iFlow'[f].pc = "destroy" /\ iFlow'[f].inc = i /\ iFlow'[f].event = "none"
  <2> DEFINE kinds == {"delete"}
             first == [pc |-> "destroy", inc |-> i, row |-> incident[i], event |-> "none"]
  <2>1. I!Begins(f, kinds, first) /\ kinds \in SUBSET I!Kinds
    BY <1>4 DEF I!StartDelete, I!Kinds
  <2> HIDE DEF kinds, first
  <2>4. /\ (\A g \in Flows : iFlow[g] = I!NoFlow) /\ (\A g \in Flows \ {f} : iFlow'[g] = I!NoFlow)
        /\ iFlow'[f] = first /\ \A k \in kinds : iUsed'[k] > 0
    BY <2>1, BeginsAlone
  <2> QED
    BY <2>4 DEF kinds, first
<1> QED
  BY <1>1, <1>2, <1>3, <1>4

\* The entries of a row that is deleted go after it, and no request writes them again.
LEMMA NothingLeftPreserved ==
    ASSUME IncidentsTyped, OneRequest, DeletedLeavesNothing, I!Next, I!Never({"overlap", "crash"})'
    PROVE  DeletedLeavesNothing'
<1>1. ~I!Crash
  <2>1. I!Crash => iUsed'["crash"] > 0
    BY IncidentEvents DEF I!Crash, I!Kinds, IncidentsTyped
  <2> QED
    BY <2>1 DEF I!Never
<1>2. I!Never({"overlap"})'
  BY DEF I!Never
<1>3. ASSUME NEW f \in Flows, \A g \in Flows \ {f} : iFlow'[g] = I!NoFlow,
             \A i \in Incs : incident'[i] # I!NoRow \/ timeline'[i] = <<>> \/ (iFlow'[f].inc = i /\ iFlow'[f].pc = "entries"),
             iFlow'[f].pc \in {"entry", "row", "tell", "destroy"} => incident'[iFlow'[f].inc] # I!NoRow
      PROVE  DeletedLeavesNothing'
  BY <1>3 DEF DeletedLeavesNothing, I!Known, I!NoFlow
\* Before a request begins, nothing is left.
<1>4. ASSUME \A g \in Flows : iFlow[g] = I!NoFlow PROVE \A i \in Incs : I!Known(i) \/ timeline[i] = <<>>
  BY <1>4 DEF DeletedLeavesNothing, I!NoFlow
<1>5. ASSUME NEW f \in Flows, NEW i \in Incs, NEW s \in IncidentStatuses, I!Create(f, i, s) PROVE DeletedLeavesNothing'
  <2>1. incident'[i] # I!NoRow /\ (\A o \in Incs \ {i} : incident'[o] = incident[o]) /\ UNCHANGED timeline
    BY <1>5 DEF I!Create, IncidentsTyped, I!NoRow, I!Titles
  <2> QED
    BY <1>2, <1>3, <1>4, <1>5, <2>1, FirstSteps DEF I!Known
<1>6. ASSUME NEW f \in Flows, NEW i \in Incs, NEW s \in IncidentStatuses, I!StartUpdate(f, i, s) PROVE DeletedLeavesNothing'
  <2>1. UNCHANGED <<incident, timeline>> /\ I!Known(i)
    BY <1>6 DEF I!StartUpdate, I!tables
  <2> QED
    BY <1>2, <1>3, <1>4, <1>6, <2>1, FirstSteps DEF I!Known
<1>7. ASSUME NEW f \in Flows, NEW i \in Incs, NEW s \in IncidentStatuses, NEW t \in I!Titles, I!StartEdit(f, i, s, t)
      PROVE  DeletedLeavesNothing'
  <2>1. UNCHANGED <<incident, timeline>> /\ I!Known(i)
    BY <1>7 DEF I!StartEdit, I!tables
  <2> QED
    BY <1>2, <1>3, <1>4, <1>7, <2>1, FirstSteps DEF I!Known
<1>8. ASSUME NEW f \in Flows, NEW i \in Incs, I!StartDelete(f, i) PROVE DeletedLeavesNothing'
  <2>1. UNCHANGED <<incident, timeline>> /\ I!Known(i)
    BY <1>8 DEF I!StartDelete, I!tables
  <2> QED
    BY <1>2, <1>3, <1>4, <1>8, <2>1, FirstSteps DEF I!Known
<1>9. ASSUME NEW f \in Flows, iFlow[f].pc # "done"
      PROVE  /\ \A g \in Flows \ {f} : iFlow[g] = I!NoFlow
             /\ iFlow[f].inc \in Incs /\ iFlow[f].row \in I!Rows /\ I!NoRow \notin I!Rows
             /\ iFlow[f].pc \in {"entry", "row", "tell", "destroy"} => I!Known(iFlow[f].inc)
             /\ \A i \in Incs : I!Known(i) \/ timeline[i] = <<>> \/ (iFlow[f].inc = i /\ iFlow[f].pc = "entries")
  <2>1. iFlow[f] # I!NoFlow /\ I!NoRow \notin I!Rows
    BY <1>9 DEF I!NoFlow, I!NoRow, I!Rows, I!Titles
  <2> QED
    BY <1>9, <2>1, OthersAreQuiet, UnderWay DEF DeletedLeavesNothing, I!NoFlow
<1>10. ASSUME NEW f \in Flows, I!AddEntry(f) \/ I!NoEntry(f) PROVE DeletedLeavesNothing'
  <2>1. \A i \in Incs : iFlow[f].inc # i => timeline'[i] = timeline[i]
    BY <1>10 DEF I!AddEntry, I!NoEntry, I!tables, IncidentsTyped
  <2> QED
    BY <1>3, <1>9, <1>10, <2>1, EntryIsNext DEF I!Known
<1>11. ASSUME NEW f \in Flows, I!WriteRow(f) PROVE DeletedLeavesNothing'
  <2>1. /\ iFlow'[f] = I!NoFlow \/ (iFlow'[f].pc = "tell" /\ iFlow'[f].inc = iFlow[f].inc)
        /\ \A g \in Flows \ {f} : iFlow'[g] = iFlow[g]
    BY <1>11, GoesOn, IsOver DEF I!WriteRow, I!Steps
  <2>2. /\ incident'[iFlow[f].inc] \in I!Rows /\ iFlow[f].pc = "row" /\ UNCHANGED timeline
        /\ \A i \in Incs : i # iFlow[f].inc => incident'[i] = incident[i]
    BY <1>11, WhatIsWritten
  <2> QED
    BY <1>3, <1>9, <2>1, <2>2 DEF I!Known, I!NoFlow
<1>12. ASSUME NEW f \in Flows, I!Tell(f) PROVE DeletedLeavesNothing'
  <2>1. iFlow'[f] = I!NoFlow /\ \A g \in Flows \ {f} : iFlow'[g] = iFlow[g]
    BY <1>12, IsOver DEF I!Tell
  <2>2. UNCHANGED <<incident, timeline>> /\ iFlow[f].pc = "tell"
    BY <1>12 DEF I!Tell, I!tables
  <2> QED
    BY <1>3, <1>9, <2>1, <2>2 DEF I!Known, I!NoFlow
<1>13. ASSUME NEW f \in Flows, I!DestroyRow(f) PROVE DeletedLeavesNothing'
  <2>1. /\ iFlow'[f].pc = "entries" /\ iFlow'[f].inc = iFlow[f].inc
        /\ \A g \in Flows \ {f} : iFlow'[g] = iFlow[g]
    BY <1>13, GoesOn DEF I!DestroyRow, I!Steps
  <2>2. /\ \A i \in Incs : iFlow[f].inc # i => incident'[i] = incident[i]
        /\ UNCHANGED timeline /\ iFlow[f].pc = "destroy"
    BY <1>13 DEF I!DestroyRow, IncidentsTyped
  <2> QED
    BY <1>3, <1>9, <2>1, <2>2 DEF I!Known
<1>14. ASSUME NEW f \in Flows, I!DestroyEntries(f) PROVE DeletedLeavesNothing'
  <2>1. iFlow'[f] = I!NoFlow /\ \A g \in Flows \ {f} : iFlow'[g] = iFlow[g]
    BY <1>14, IsOver DEF I!DestroyEntries
  <2>2. UNCHANGED incident /\ iFlow[f].pc = "entries"
        /\ \A i \in Incs : timeline'[i] = (IF i = iFlow[f].inc THEN <<>> ELSE timeline[i])
    BY <1>14 DEF I!DestroyEntries, I!DestroyedEntries, IncidentsTyped
  <2> QED
    BY <1>3, <1>9, <2>1, <2>2 DEF I!Known, I!NoFlow
<1> QED
  BY <1>1, <1>5, <1>6, <1>7, <1>8, <1>10, <1>11, <1>12, <1>13, <1>14 DEF I!Next

\* Who is told last is told whether it is over.
LEMMA TheEndIsToldPreserved ==
    ASSUME IncidentsTyped, OneRequest, TheEndIsTold, I!Next, I!Never({"past", "silent", "overlap", "crash"})'
    PROVE  TheEndIsTold'
<1>1. ~I!Crash
  <2>1. I!Crash => iUsed'["crash"] > 0
    BY IncidentEvents DEF I!Crash, I!Kinds, IncidentsTyped
  <2> QED
    BY <2>1 DEF I!Never
<1>2. I!Never({"overlap"})' /\ ~(iUsed'["past"] > 0) /\ ~(iUsed'["silent"] > 0)
  BY DEF I!Never
<1>3. ASSUME NEW f \in Flows, \A g \in Flows \ {f} : iFlow'[g] = I!NoFlow,
             \A i \in Incs : incident'[i] # I!NoRow /\ iFlow'[f].inc # i => Tells(incident'[i], told'[i]),
             Rewrites(iFlow'[f]) => Tells(iFlow'[f].row, IF iFlow'[f].event = "none" THEN told'[iFlow'[f].inc]
                                                         ELSE iFlow'[f].event),
             iFlow'[f].pc = "tell" \/ (iFlow'[f].pc = "entry" /\ iFlow'[f].event = "created") =>
               Tells(incident'[iFlow'[f].inc], iFlow'[f].event),
             iFlow'[f].pc = "entries" => incident'[iFlow'[f].inc] = I!NoRow
      PROVE  TheEndIsTold'
  BY <1>3 DEF TheEndIsTold, I!Quiet, I!Known, Rewrites, Tells, I!NoFlow
\* Before a request begins, everybody has been told.
<1>4. ASSUME \A g \in Flows : iFlow[g] = I!NoFlow PROVE \A i \in Incs : I!Known(i) => Tells(incident[i], told[i])
  BY <1>4 DEF TheEndIsTold, I!Quiet, I!NoFlow
<1>5. ASSUME NEW f \in Flows, NEW i \in Incs, NEW s \in IncidentStatuses, I!Create(f, i, s) PROVE TheEndIsTold'
  <2>1. /\ incident'[i].status = s /\ (\A o \in Incs \ {i} : incident'[o] = incident[o]) /\ UNCHANGED told
    BY <1>5 DEF I!Create, IncidentsTyped
  <2>2. /\ \A g \in Flows : iFlow[g] = I!NoFlow
        /\ \A g \in Flows \ {f} : iFlow'[g] = I!NoFlow
        /\ iFlow'[f].pc = "entry" /\ iFlow'[f].inc = i /\ iFlow'[f].event = "created" /\ s \notin Terminal
    BY <1>2, <1>5, FirstSteps
  <2> QED
    BY <1>3, <1>4, <2>1, <2>2 DEF I!Known, Rewrites, Tells
<1>6. ASSUME NEW f \in Flows, NEW i \in Incs, NEW s \in IncidentStatuses, I!StartUpdate(f, i, s) PROVE TheEndIsTold'
  <2>1. UNCHANGED <<incident, told>>
    BY <1>6 DEF I!StartUpdate, I!tables
  <2>2. /\ \A g \in Flows : iFlow[g] = I!NoFlow
        /\ \A g \in Flows \ {f} : iFlow'[g] = I!NoFlow
        /\ iFlow'[f].pc = "entry" /\ iFlow'[f].inc = i /\ iFlow'[f].event \in {"updated", "resolved"}
        /\ iFlow'[f].row.status = s /\ (iFlow'[f].event = "resolved" <=> s \in Terminal)
    BY <1>2, <1>6, FirstSteps
  <2> QED
    BY <1>3, <1>4, <2>1, <2>2 DEF I!Known, Rewrites, Tells
<1>7. ASSUME NEW f \in Flows, NEW i \in Incs, NEW s \in IncidentStatuses, NEW t \in I!Titles, I!StartEdit(f, i, s, t)
      PROVE  TheEndIsTold'
  <2>1. UNCHANGED <<incident, told>> /\ I!Known(i)
    BY <1>7 DEF I!StartEdit, I!tables
  <2>2. /\ \A g \in Flows : iFlow[g] = I!NoFlow
        /\ \A g \in Flows \ {f} : iFlow'[g] = I!NoFlow
        /\ iFlow'[f].pc = "row" /\ iFlow'[f].inc = i /\ iFlow'[f].event = "none"
        /\ iFlow'[f].row.status = s /\ (s \in Terminal <=> incident[i].status \in Terminal)
    BY <1>2, <1>7, FirstSteps
  <2> QED
    BY <1>3, <1>4, <2>1, <2>2 DEF I!Known, Rewrites, Tells
<1>8. ASSUME NEW f \in Flows, NEW i \in Incs, I!StartDelete(f, i) PROVE TheEndIsTold'
  <2>1. UNCHANGED <<incident, told>>
    BY <1>8 DEF I!StartDelete, I!tables
  <2>2. /\ \A g \in Flows : iFlow[g] = I!NoFlow
        /\ \A g \in Flows \ {f} : iFlow'[g] = I!NoFlow
        /\ iFlow'[f].pc = "destroy" /\ iFlow'[f].inc = i /\ iFlow'[f].event = "none"
    BY <1>2, <1>8, FirstSteps
  <2> QED
    BY <1>3, <1>4, <2>1, <2>2 DEF I!Known, Rewrites
<1>9. ASSUME NEW f \in Flows, iFlow[f].pc # "done"
      PROVE  /\ \A g \in Flows \ {f} : iFlow[g] = I!NoFlow
             /\ iFlow[f].inc \in Incs
             /\ \A i \in Incs : I!Known(i) /\ iFlow[f].inc # i => Tells(incident[i], told[i])
             /\ Rewrites(iFlow[f]) => Tells(iFlow[f].row, IF iFlow[f].event = "none" THEN told[iFlow[f].inc]
                                                          ELSE iFlow[f].event)
             /\ iFlow[f].pc = "tell" \/ (iFlow[f].pc = "entry" /\ iFlow[f].event = "created") =>
                  Tells(incident[iFlow[f].inc], iFlow[f].event)
             /\ iFlow[f].pc = "entries" => ~I!Known(iFlow[f].inc)
  <2>1. iFlow[f] # I!NoFlow
    BY <1>9 DEF I!NoFlow
  <2> QED
    BY <1>9, <2>1, OthersAreQuiet, UnderWay DEF TheEndIsTold
<1>10. ASSUME NEW f \in Flows, I!AddEntry(f) \/ I!NoEntry(f) PROVE TheEndIsTold'
  BY <1>3, <1>9, <1>10, EntryIsNext DEF I!Known, Rewrites
<1>11. ASSUME NEW f \in Flows, I!WriteRow(f) PROVE TheEndIsTold'
  <2>1. /\ \/ iFlow'[f] = I!NoFlow /\ iFlow[f].event = "none"
           \/ /\ iFlow'[f].pc = "tell" /\ iFlow'[f].inc = iFlow[f].inc
              /\ iFlow'[f].event = iFlow[f].event /\ iFlow[f].event # "none"
        /\ \A g \in Flows \ {f} : iFlow'[g] = iFlow[g]
    BY <1>11, GoesOn, IsOver DEF I!WriteRow, I!Steps
  <2>2. /\ incident'[iFlow[f].inc].status = iFlow[f].row.status /\ iFlow[f].pc = "row" /\ UNCHANGED told
        /\ \A i \in Incs : i # iFlow[f].inc => incident'[i] = incident[i]
    BY <1>11, WhatIsWritten
  <2> QED
    BY <1>3, <1>9, <2>1, <2>2 DEF I!Known, Rewrites, I!NoFlow, Tells
<1>12. ASSUME NEW f \in Flows, I!Tell(f) PROVE TheEndIsTold'
  <2>1. iFlow'[f] = I!NoFlow /\ \A g \in Flows \ {f} : iFlow'[g] = iFlow[g]
    BY <1>12, IsOver DEF I!Tell
  <2>2. /\ UNCHANGED incident /\ iFlow[f].pc = "tell" /\ told'[iFlow[f].inc] = iFlow[f].event
        /\ \A i \in Incs : i # iFlow[f].inc => told'[i] = told[i]
    BY <1>12, UnderWay DEF I!Tell, I!tables, IncidentsTyped
  <2> QED
    BY <1>3, <1>9, <2>1, <2>2 DEF I!Known, Rewrites, Tells, I!NoFlow
<1>13. ASSUME NEW f \in Flows, I!DestroyRow(f) PROVE TheEndIsTold'
  <2>1. /\ iFlow'[f].pc = "entries" /\ iFlow'[f].inc = iFlow[f].inc
        /\ \A g \in Flows \ {f} : iFlow'[g] = iFlow[g]
    BY <1>13, GoesOn DEF I!DestroyRow, I!Steps
  <2>2. /\ \A i \in Incs : iFlow[f].inc # i => incident'[i] = incident[i]
        /\ UNCHANGED told /\ iFlow[f].pc = "destroy" /\ incident'[iFlow[f].inc] = I!NoRow
    BY <1>13, UnderWay DEF I!DestroyRow, IncidentsTyped
  <2> QED
    BY <1>3, <1>9, <2>1, <2>2 DEF I!Known, Rewrites
<1>14. ASSUME NEW f \in Flows, I!DestroyEntries(f) PROVE TheEndIsTold'
  <2>1. iFlow'[f] = I!NoFlow /\ \A g \in Flows \ {f} : iFlow'[g] = iFlow[g]
    BY <1>14, IsOver DEF I!DestroyEntries
  <2>2. UNCHANGED <<incident, told>> /\ iFlow[f].pc = "entries"
    BY <1>14 DEF I!DestroyEntries
  <2> QED
    BY <1>3, <1>9, <2>1, <2>2 DEF I!Known, Rewrites, I!NoFlow
<1> QED
  BY <1>1, <1>5, <1>6, <1>7, <1>8, <1>10, <1>11, <1>12, <1>13, <1>14 DEF I!Next

\* Every step of the composition keeps the invariant: the other components leave
\* its variables alone.
LEMMA IncidentsInvPreserved ==
    IncidentsInv /\ [Next]_<<part, hVars, iVars, qVars, dVars>> => IncidentsInv'
<1> SUFFICES ASSUME IncidentsInv, [Next]_<<part, hVars, iVars, qVars, dVars>> PROVE IncidentsInv'
  OBVIOUS
<1>1. CASE I!Next
  <2>1. IncidentsTyped /\ IncidentsTyped'
    BY <1>1, IncidentsTypedPreserved DEF IncidentsInv
  <2>2. \A K \in SUBSET I!Kinds : I!Never(K)' => I!Never(K)
    BY <1>1, <2>1, IncidentsCount DEF IncidentsTyped
  <2>3. /\ {"reopen", "overlap"} \in SUBSET I!Kinds /\ {"overlap"} \in SUBSET I!Kinds /\ {"overlap", "crash"} \in SUBSET I!Kinds
        /\ {"past", "silent", "overlap", "crash"} \in SUBSET I!Kinds
    BY DEF I!Kinds
  <2>4. ASSUME I!Never({"reopen", "overlap"})' PROVE OthersAreUndated'
    <3>1. I!Never({"reopen", "overlap"}) /\ I!Never({"overlap"})
      BY <2>2, <2>3, <2>4 DEF I!Never
    <3> QED
      BY <1>1, <2>1, <2>4, <3>1, OthersAreUndatedPreserved DEF IncidentsInv
  <2>5. ASSUME I!Never({"overlap"})' PROVE OneRequest'
    BY <1>1, <2>1, <2>2, <2>3, <2>5, OneRequestPreserved DEF IncidentsInv
  <2>6. ASSUME I!Never({"overlap", "crash"})' PROVE AskedIsStored' /\ DeletedLeavesNothing'
    <3>1. I!Never({"overlap"})' /\ I!Never({"overlap"}) /\ I!Never({"overlap", "crash"})
      BY <2>2, <2>3, <2>6 DEF I!Never
    <3> QED
      BY <1>1, <2>1, <2>5, <2>6, <3>1, AskedIsStoredPreserved, NothingLeftPreserved DEF IncidentsInv
  <2>7. ASSUME I!Never({"past", "silent", "overlap", "crash"})' PROVE TheEndIsTold'
    <3>1. I!Never({"overlap"}) /\ I!Never({"past", "silent", "overlap", "crash"})
      BY <2>2, <2>3, <2>7 DEF I!Never
    <3> QED
      BY <1>1, <2>1, <2>7, <3>1, TheEndIsToldPreserved DEF IncidentsInv
  <2>8. EndsAreDated'
    BY <1>1, <2>1, EndsAreDatedPreserved DEF IncidentsInv
  <2> QED
    BY <2>1, <2>4, <2>5, <2>6, <2>7, <2>8 DEF IncidentsInv
<1>2. CASE UNCHANGED iVars
  <2>1. UNCHANGED incident /\ UNCHANGED timeline /\ UNCHANGED told /\ UNCHANGED asked /\ UNCHANGED iFlow
        /\ UNCHANGED iUsed
    BY <1>2 DEF iVars
  <2> QED
    BY <2>1 DEF IncidentsInv, IncidentsTyped, EndsAreDated, OthersAreUndated, OneRequest, AskedIsStored, DeletedLeavesNothing,
                TheEndIsTold, I!Quiet, I!Known, I!Never
<1> QED
  BY <1>1, <1>2 DEF Next

\* There is no incident in the beginning.
LEMMA IncidentsInvInitially == Init => IncidentsInv
<1> SUFFICES ASSUME I!Init PROVE IncidentsInv
  BY DEF Init
<1>1. IncidentsTyped
  <2>1. <<>> \in Seq(IncidentStatuses)
    OBVIOUS
  <2> QED
    BY <2>1 DEF I!Init, IncidentsTyped
<1> QED
  BY <1>1 DEF I!Init, IncidentsInv, EndsAreDated, OthersAreUndated, OneRequest, AskedIsStored, DeletedLeavesNothing,
              TheEndIsTold, Undated, I!NoRow, Rewrites, I!Known, I!NoFlow

\* What an incident shows, and what was told of it, is what was asked for last
\* (incidentController.ts): it carries a resolution time when it is over, whatever runs
\* beside it, and until one is reopened only then; no row is written back over a later one,
\* and nothing is left of one that is deleted, while requests take turns.
THEOREM FollowersAreTold == Spec => []IncidentsAreTold
<1>1. ASSUME IncidentsInv PROVE I!TypeOK
  <2>1. \A f \in Flows : iFlow[f].pc \in I!Steps /\ (iFlow[f] # I!NoFlow => iFlow[f].row \in I!Rows)
    BY <1>1 DEF IncidentsInv, IncidentsTyped, IncidentFlow, I!NoFlow, I!Steps
  <2> QED
    BY <1>1, <2>1 DEF IncidentsInv, IncidentsTyped, I!TypeOK
<1>2. IncidentsInv => I!ResolutionIsStamped
  BY DEF IncidentsInv, EndsAreDated, OthersAreUndated, Dated, Undated, I!ResolutionIsStamped
<1>3. IncidentsInv => I!LastRequestWins /\ I!DeletedIsGone
  BY DEF IncidentsInv, AskedIsStored, Matches, DeletedLeavesNothing, I!LastRequestWins, I!DeletedIsGone, I!Quiet
<1>4. IncidentsInv => I!ResolutionIsTold
  BY DEF IncidentsInv, TheEndIsTold, Tells, I!ResolutionIsTold
<1>5. IncidentsInv => IncidentsAreTold
  BY <1>1, <1>2, <1>3, <1>4 DEF IncidentsAreTold
<1> QED
  BY <1>5, IncidentsInvInitially, IncidentsInvPreserved, PTL DEF Spec

-----------------------------------------------------------------------------
(* Discord messages: how often events have happened.                       *)

\* Counting events keeps the counts natural numbers, and counts those named.
LEMMA DeliveryEvents ==
    ASSUME dUsed \in [D!Kinds -> Nat], NEW kinds \in SUBSET D!Kinds, D!Uses(kinds)
    PROVE  /\ dUsed' \in [D!Kinds -> Nat]
           /\ \A k \in kinds : dUsed'[k] > 0
           /\ \A K \in SUBSET D!Kinds : D!Never(K)' => D!Never(K)
<1>1. dUsed' = [k \in D!Kinds |-> dUsed[k] + (IF k \in kinds THEN 1 ELSE 0)]
  BY DEF D!Uses
<1>2. \A k \in D!Kinds : dUsed'[k] = dUsed[k] + (IF k \in kinds THEN 1 ELSE 0)
  BY <1>1
<1>3. dUsed' \in [D!Kinds -> Nat]
  BY <1>1
<1>4. \A k \in D!Kinds : dUsed'[k] = 0 => dUsed[k] = 0
  BY <1>2
<1>5. \A K \in SUBSET D!Kinds : D!Never(K)' => D!Never(K)
  BY <1>4 DEF D!Never
<1> QED
  BY <1>2, <1>3, <1>5

\* Every step of the component counts what happens.
LEMMA DeliveriesCount ==
    ASSUME dUsed \in [D!Kinds -> Nat], D!Next
    PROVE  /\ dUsed' \in [D!Kinds -> Nat]
           /\ \A K \in SUBSET D!Kinds : D!Never(K)' => D!Never(K)
<1>1. ASSUME UNCHANGED dUsed PROVE \A K \in SUBSET D!Kinds : D!Never(K)' => D!Never(K)
  BY <1>1 DEF D!Never
<1>2. ASSUME NEW f \in Flows, NEW s \in Subjects, D!Receive(f, s) PROVE \E kinds \in SUBSET D!Kinds : D!Uses(kinds)
  <2>1. {} \in SUBSET D!Kinds /\ {"overlap"} \in SUBSET D!Kinds
    BY DEF D!Kinds
  <2> QED
    BY <1>2, <2>1 DEF D!Receive
<1>3. ASSUME NEW f \in Flows, D!AttemptFails(f) \/ D!PostTimesOut(f) PROVE \E kinds \in SUBSET D!Kinds : D!Uses(kinds)
  BY <1>3 DEF D!AttemptFails, D!PostTimesOut, D!Kinds
<1>4. D!DeleteWebhook \/ D!Crash \/ (\E m \in channel : D!DeletedByHand(m)) => \E kinds \in SUBSET D!Kinds : D!Uses(kinds)
  BY DEF D!DeleteWebhook, D!Crash, D!DeletedByHand, D!Kinds
<1>5. ASSUME NEW f \in Flows, \/ D!Lookup(f) \/ D!Post(f) \/ D!Edit(f) \/ D!Track(f)
                              \/ D!DeleteMessage(f) \/ D!Untrack(f)
      PROVE  UNCHANGED dUsed
  BY <1>5 DEF D!Lookup, D!Post, D!Edit, D!Track, D!DeleteMessage, D!Untrack
<1> QED
  BY <1>1, <1>2, <1>3, <1>4, <1>5, DeliveryEvents DEF D!Next

-----------------------------------------------------------------------------
(* Discord messages: the strengthening.                                    *)

DeliverySteps == {"done", "lookup", "post", "edit", "track", "delete", "untrack"}
GithubEvents == {<<"none", "none">>} \cup UNION {{D!NormalizeEvent(Life[s][n]) : n \in 1..Len(Life[s])} : s \in Subjects}
DeliveryOf(count) == [pc : DeliverySteps, subject : Subjects \cup {"none"}, event : GithubEvents, ref : 0..count,
                      message : 0..count, attempt : {0, 1}]
DiscordTyped ==
    /\ lifecycle \in {"new", "update", "update_then_delete"} /\ webhook \in BOOLEAN
    /\ posted \in 0..6
    /\ \A r \in refs : r \in [id : 1..posted, subject : Subjects, message : 1..posted]
    /\ \A m \in channel : m \in [id : 1..posted, subject : Subjects, event : GithubEvents]
    /\ sent \in [Subjects -> Nat] /\ byHand \in [Subjects -> Nat]
    /\ \A s \in Subjects : sent[s] <= Len(Life[s]) /\ byHand[s] <= sent[s]
    /\ dFlow \in [Flows -> DeliveryOf(posted)]
    /\ \A f \in Flows : /\ dFlow[f].pc = "done" => dFlow[f] = D!NoFlow
                        /\ dFlow[f].pc # "done" => dFlow[f].subject \in Subjects
                        /\ dFlow[f].pc = "track" => dFlow[f].message # 0
    /\ dUsed \in [D!Kinds -> Nat]

\* While deliveries take turns: there is one, and none of a webhook that is gone.
OneDelivery ==
    /\ \A f, g \in Flows : f # g => dFlow[f] = D!NoFlow \/ dFlow[g] = D!NoFlow
    /\ ~webhook => refs = {} /\ \A f \in Flows : dFlow[f] = D!NoFlow

\* Messages and refs are known by their numbers, and a subject has one of each.
Numbered ==
    /\ \A m, o \in channel : m.id = o.id \/ m.subject = o.subject => m = o
    /\ \A r, q \in refs : r.id = q.id \/ r.subject = q.subject => r = q
    /\ \A r \in refs, m \in channel : m.id = r.message => m.subject = r.subject

\* What a delivery has found out is still so.
HasRef(f) == \E r \in refs : r.id = dFlow[f].ref /\ r.subject = dFlow[f].subject
NoRef(f) == dFlow[f].ref = 0 /\ \A r \in refs : r.subject # dFlow[f].subject
HasNoMessage(s) == \A m \in channel : m.subject # s
Found(f) ==
    /\ dFlow[f].pc = "lookup" => dFlow[f].ref = 0
    /\ dFlow[f].pc \in {"edit", "delete"} =>
         \E r \in refs : r.id = dFlow[f].ref /\ r.subject = dFlow[f].subject /\ r.message = dFlow[f].message
    /\ dFlow[f].pc = "post" => HasNoMessage(dFlow[f].subject) /\ (HasRef(f) \/ NoRef(f))
    /\ dFlow[f].pc = "track" => /\ \A m \in channel : m.subject = dFlow[f].subject <=> m.id = dFlow[f].message
                                /\ HasRef(f) \/ (NoRef(f) /\ \A r \in refs : r.id # dFlow[f].message)
    /\ dFlow[f].pc = "untrack" => HasNoMessage(dFlow[f].subject) /\ HasRef(f)

\* A message in the channel is the one the ref of its subject names, or will.
Referred == \A m \in channel :
    \/ \E r \in refs : r.subject = m.subject /\ r.message = m.id
    \/ \E f \in Flows : dFlow[f].subject = m.subject /\ dFlow[f].pc = "track" /\ dFlow[f].message = m.id
MessagesAreKnown == Numbered /\ (\A f \in Flows : Found(f)) /\ (webhook => Referred)

\* A delivery is of the last event of its subject, unless that is not subscribed to.
Current == \A f \in Flows : LET s == dFlow[f].subject IN
    dFlow[f].pc # "done" /\ D!ConfigMatches(D!Last(s)) => dFlow[f].event = D!Last(s)

\* "update_then_delete": a subject that is over has no message, or the delivery that
\* deletes it is under way.
ClosedIsGone ==
    lifecycle = "update_then_delete" /\ webhook =>
    /\ \A s \in Subjects : D!Quiet(s) /\ D!Over(s) => HasNoMessage(s)
    /\ \A f \in Flows : dFlow[f].pc \in {"post", "edit", "track"} => ~D!EndsLife(dFlow[f].event)

\* "update": the last event is shown, or its delivery is under way.
Wanted(s) == sent[s] > byHand[s] /\ D!ConfigMatches(D!Last(s))
Shown(s) == \E m \in channel : m.subject = s /\ m.event = D!Last(s)
LastIsShown ==
    lifecycle = "update" /\ webhook =>
    /\ \A s \in Subjects : D!Quiet(s) /\ Wanted(s) => Shown(s)
    /\ \A f \in Flows : dFlow[f].pc \notin {"delete", "untrack"}
    /\ \A f \in Flows : dFlow[f].pc = "track" /\ Wanted(dFlow[f].subject) => Shown(dFlow[f].subject)

Calm == lifecycle # "new" /\ D!Never({"overlap", "timeout", "failed", "crash"})
DiscordInv ==
    /\ DiscordTyped
    /\ D!Never({"overlap"}) => OneDelivery
    /\ Calm => MessagesAreKnown /\ Current /\ ClosedIsGone /\ LastIsShown

-----------------------------------------------------------------------------
(* Discord messages: every step keeps it.                                  *)

\* A step of a delivery is recorded with it.
LEMMA RecordedDelivery ==
    ASSUME NEW n, NEW d \in DeliveryOf(n), NEW pc \in DeliverySteps, NEW a \in {0, 1}
    PROVE  /\ [d EXCEPT !.pc = pc, !.attempt = a] \in DeliveryOf(n)
           /\ [d EXCEPT !.attempt = a] \in DeliveryOf(n)
BY DEF DeliveryOf

\* A delivery goes on, as the same, and no other moves.
LEMMA DeliveryGoesOn ==
    ASSUME DiscordTyped, NEW f \in Flows, NEW pc \in DeliverySteps \ {"done"}, D!Goes(f, pc)
    PROVE  /\ dFlow' \in [Flows -> DeliveryOf(posted)]
           /\ dFlow'[f].pc = pc /\ dFlow'[f].subject = dFlow[f].subject /\ dFlow'[f].event = dFlow[f].event
           /\ dFlow'[f].ref = dFlow[f].ref /\ dFlow'[f].message = dFlow[f].message
           /\ \A g \in Flows \ {f} : dFlow'[g] = dFlow[g]
<1>1. dFlow' = [dFlow EXCEPT ![f] = [dFlow[f] EXCEPT !.pc = pc, !.attempt = 0]]
  BY DEF D!Goes
<1>2. dFlow \in [Flows -> DeliveryOf(posted)] /\ dFlow[f] \in DeliveryOf(posted)
  BY DEF DiscordTyped
<1>3. [dFlow[f] EXCEPT !.pc = pc, !.attempt = 0] \in DeliveryOf(posted)
  BY <1>2, RecordedDelivery
<1>4. dFlow' \in [Flows -> DeliveryOf(posted)] /\ \A g \in Flows \ {f} : dFlow'[g] = dFlow[g]
  BY <1>1, <1>2, <1>3
<1>5. dFlow'[f] = [dFlow[f] EXCEPT !.pc = pc, !.attempt = 0]
  BY <1>1, <1>2
<1> QED
  BY <1>2, <1>4, <1>5 DEF DeliveryOf

\* Or it ends.
LEMMA DeliveryIsOver ==
    ASSUME DiscordTyped, NEW f \in Flows, D!Goes(f, "done")
    PROVE  /\ dFlow' \in [Flows -> DeliveryOf(posted)]
           /\ dFlow'[f] = D!NoFlow /\ \A g \in Flows \ {f} : dFlow'[g] = dFlow[g]
<1>1. D!NoFlow \in DeliveryOf(posted)
  BY DEF D!NoFlow, DeliveryOf, DeliverySteps, GithubEvents, DiscordTyped, D!NoMessage
<1> QED
  BY <1>1 DEF DiscordTyped, D!Goes

\* Or it is tried once more.
LEMMA DeliveryIsRetried ==
    ASSUME DiscordTyped, NEW f \in Flows, NEW pc \in DeliverySteps \ {"track"}, D!Again(f, pc),
           dFlow[f].pc \notin {"done", "track"}
    PROVE  /\ dFlow' \in [Flows -> DeliveryOf(posted)]
           /\ \A g \in Flows : /\ dFlow'[g].pc = "done" => dFlow'[g] = D!NoFlow
                               /\ dFlow'[g].pc # "done" => dFlow'[g].subject \in Subjects
                               /\ dFlow'[g].pc = "track" => dFlow'[g].message # 0
<1>1. CASE D!Goes(f, pc) /\ pc # "done"
  BY <1>1, DeliveryGoesOn DEF DiscordTyped
<1>2. CASE D!Goes(f, pc) /\ pc = "done"
  <2>1. D!NoFlow.pc = "done"
    BY DEF D!NoFlow
  <2>2. dFlow'[f] = D!NoFlow /\ (\A g \in Flows \ {f} : dFlow'[g] = dFlow[g]) /\ dFlow' \in [Flows -> DeliveryOf(posted)]
    BY <1>2, DeliveryIsOver
  <2> QED
    BY <2>1, <2>2 DEF DiscordTyped
<1>3. CASE dFlow' = [dFlow EXCEPT ![f].attempt = 1]
  <2>1. dFlow[f] \in DeliveryOf(posted)
    BY DEF DiscordTyped
  <2>2. [dFlow[f] EXCEPT !.attempt = 1] \in DeliveryOf(posted)
    BY <2>1, RecordedDelivery DEF DeliveryOf
  <2>3. /\ [dFlow[f] EXCEPT !.attempt = 1].pc = dFlow[f].pc
        /\ [dFlow[f] EXCEPT !.attempt = 1].subject = dFlow[f].subject
    BY <2>1 DEF DeliveryOf
  <2>4. dFlow' = [dFlow EXCEPT ![f] = [dFlow[f] EXCEPT !.attempt = 1]]
    BY <1>3
  <2>5. dFlow' \in [Flows -> DeliveryOf(posted)] /\ (\A g \in Flows \ {f} : dFlow'[g] = dFlow[g])
        /\ dFlow'[f] = [dFlow[f] EXCEPT !.attempt = 1]
    BY <2>2, <2>4 DEF DiscordTyped
  <2> QED
    BY <2>3, <2>5 DEF DiscordTyped
<1> QED
  BY <1>1, <1>2, <1>3 DEF D!Again

\* What one more message leaves of a delivery's type.
LEMMA DeliveriesGrow ==
    ASSUME NEW n \in Nat, NEW m \in Nat, n <= m, NEW d \in DeliveryOf(n) PROVE d \in DeliveryOf(m)
BY DEF DeliveryOf

\* A delivery that GitHub sends has an event.
LEMMA EventsAreGithubs ==
    ASSUME DiscordTyped, NEW s \in Subjects, sent[s] < Len(Life[s])
    PROVE  D!NormalizeEvent(Life[s][sent[s] + 1]) \in GithubEvents
<1>1. sent[s] + 1 \in 1..Len(Life[s])
  BY LifeAssumption DEF DiscordTyped
<1> QED
  BY <1>1 DEF GithubEvents

\* Where the deliveries stand.
DeliveriesTyped ==
    /\ dFlow \in [Flows -> DeliveryOf(posted)]
    /\ \A f \in Flows : /\ dFlow[f].pc = "done" => dFlow[f] = D!NoFlow
                        /\ dFlow[f].pc # "done" => dFlow[f].subject \in Subjects
                        /\ dFlow[f].pc = "track" => dFlow[f].message # 0

\* Every step keeps the types, of deliveries
LEMMA DeliveriesTypedPreserved ==
    ASSUME DiscordTyped, D!Next PROVE DeliveriesTyped'
<1> USE DEF DeliveriesTyped
<1>1. ASSUME UNCHANGED <<dFlow, posted>> PROVE DeliveriesTyped'
  BY <1>1 DEF DiscordTyped
<1>2. ASSUME NEW f \in Flows, NEW pc \in DeliverySteps \ {"done", "track"}, D!Goes(f, pc), UNCHANGED posted,
             dFlow[f].pc # "done"
      PROVE  DeliveriesTyped'
  BY <1>2, DeliveryGoesOn DEF DiscordTyped
<1>3. ASSUME NEW f \in Flows, D!Goes(f, "done"), UNCHANGED posted PROVE DeliveriesTyped'
  <2>1. D!NoFlow.pc = "done"
    BY DEF D!NoFlow
  <2> QED
    BY <1>3, <2>1, DeliveryIsOver DEF DiscordTyped
<1>4. ASSUME NEW f \in Flows, NEW s \in Subjects, D!Receive(f, s) PROVE DeliveriesTyped'
  <2> DEFINE evt == D!NormalizeEvent(Life[s][sent[s] + 1])
             new == [D!NoFlow EXCEPT !.pc = "lookup", !.subject = s, !.event = evt]
  <2>1. new \in DeliveryOf(posted) /\ new.pc = "lookup" /\ new.subject = s
    BY <1>4, EventsAreGithubs DEF D!Receive, D!NoFlow, D!NoMessage, DeliveryOf, DeliverySteps, DiscordTyped
  <2>2. UNCHANGED posted /\ (dFlow' = dFlow \/ dFlow' = [dFlow EXCEPT ![f] = new])
    BY <1>4 DEF D!Receive, D!discord
  <2> HIDE DEF new
  <2> QED
    BY <1>1, <2>1, <2>2 DEF DiscordTyped
<1>5. ASSUME NEW f \in Flows, D!Lookup(f) PROVE DeliveriesTyped'
  <2>1. UNCHANGED posted /\ dFlow[f].pc = "lookup"
    BY <1>5 DEF D!Lookup, D!discord
  <2>2. CASE D!Ends(f) \/ D!Goes(f, "post")
    BY <1>2, <1>3, <2>1, <2>2 DEF D!Ends, DeliverySteps
  <2>3. ASSUME NEW r \in refs, NEW pc \in {"delete", "edit"},
               dFlow' = [dFlow EXCEPT ![f].ref = r.id, ![f].message = r.message, ![f].pc = pc]
        PROVE  DeliveriesTyped'
    <3> DEFINE new == [dFlow[f] EXCEPT !.ref = r.id, !.message = r.message, !.pc = pc]
    <3>1. dFlow[f] \in DeliveryOf(posted) /\ r.id \in 0..posted /\ r.message \in 0..posted
      BY DEF DiscordTyped
    <3>2. new \in DeliveryOf(posted) /\ new.pc = pc /\ new.subject = dFlow[f].subject
      BY <3>1 DEF DeliveryOf, DeliverySteps
    <3>3. dFlow' = [dFlow EXCEPT ![f] = new]
      BY <2>3
    <3> HIDE DEF new
    <3> QED
      BY <2>1, <3>2, <3>3 DEF DiscordTyped
  <2> QED
    BY <1>5, <2>2, <2>3 DEF D!Lookup
<1>6. ASSUME NEW f \in Flows, D!AttemptFails(f) PROVE DeliveriesTyped'
  <2>1. D!GivesUp(f) \in DeliverySteps \ {"track"} /\ UNCHANGED posted
    BY <1>6 DEF D!AttemptFails, D!GivesUp, D!AfterEdit, DeliverySteps, D!discord
  <2> QED
    BY <1>6, <2>1, DeliveryIsRetried DEF D!AttemptFails
<1>7. ASSUME NEW f \in Flows, D!Post(f) PROVE DeliveriesTyped'
  <2>1. posted \in Nat /\ posted' = posted + 1 /\ dFlow[f].pc = "post" /\ dFlow[f] \in DeliveryOf(posted)
    BY <1>7 DEF D!Post, DiscordTyped
  <2>2. \A g \in Flows : dFlow[g] \in DeliveryOf(posted')
    BY <2>1, DeliveriesGrow DEF DiscordTyped
  <2>3. CASE D!Goes(f, "done")
    <3>1. dFlow'[f] = D!NoFlow /\ (\A g \in Flows \ {f} : dFlow'[g] = dFlow[g]) /\ dFlow' \in [Flows -> DeliveryOf(posted)]
      BY <2>3, DeliveryIsOver
    <3>2. D!NoFlow.pc = "done" /\ \A g \in Flows : dFlow'[g] \in DeliveryOf(posted')
      BY <2>1, <3>1, DeliveriesGrow DEF D!NoFlow
    <3> QED
      BY <3>1, <3>2 DEF DiscordTyped
  <2>4. CASE dFlow' = [dFlow EXCEPT ![f].pc = "track", ![f].message = posted + 1]
    <3>1. PICK m : m = posted + 1
      OBVIOUS
    <3> DEFINE new == [dFlow[f] EXCEPT !.pc = "track", !.message = m]
    <3>2. m \in 0..posted' /\ m # 0 /\ dFlow[f] \in DeliveryOf(posted')
      BY <2>1, <2>2, <3>1
    <3>3. new \in DeliveryOf(posted') /\ new.pc = "track" /\ new.subject = dFlow[f].subject /\ new.message = m
      BY <3>2 DEF DeliveryOf, DeliverySteps
    <3>4. dFlow' = [dFlow EXCEPT ![f] = new]
      BY <2>4, <3>1
    <3> HIDE DEF new
    <3> QED
      BY <2>1, <2>2, <3>2, <3>3, <3>4 DEF DiscordTyped
  <2> QED
    BY <1>7, <2>3, <2>4 DEF D!Post, D!Ends, D!AfterPost
<1>8. ASSUME NEW f \in Flows, D!PostTimesOut(f) PROVE DeliveriesTyped'
  <2>1. posted \in Nat /\ posted' = posted + 1 /\ dFlow[f].pc = "post"
    BY <1>8 DEF D!PostTimesOut, DiscordTyped
  <2>2. /\ dFlow' \in [Flows -> DeliveryOf(posted)]
        /\ \A g \in Flows : /\ dFlow'[g].pc = "done" => dFlow'[g] = D!NoFlow
                            /\ dFlow'[g].pc # "done" => dFlow'[g].subject \in Subjects
                            /\ dFlow'[g].pc = "track" => dFlow'[g].message # 0
    BY <1>8, <2>1, DeliveryIsRetried DEF D!PostTimesOut, DeliverySteps
  <2>3. \A g \in Flows : dFlow'[g] \in DeliveryOf(posted')
    BY <2>1, <2>2, DeliveriesGrow
  <2> QED
    BY <2>2, <2>3
<1>9. ASSUME NEW f \in Flows, D!Edit(f) PROVE DeliveriesTyped'
  <2>1. UNCHANGED posted /\ dFlow[f].pc = "edit"
    BY <1>9 DEF D!Edit
  <2>2. CASE D!InChannel(dFlow[f].message)
    <3>1. dFlow[f].message # 0
      BY <2>2 DEF D!InChannel, DiscordTyped
    <3>2. D!Goes(f, "track")
      BY <1>9, <2>2 DEF D!Edit
    <3>3. "track" \in DeliverySteps \ {"done"}
      BY DEF DeliverySteps
    <3>4. /\ dFlow' \in [Flows -> DeliveryOf(posted)]
          /\ dFlow'[f].pc = "track" /\ dFlow'[f].subject = dFlow[f].subject
          /\ dFlow'[f].message = dFlow[f].message /\ \A g \in Flows \ {f} : dFlow'[g] = dFlow[g]
      BY <3>2, <3>3, DeliveryGoesOn
    <3> QED
      BY <2>1, <3>1, <3>4 DEF DiscordTyped
  <2>3. CASE ~D!InChannel(dFlow[f].message)
    BY <1>2, <1>9, <2>1, <2>3 DEF D!Edit, D!AfterEdit, DeliverySteps
  <2> QED
    BY <2>2, <2>3
<1>10. ASSUME NEW f \in Flows, D!Track(f) \/ D!Untrack(f) PROVE DeliveriesTyped'
  BY <1>3, <1>10 DEF D!Track, D!Untrack, D!Ends, D!discord
<1>11. ASSUME NEW f \in Flows, D!DeleteMessage(f) PROVE DeliveriesTyped'
  BY <1>2, <1>11 DEF D!DeleteMessage, DeliverySteps
<1>12. CASE D!DeleteWebhook \/ \E m \in channel : D!DeletedByHand(m)
  BY <1>1, <1>12 DEF D!DeleteWebhook, D!DeletedByHand, D!discord
<1>13. CASE D!Crash
  <2>1. D!NoFlow \in DeliveryOf(posted) /\ D!NoFlow.pc = "done"
    BY DEF D!NoFlow, D!NoMessage, DeliveryOf, DeliverySteps, GithubEvents, DiscordTyped
  <2> QED
    BY <1>13, <2>1 DEF D!Crash, D!discord
<1> QED
  BY <1>4, <1>5, <1>6, <1>7, <1>8, <1>9, <1>10, <1>11, <1>12, <1>13 DEF D!Next

\* and of everything else.
LEMMA DiscordTypedPreserved ==
    ASSUME DiscordTyped, D!Next PROVE DiscordTyped'
<1>1. DeliveriesTyped' /\ dUsed' \in [D!Kinds -> Nat]
  BY DeliveriesTypedPreserved, DeliveriesCount DEF DiscordTyped
<1> USE DEF DiscordTyped
<1>2. ASSUME NEW f \in Flows, NEW s \in Subjects, D!Receive(f, s) PROVE DiscordTyped'
  <2>0. \A o \in Subjects : Len(Life[o]) \in Nat
    BY LifeAssumption
  <2>1. /\ sent' \in [Subjects -> Nat] /\ sent'[s] = sent[s] + 1 /\ sent'[s] <= Len(Life[s])
        /\ \A o \in Subjects \ {s} : sent'[o] = sent[o]
    BY <1>2, LifeAssumption DEF D!Receive
  <2>2. UNCHANGED <<lifecycle, webhook, refs, channel, posted, byHand>>
    BY <1>2 DEF D!Receive, D!config, D!discord
  <2>3. \A o \in Subjects : sent'[o] <= Len(Life[o]) /\ byHand'[o] <= sent'[o]
    <3>0. \A o \in Subjects : sent[o] \in Nat
      BY DEF DiscordTyped
    <3>1. \A o \in Subjects : sent[o] <= sent'[o]
      <4> HIDE DEF DiscordTyped
      <4> QED
        BY <2>1, <3>0
    <3>2. \A o \in Subjects : sent'[o] <= Len(Life[o])
      BY <2>1
    <3>3. \A o \in Subjects : byHand[o] <= sent[o] /\ byHand[o] \in Nat /\ sent[o] \in Nat /\ sent'[o] \in Nat /\ byHand'[o] = byHand[o]
      BY <2>1, <2>2
    <3> QED
      BY <3>1, <3>2, <3>3
  <2>4. /\ lifecycle' \in {"new", "update", "update_then_delete"} /\ webhook' \in BOOLEAN
        /\ posted' \in 0..6
    BY <2>2
  <2>5. /\ \A r \in refs' : r \in [id : 1..posted', subject : Subjects, message : 1..posted']
        /\ \A m \in channel' : m \in [id : 1..posted', subject : Subjects, event : GithubEvents]
    BY <2>2
  <2>6. byHand' \in [Subjects -> Nat]
    BY <2>2
  <2> HIDE DEF DiscordTyped
  <2> QED
    BY <1>1, <2>1, <2>3, <2>4, <2>5, <2>6 DEF DeliveriesTyped, DiscordTyped
<1>3. ASSUME NEW f \in Flows, D!Lookup(f) \/ D!AttemptFails(f) PROVE DiscordTyped'
  BY <1>1, <1>3 DEF D!Lookup, D!AttemptFails, D!config, D!discord, D!subjects, DeliveriesTyped
<1>4. ASSUME NEW f \in Flows, D!Post(f) \/ D!PostTimesOut(f) PROVE DiscordTyped'
  <2>1. /\ UNCHANGED <<lifecycle, webhook, refs, sent, byHand>> /\ posted' = posted + 1 /\ posted < 6
        /\ channel' = channel \cup {D!Message(f)} /\ dFlow[f].pc = "post"
    BY <1>4 DEF D!Post, D!PostTimesOut, D!config, D!subjects
  <2>2. dFlow[f] \in DeliveryOf(posted) /\ dFlow[f].subject \in Subjects
    BY <2>1
  <2>3. D!Message(f) \in [id : 1..posted', subject : Subjects, event : GithubEvents]
    BY <2>1, <2>2 DEF D!Message, D!S, DeliveryOf
  <2>4. \A m \in channel : m \in [id : 1..posted', subject : Subjects, event : GithubEvents]
    BY <2>1
  <2>5. \A r \in refs : r \in [id : 1..posted', subject : Subjects, message : 1..posted']
    BY <2>1
  <2> QED
    BY <1>1, <2>1, <2>3, <2>4, <2>5 DEF DeliveriesTyped
<1>5. ASSUME NEW f \in Flows, D!Edit(f) PROVE DiscordTyped'
  <2>1. UNCHANGED <<lifecycle, webhook, refs, posted, sent, byHand>>
    BY <1>5 DEF D!Edit, D!config, D!subjects
  <2>2. \A m \in channel : [m EXCEPT !.event = dFlow[f].event] \in [id : 1..posted, subject : Subjects, event : GithubEvents]
    BY DEF DeliveryOf
  <2>3. \A m \in channel' : m \in [id : 1..posted, subject : Subjects, event : GithubEvents]
    BY <1>5, <2>2 DEF D!Edit, D!Edited
  <2> QED
    BY <1>1, <2>1, <2>3 DEF DeliveriesTyped
<1>6. ASSUME NEW f \in Flows, D!Track(f) PROVE DiscordTyped'
  <2> DEFINE id == IF dFlow[f].ref = 0 THEN dFlow[f].message ELSE dFlow[f].ref
  <2>1. /\ UNCHANGED <<lifecycle, webhook, channel, posted, sent, byHand>> /\ dFlow[f].pc = "track"
        /\ refs' = {r \in refs : r.id # id} \cup {[id |-> id, subject |-> dFlow[f].subject, message |-> dFlow[f].message]}
    BY <1>6 DEF D!Track, D!config, D!discord, D!subjects, D!NoMessage, D!S
  <2>2. dFlow[f] \in DeliveryOf(posted) /\ dFlow[f].subject \in Subjects /\ dFlow[f].message # 0
    BY <2>1
  <2>3. id \in 1..posted /\ dFlow[f].message \in 1..posted
    BY <2>2 DEF DeliveryOf
  <2>4. \A r \in refs' : r \in [id : 1..posted, subject : Subjects, message : 1..posted]
    BY <2>1, <2>2, <2>3
  <2> QED
    BY <1>1, <2>1, <2>4 DEF DeliveriesTyped
<1>7. ASSUME NEW f \in Flows, D!DeleteMessage(f) \/ D!Untrack(f) PROVE DiscordTyped'
  BY <1>1, <1>7 DEF D!DeleteMessage, D!Untrack, D!config, D!discord, D!subjects, DeliveriesTyped
<1>8. CASE D!DeleteWebhook
  BY <1>1, <1>8 DEF D!DeleteWebhook, D!RefsAfterDelete, D!discord, D!subjects, DeliveriesTyped
<1>9. ASSUME NEW m \in channel, D!DeletedByHand(m) PROVE DiscordTyped'
  <2>1. UNCHANGED <<lifecycle, webhook, refs, posted, sent>> /\ channel' \subseteq channel
    BY <1>9 DEF D!DeletedByHand, D!config
  <2>2. byHand' \in [Subjects -> Nat] /\ \A s \in Subjects : byHand'[s] <= sent[s]
    BY <1>9 DEF D!DeletedByHand
  <2> QED
    BY <1>1, <2>1, <2>2 DEF DeliveriesTyped
<1>10. CASE D!Crash
  BY <1>1, <1>10 DEF D!Crash, D!config, D!discord, D!subjects, DeliveriesTyped
<1> QED
  BY <1>2, <1>3, <1>4, <1>5, <1>6, <1>7, <1>8, <1>9, <1>10 DEF D!Next


\* A delivery that takes a step is under way, and no other takes part in it.
LEMMA ActingDelivery ==
    ASSUME DiscordTyped, NEW f \in Flows,
           \/ D!Lookup(f) \/ D!AttemptFails(f) \/ D!Post(f) \/ D!PostTimesOut(f) \/ D!Edit(f)
           \/ D!Track(f) \/ D!DeleteMessage(f) \/ D!Untrack(f)
    PROVE  /\ dFlow[f].pc # "done" /\ dFlow[f] # D!NoFlow
           /\ \A g \in Flows \ {f} : dFlow'[g] = dFlow[g]
           /\ UNCHANGED <<lifecycle, webhook, sent, byHand>>
<1>1. dFlow[f].pc # "done"
  BY DEF D!Lookup, D!AttemptFails, D!Post, D!PostTimesOut, D!Edit, D!Track, D!DeleteMessage, D!Untrack
<1>2. D!NoFlow.pc = "done"
  BY DEF D!NoFlow
<1>3. UNCHANGED <<lifecycle, webhook, sent, byHand>>
  BY DEF D!Lookup, D!AttemptFails, D!Post, D!PostTimesOut, D!Edit, D!Track, D!DeleteMessage, D!Untrack,
         D!config, D!subjects
<1> SUFFICES \A g \in Flows \ {f} : dFlow'[g] = dFlow[g]
  BY <1>1, <1>2, <1>3
<1>4. ASSUME NEW pc, D!Goes(f, pc) PROVE \A g \in Flows \ {f} : dFlow'[g] = dFlow[g]
  BY <1>4 DEF D!Goes, DiscordTyped
<1>5. ASSUME NEW r, NEW v, NEW pc, dFlow' = [dFlow EXCEPT ![f].ref = r, ![f].message = v, ![f].pc = pc]
      PROVE  \A g \in Flows \ {f} : dFlow'[g] = dFlow[g]
  BY <1>5 DEF DiscordTyped
<1>6. CASE D!Lookup(f)
  <2>1. \/ D!Goes(f, "done") \/ D!Goes(f, "post")
        \/ \E r \in refs : dFlow' = [dFlow EXCEPT ![f].ref = r.id, ![f].message = r.message,
                                   ![f].pc = IF D!EndsLife(dFlow[f].event) THEN "delete" ELSE "edit"]
    BY <1>6 DEF D!Lookup, D!Ends
  <2> QED
    BY <1>4, <1>5, <2>1
<1>7. ASSUME NEW pc, D!Again(f, pc) PROVE \A g \in Flows \ {f} : dFlow'[g] = dFlow[g]
  BY <1>4, <1>7 DEF D!Again, DiscordTyped
<1>8. CASE D!Post(f)
  <2>1. CASE dFlow' = [dFlow EXCEPT ![f].pc = D!AfterPost, ![f].message = posted + 1]
    BY <2>1 DEF DiscordTyped
  <2> QED
    BY <1>4, <1>8, <2>1 DEF D!Post, D!Ends
<1>9. CASE D!AttemptFails(f) \/ D!PostTimesOut(f)
  BY <1>7, <1>9 DEF D!AttemptFails, D!PostTimesOut
<1>10. CASE D!Edit(f) \/ D!Track(f) \/ D!DeleteMessage(f) \/ D!Untrack(f)
  BY <1>4, <1>10 DEF D!Edit, D!Track, D!DeleteMessage, D!Untrack, D!Ends
<1> QED
  BY <1>6, <1>8, <1>9, <1>10

\* Deliveries keep taking turns.
LEMMA OneDeliveryPreserved ==
    ASSUME DiscordTyped, OneDelivery, D!Next, D!Never({"overlap"})'
    PROVE  OneDelivery'
<1>1. ASSUME NEW f \in Flows, \/ D!Lookup(f) \/ D!AttemptFails(f) \/ D!Post(f) \/ D!PostTimesOut(f) \/ D!Edit(f)
                              \/ D!Track(f) \/ D!DeleteMessage(f) \/ D!Untrack(f)
      PROVE  OneDelivery'
  <2>1. /\ dFlow[f] # D!NoFlow /\ webhook' = webhook
        /\ \A g \in Flows \ {f} : dFlow'[g] = dFlow[g]
    BY <1>1, ActingDelivery
  <2> QED
    BY <2>1 DEF OneDelivery
<1>2. ASSUME NEW kinds \in SUBSET D!Kinds, D!Uses(kinds) PROVE "overlap" \notin kinds
  BY <1>2, DeliveryEvents DEF D!Never, DiscordTyped
<1>3. ASSUME NEW f \in Flows, NEW s \in Subjects, D!Receive(f, s) PROVE OneDelivery'
  <2>1. UNCHANGED <<webhook, refs>> /\ webhook /\ dFlow[f] = D!NoFlow
    BY <1>3 DEF D!Receive, D!config
  <2>2. CASE UNCHANGED dFlow
    BY <2>1, <2>2 DEF OneDelivery
  <2>3. ASSUME NEW new, dFlow' = [dFlow EXCEPT ![f] = new], \A g \in Flows : dFlow[g] = D!NoFlow PROVE OneDelivery'
    BY <2>1, <2>3 DEF OneDelivery, DiscordTyped
  <2>4. {"overlap"} \in SUBSET D!Kinds
    BY DEF D!Kinds
  <2> QED
    BY <1>2, <1>3, <2>2, <2>3, <2>4 DEF D!Receive
<1>4. CASE D!DeleteWebhook
  <2>1. {"removed", "overlap"} \in SUBSET D!Kinds /\ {"removed"} \in SUBSET D!Kinds
    BY DEF D!Kinds
  <2>2. \A f \in Flows : dFlow[f] = D!NoFlow
    <3> SUFFICES ASSUME \E f \in Flows : dFlow[f] # D!NoFlow PROVE FALSE
      OBVIOUS
    <3>1. D!Uses({"removed"} \cup {"overlap"})
      BY <1>4 DEF D!DeleteWebhook
    <3>2. {"removed"} \cup {"overlap"} \in SUBSET D!Kinds
      BY <2>1
    <3> QED
      BY <1>2, <3>1, <3>2
  <2> QED
    BY <1>4, <2>2 DEF D!DeleteWebhook, D!RefsAfterDelete, OneDelivery
<1>5. CASE \E m \in channel : D!DeletedByHand(m)
  BY <1>5 DEF D!DeletedByHand, D!config, OneDelivery
<1>6. CASE D!Crash
  BY <1>6 DEF D!Crash, D!config, OneDelivery
<1> QED
  BY <1>1, <1>3, <1>4, <1>5, <1>6 DEF D!Next

-----------------------------------------------------------------------------
(* Discord messages: while deliveries take turns, the one that is under way *)
(* is all there is to look at.                                             *)

CalmInv == MessagesAreKnown /\ Current /\ ClosedIsGone /\ LastIsShown

ReferredBut(f) == \A m \in channel :
    \/ \E r \in refs : r.subject = m.subject /\ r.message = m.id
    \/ dFlow[f].subject = m.subject /\ dFlow[f].pc = "track" /\ dFlow[f].message = m.id
CurrentIs(f) ==
    dFlow[f].pc # "done" /\ D!ConfigMatches(D!Last(dFlow[f].subject)) => dFlow[f].event = D!Last(dFlow[f].subject)
ClosedBut(f) ==
    lifecycle = "update_then_delete" =>
    /\ \A s \in Subjects : s # dFlow[f].subject /\ D!Over(s) => HasNoMessage(s)
    /\ dFlow[f].pc \in {"post", "edit", "track"} => ~D!EndsLife(dFlow[f].event)
ShownBut(f) ==
    lifecycle = "update" =>
    /\ \A s \in Subjects : s # dFlow[f].subject /\ Wanted(s) => Shown(s)
    /\ dFlow[f].pc \notin {"delete", "untrack"}
    /\ dFlow[f].pc = "track" /\ Wanted(dFlow[f].subject) => Shown(dFlow[f].subject)
CalmFor(f) ==
    /\ \A g \in Flows \ {f} : dFlow[g] = D!NoFlow
    /\ Numbered /\ Found(f) /\ ReferredBut(f) /\ CurrentIs(f) /\ ClosedBut(f) /\ ShownBut(f)

\* What holds of the delivery under way
LEMMA CalmOfOne ==
    ASSUME DiscordTyped, OneDelivery, CalmInv, webhook, NEW f \in Flows, \A g \in Flows \ {f} : dFlow[g] = D!NoFlow
    PROVE  CalmFor(f)
<1>1. D!NoFlow.pc = "done" /\ D!NoFlow.subject \notin Subjects
  BY NamesAssumption DEF D!NoFlow
<1>2. \A s \in Subjects : s # dFlow[f].subject => D!Quiet(s)
  BY <1>1 DEF D!Quiet, D!S
<1>3. Numbered /\ Found(f) /\ Referred /\ CurrentIs(f)
  BY DEF CalmInv, MessagesAreKnown, Current, CurrentIs
<1>4. ReferredBut(f)
  BY <1>1, <1>3 DEF Referred, ReferredBut
<1>5. ClosedBut(f)
  BY <1>2 DEF CalmInv, ClosedIsGone, ClosedBut
<1>6. ShownBut(f)
  BY <1>2 DEF CalmInv, LastIsShown, ShownBut
<1> QED
  BY <1>3, <1>4, <1>5, <1>6 DEF CalmFor

\* holds of all, also after a step.
LEMMA CalmOfAll ==
    ASSUME DiscordTyped', NEW f \in Flows, CalmFor(f)' PROVE CalmInv'
<1>1. D!NoFlow.pc = "done" /\ D!NoFlow.subject \notin Subjects
  BY NamesAssumption DEF D!NoFlow
<1>2. \A g \in Flows \ {f} : dFlow'[g] = D!NoFlow
  BY DEF CalmFor
<1>3. \A s \in Subjects : D!Quiet(s)' => s # dFlow'[f].subject
  BY DEF D!Quiet, D!S
<1>4. MessagesAreKnown'
  <2>1. \A g \in Flows : Found(g)'
    BY <1>1, <1>2 DEF CalmFor, Found
  <2>2. Numbered' /\ Referred'
    BY DEF CalmFor, ReferredBut, Referred
  <2> QED
    BY <2>1, <2>2 DEF MessagesAreKnown
<1>5. Current'
  BY <1>1, <1>2 DEF CalmFor, CurrentIs, Current
<1>6. ClosedIsGone'
  BY <1>1, <1>2, <1>3 DEF CalmFor, ClosedBut, ClosedIsGone
<1>7. LastIsShown'
  BY <1>1, <1>2, <1>3 DEF CalmFor, ShownBut, LastIsShown
<1> QED
  BY <1>4, <1>5, <1>6, <1>7 DEF CalmInv


-----------------------------------------------------------------------------
(* Discord messages: each step of the delivery under way.                  *)

\* The steps that give a message to nobody new leave the other subjects as they are.
LEMMA SubjectsAreKept ==
    ASSUME UNCHANGED <<sent, byHand>>, NEW s \in Subjects
    PROVE  /\ D!Last(s)' = D!Last(s) /\ (D!Over(s)' <=> D!Over(s)) /\ (Wanted(s)' <=> Wanted(s))
BY DEF D!Last, D!Over, D!ConfigMatches, D!On, Wanted

LEMMA LookupKeepsCalm ==
    ASSUME DiscordTyped, NEW f \in Flows, CalmFor(f), webhook, lifecycle # "new", D!Lookup(f),
           \A g \in Flows \ {f} : dFlow'[g] = dFlow[g]
    PROVE  CalmFor(f)'
<1>1. /\ UNCHANGED <<lifecycle, webhook, refs, channel, posted, sent, byHand>>
      /\ dFlow[f].pc = "lookup" /\ dFlow[f].ref = 0 /\ dFlow[f].subject \in Subjects
  BY DEF D!Lookup, D!config, D!discord, D!subjects, CalmFor, Found, DiscordTyped
<1>2. Numbered' /\ \A g \in Flows \ {f} : dFlow'[g] = D!NoFlow
  BY <1>1 DEF CalmFor, Numbered
<1>3. \A m \in channel : \E r \in refs : r.subject = m.subject /\ r.message = m.id
  BY <1>1 DEF CalmFor, ReferredBut
<1>4. ReferredBut(f)'
  BY <1>1, <1>3 DEF ReferredBut
<1>5. /\ lifecycle = "update_then_delete" => \A s \in Subjects : s # dFlow[f].subject /\ D!Over(s) => HasNoMessage(s)
      /\ lifecycle = "update" => \A s \in Subjects : s # dFlow[f].subject /\ Wanted(s) => Shown(s)
  BY DEF CalmFor, ClosedBut, ShownBut
<1>6. \A s \in Subjects : /\ D!Over(s)' <=> D!Over(s)
                          /\ Wanted(s)' <=> Wanted(s)
                          /\ D!Last(s)' = D!Last(s)
                          /\ Shown(s)' <=> Shown(s)
                          /\ HasNoMessage(s)' <=> HasNoMessage(s)
  BY <1>1, SubjectsAreKept DEF Shown, HasNoMessage
<1> DEFINE none == \A r \in refs : r.subject # dFlow[f].subject
           ends == D!EndsLife(dFlow[f].event)
<1>7. none => HasNoMessage(dFlow[f].subject)
  BY <1>3 DEF HasNoMessage
<1>8. ends => lifecycle = "update_then_delete"
  BY DEF D!EndsLife
<1>9. CASE D!Goes(f, "done") /\ none /\ ends
  <2>1. dFlow'[f] = D!NoFlow /\ D!NoFlow.pc = "done"
    BY <1>9, DeliveryIsOver DEF D!NoFlow
  <2>2. ClosedBut(f)'
    BY <1>1, <1>5, <1>6, <1>7, <1>9, <2>1 DEF ClosedBut
  <2>3. ShownBut(f)' /\ Found(f)' /\ CurrentIs(f)'
    BY <1>1, <1>8, <1>9, <2>1 DEF ShownBut, Found, CurrentIs
  <2> QED
    BY <1>2, <1>4, <2>2, <2>3 DEF CalmFor
<1>10. CASE D!Goes(f, "post") /\ none /\ ~ends
  <2>1. /\ dFlow'[f].pc = "post" /\ dFlow'[f].subject = dFlow[f].subject /\ dFlow'[f].event = dFlow[f].event
        /\ dFlow'[f].ref = 0
    <3>1. "post" \in DeliverySteps \ {"done"}
      BY DEF DeliverySteps
    <3> QED
      BY <1>1, <1>10, <3>1, DeliveryGoesOn
  <2>2. Found(f)'
    BY <1>1, <1>7, <1>10, <2>1 DEF Found, HasNoMessage, NoRef
  <2>3. CurrentIs(f)'
    BY <1>1, <1>6, <2>1 DEF CalmFor, CurrentIs, D!ConfigMatches, D!On
  <2>4. ClosedBut(f)'
    BY <1>1, <1>5, <1>6, <1>10, <2>1 DEF ClosedBut, D!EndsLife
  <2>5. ShownBut(f)'
    BY <1>1, <1>5, <1>6, <2>1 DEF ShownBut
  <2> QED
    BY <1>2, <1>4, <2>2, <2>3, <2>4, <2>5 DEF CalmFor
<1>11. ASSUME NEW r \in refs, r.subject = dFlow[f].subject,
              dFlow' = [dFlow EXCEPT ![f].ref = r.id, ![f].message = r.message,
                                     ![f].pc = IF ends THEN "delete" ELSE "edit"]
       PROVE  CalmFor(f)'
  <2>1. dFlow'[f] = [dFlow[f] EXCEPT !.ref = r.id, !.message = r.message, !.pc = IF ends THEN "delete" ELSE "edit"]
    BY <1>11 DEF DiscordTyped
  <2>2. /\ dFlow'[f].pc = (IF ends THEN "delete" ELSE "edit") /\ dFlow'[f].subject = dFlow[f].subject
        /\ dFlow'[f].event = dFlow[f].event /\ dFlow'[f].ref = r.id /\ dFlow'[f].message = r.message
    <3>1. dFlow[f] \in DeliveryOf(posted)
      BY DEF DiscordTyped
    <3> HIDE DEF ends
    <3> QED
      BY <2>1, <3>1 DEF DeliveryOf
  <2>3. Found(f)'
    <3>1. dFlow'[f].pc \in {"edit", "delete"}
      BY <2>2
    <3>2. \E q \in refs' : q.id = dFlow'[f].ref /\ q.subject = dFlow'[f].subject /\ q.message = dFlow'[f].message
      BY <1>1, <1>11, <2>2
    <3> QED
      BY <3>1, <3>2 DEF Found
  <2>4. CurrentIs(f)'
    BY <1>1, <1>6, <2>2 DEF CalmFor, CurrentIs, D!ConfigMatches, D!On
  <2>5. ClosedBut(f)'
    BY <1>1, <1>5, <1>6, <2>2 DEF ClosedBut, D!EndsLife
  <2>6. ShownBut(f)'
    BY <1>1, <1>5, <1>6, <1>8, <2>2 DEF ShownBut
  <2> QED
    BY <1>2, <1>4, <2>3, <2>4, <2>5, <2>6 DEF CalmFor
<1>12. \/ D!Goes(f, "done") /\ none /\ ends
       \/ D!Goes(f, "post") /\ none /\ ~ends
       \/ \E r \in refs : /\ r.subject = dFlow[f].subject
                          /\ dFlow' = [dFlow EXCEPT ![f].ref = r.id, ![f].message = r.message,
                                                    ![f].pc = IF ends THEN "delete" ELSE "edit"]
  BY DEF D!Lookup, D!Ends, D!S
<1> QED
  BY <1>9, <1>10, <1>11, <1>12


LEMMA PostKeepsCalm ==
    ASSUME DiscordTyped, NEW f \in Flows, CalmFor(f), webhook, lifecycle # "new", D!Post(f),
           \A g \in Flows \ {f} : dFlow'[g] = dFlow[g]
    PROVE  CalmFor(f)'
<1> DEFINE s0 == dFlow[f].subject
           new == [id |-> posted + 1, subject |-> s0, event |-> dFlow[f].event]
<1>1. /\ UNCHANGED <<lifecycle, webhook, refs, sent, byHand>>
      /\ dFlow[f].pc = "post" /\ s0 \in Subjects
      /\ channel' = channel \cup {new}
      /\ dFlow' = [dFlow EXCEPT ![f].pc = "track", ![f].message = posted + 1]
  BY DEF D!Post, D!AfterPost, D!Message, D!S, D!config, D!subjects, DiscordTyped
<1>2. /\ dFlow'[f].pc = "track" /\ dFlow'[f].subject = s0 /\ dFlow'[f].event = dFlow[f].event
      /\ dFlow'[f].ref = dFlow[f].ref /\ dFlow'[f].message = posted + 1
  <2>1. PICK n : n = posted + 1
    OBVIOUS
  <2>2. dFlow'[f] = [dFlow[f] EXCEPT !.pc = "track", !.message = n] /\ dFlow[f] \in DeliveryOf(posted)
    BY <1>1, <2>1 DEF DiscordTyped
  <2>3. /\ dFlow'[f].pc = "track" /\ dFlow'[f].subject = s0 /\ dFlow'[f].event = dFlow[f].event
        /\ dFlow'[f].ref = dFlow[f].ref /\ dFlow'[f].message = n
    BY <2>2 DEF DeliveryOf
  <2> QED
    BY <2>1, <2>3
<1>3. /\ \A m \in channel : m.id # posted + 1 /\ m.subject # s0
      /\ \A r \in refs : r.id # posted + 1 /\ r.message # posted + 1
      /\ HasRef(f) \/ NoRef(f)
  <2>1. posted \in Nat /\ (\A m \in channel : m.id <= posted /\ m.id \in Nat)
        /\ \A r \in refs : r.id <= posted /\ r.message <= posted /\ r.id \in Nat /\ r.message \in Nat
    BY DEF DiscordTyped
  <2>2. HasNoMessage(s0) /\ (HasRef(f) \/ NoRef(f))
    BY <1>1 DEF CalmFor, Found
  <2> QED
    BY <2>1, <2>2 DEF HasNoMessage
<1>4. new.id = posted + 1 /\ new.subject = s0 /\ new.event = dFlow[f].event
  OBVIOUS
<1> HIDE DEF new
<1>5. Numbered' /\ \A g \in Flows \ {f} : dFlow'[g] = D!NoFlow
  <2>1. \A m, o \in channel' : m.id = o.id \/ m.subject = o.subject => m = o
    BY <1>1, <1>3, <1>4 DEF CalmFor, Numbered
  <2>2. \A r \in refs', m \in channel' : m.id = r.message => m.subject = r.subject
    BY <1>1, <1>3, <1>4 DEF CalmFor, Numbered
  <2>3. \A r, q \in refs' : r.id = q.id \/ r.subject = q.subject => r = q
    BY <1>1 DEF CalmFor, Numbered
  <2> QED
    BY <2>1, <2>2, <2>3 DEF CalmFor, Numbered
<1>6. Found(f)'
  <2>1. \A m \in channel' : m.subject = s0 <=> m.id = posted + 1
    BY <1>1, <1>3, <1>4
  <2>2. HasRef(f)' \/ (NoRef(f)' /\ \A r \in refs' : r.id # posted + 1)
    BY <1>1, <1>2, <1>3 DEF HasRef, NoRef
  <2> QED
    BY <1>2, <2>1, <2>2 DEF Found
<1>7. ReferredBut(f)'
  BY <1>1, <1>2, <1>4 DEF CalmFor, ReferredBut
<1>8. \A s \in Subjects : /\ D!Over(s)' <=> D!Over(s)
                          /\ Wanted(s)' <=> Wanted(s)
                          /\ D!Last(s)' = D!Last(s)
                          /\ Shown(s) => Shown(s)'
                          /\ s # s0 /\ HasNoMessage(s) => HasNoMessage(s)'
  BY <1>1, <1>4, SubjectsAreKept DEF Shown, HasNoMessage
<1>9. CurrentIs(f)'
  BY <1>1, <1>2, <1>8 DEF CalmFor, CurrentIs, D!ConfigMatches, D!On
<1>10. ClosedBut(f)'
  BY <1>1, <1>2, <1>8 DEF CalmFor, ClosedBut, D!EndsLife
<1>11. ShownBut(f)'
  <2>1. ASSUME NEW s \in Subjects, s = s0, Wanted(s) PROVE Shown(s)'
    <3>1. dFlow[f].event = D!Last(s)'
      BY <1>1, <1>8, <2>1 DEF CalmFor, CurrentIs, Wanted
    <3> QED
      BY <1>1, <1>4, <2>1, <3>1 DEF Shown
  <2> QED
    BY <1>1, <1>2, <1>8, <2>1 DEF CalmFor, ShownBut
<1> QED
  BY <1>5, <1>6, <1>7, <1>9, <1>10, <1>11 DEF CalmFor

LEMMA EditKeepsCalm ==
    ASSUME DiscordTyped, NEW f \in Flows, CalmFor(f), webhook, D!Edit(f),
           \A g \in Flows \ {f} : dFlow'[g] = dFlow[g]
    PROVE  CalmFor(f)'
<1> DEFINE s0 == dFlow[f].subject
           id == dFlow[f].message
           e == dFlow[f].event
           changed(m) == [m EXCEPT !.event = e]
<1>1. /\ UNCHANGED <<lifecycle, webhook, refs, posted, sent, byHand>>
      /\ dFlow[f].pc = "edit" /\ s0 \in Subjects
      /\ channel' = {IF m.id = id THEN changed(m) ELSE m : m \in channel}
  BY DEF D!Edit, D!Edited, D!config, D!subjects, DiscordTyped
<1>2. \A m \in channel : changed(m).id = m.id /\ changed(m).subject = m.subject /\ changed(m).event = e
  BY DEF DiscordTyped
<1> HIDE DEF changed
<1>3. PICK r \in refs : r.id = dFlow[f].ref /\ r.subject = s0 /\ r.message = id
  BY <1>1 DEF CalmFor, Found
<1>4. \A m \in channel : m.subject = s0 <=> m.id = id
  <2>1. \A m \in channel : \E q \in refs : q.subject = m.subject /\ q.message = m.id
    BY <1>1 DEF CalmFor, ReferredBut
  <2>2. \A q \in refs : q.subject = s0 => q = r
    BY <1>3 DEF CalmFor, Numbered
  <2> QED
    BY <1>3, <2>1, <2>2 DEF CalmFor, Numbered
<1>5. \A n \in channel' : \E m \in channel : /\ n.id = m.id /\ n.subject = m.subject
                                             /\ n = IF m.id = id THEN changed(m) ELSE m
  BY <1>1, <1>2
<1>6. /\ \A m, o \in channel : m.id = o.id \/ m.subject = o.subject => m = o
      /\ \A q \in refs, m \in channel : m.id = q.message => m.subject = q.subject
      /\ \A q, p \in refs : q.id = p.id \/ q.subject = p.subject => q = p
      /\ \A m \in channel : \E q \in refs : q.subject = m.subject /\ q.message = m.id
  BY <1>1 DEF CalmFor, Numbered, ReferredBut
<1>7. Numbered' /\ \A g \in Flows \ {f} : dFlow'[g] = D!NoFlow
  <2>1. \A m, o \in channel' : m.id = o.id \/ m.subject = o.subject => m = o
    BY <1>5, <1>6
  <2>2. \A q \in refs', m \in channel' : m.id = q.message => m.subject = q.subject
    BY <1>1, <1>5, <1>6
  <2> QED
    BY <1>1, <1>6, <2>1, <2>2 DEF CalmFor, Numbered
<1>8. ReferredBut(f)'
  BY <1>1, <1>5, <1>6 DEF ReferredBut
<1>9. HasRef(f)
  BY <1>3 DEF HasRef
<1>10. /\ dFlow'[f].pc = (IF D!InChannel(id) THEN "track" ELSE "post")
       /\ dFlow'[f].subject = s0 /\ dFlow'[f].event = e /\ dFlow'[f].ref = dFlow[f].ref /\ dFlow'[f].message = id
  <2>1. "track" \in DeliverySteps \ {"done"} /\ "post" \in DeliverySteps \ {"done"}
    BY DEF DeliverySteps
  <2>2. D!Goes(f, IF D!InChannel(id) THEN "track" ELSE "post")
    BY DEF D!Edit, D!AfterEdit
  <2> QED
    BY <2>1, <2>2, DeliveryGoesOn
<1>11. Found(f)'
  <2>1. HasRef(f)'
    BY <1>1, <1>9, <1>10 DEF HasRef
  <2>2. \A m \in channel' : m.subject = s0 <=> m.id = id
    BY <1>4, <1>5
  <2>3. ~D!InChannel(id) => \A m \in channel' : m.subject # s0
    BY <1>4, <1>5 DEF D!InChannel
  <2> QED
    BY <1>10, <2>1, <2>2, <2>3 DEF Found, HasNoMessage
<1>12. \A s \in Subjects : /\ D!Over(s)' <=> D!Over(s)
                           /\ Wanted(s)' <=> Wanted(s)
                           /\ D!Last(s)' = D!Last(s)
  BY <1>1, SubjectsAreKept
<1>13. \A s \in Subjects : HasNoMessage(s) => HasNoMessage(s)'
  BY <1>5 DEF HasNoMessage
<1>14. \A s \in Subjects : s # s0 /\ Shown(s) => Shown(s)'
  BY <1>1, <1>4, <1>12 DEF Shown
<1>15. CurrentIs(f)'
  BY <1>1, <1>10, <1>12 DEF CalmFor, CurrentIs, D!ConfigMatches, D!On
<1>16. ClosedBut(f)'
  BY <1>1, <1>10, <1>12, <1>13 DEF CalmFor, ClosedBut, D!EndsLife
<1>17. ShownBut(f)'
  <2>1. ASSUME NEW s \in Subjects, s = s0, Wanted(s), D!InChannel(id) PROVE Shown(s)'
    <3>1. e = D!Last(s)'
      BY <1>1, <1>12, <2>1 DEF CalmFor, CurrentIs, Wanted
    <3>2. PICK m \in channel : m.id = id
      BY <2>1 DEF D!InChannel
    <3>3. changed(m) \in channel' /\ changed(m).subject = s /\ changed(m).event = e
      BY <1>1, <1>2, <1>4, <2>1, <3>2
    <3> QED
      BY <3>1, <3>3 DEF Shown
  <2> QED
    BY <1>1, <1>10, <1>12, <1>14, <2>1 DEF CalmFor, ShownBut
<1> QED
  BY <1>7, <1>8, <1>11, <1>15, <1>16, <1>17 DEF CalmFor


LEMMA TrackKeepsCalm ==
    ASSUME DiscordTyped, NEW f \in Flows, CalmFor(f), webhook, D!Track(f),
           \A g \in Flows \ {f} : dFlow'[g] = dFlow[g]
    PROVE  CalmFor(f)'
<1> DEFINE s0 == dFlow[f].subject
           v == dFlow[f].message
           id == IF dFlow[f].ref = 0 THEN v ELSE dFlow[f].ref
           new == [id |-> id, subject |-> s0, message |-> v]
<1>1. /\ UNCHANGED <<lifecycle, webhook, channel, posted, sent, byHand>>
      /\ dFlow[f].pc = "track" /\ s0 \in Subjects
      /\ refs' = {r \in refs : r.id # id} \cup {new}
  BY DEF D!Track, D!S, D!NoMessage, D!config, D!discord, D!subjects, DiscordTyped
<1>2. dFlow'[f] = D!NoFlow /\ D!NoFlow.pc = "done" /\ D!NoFlow.subject \notin Subjects
  BY DeliveryIsOver, NamesAssumption DEF D!Track, D!Ends, D!NoFlow
<1>3. /\ \A m \in channel : m.subject = s0 <=> m.id = v
      /\ HasRef(f) \/ (NoRef(f) /\ \A r \in refs : r.id # v)
  BY <1>1 DEF CalmFor, Found
<1>4. /\ \A m, o \in channel : m.id = o.id \/ m.subject = o.subject => m = o
      /\ \A r \in refs, m \in channel : m.id = r.message => m.subject = r.subject
      /\ \A r, q \in refs : r.id = q.id \/ r.subject = q.subject => r = q
      /\ \A g \in Flows \ {f} : dFlow'[g] = D!NoFlow
  BY DEF CalmFor, Numbered
<1>5. \A r \in refs : r.id # id => r.subject # s0
  <2>1. CASE HasRef(f)
    <3>1. PICK q \in refs : q.id = dFlow[f].ref /\ q.subject = s0
      BY <2>1 DEF HasRef
    <3>2. dFlow[f].ref # 0
      BY <3>1 DEF DiscordTyped
    <3> QED
      BY <1>4, <3>1, <3>2
  <2>2. CASE NoRef(f)
    BY <2>2 DEF NoRef
  <2> QED
    BY <1>3, <2>1, <2>2
<1>6. \A r \in refs : r.id = id => r.subject = s0
  <2>1. CASE HasRef(f)
    <3>1. PICK q \in refs : q.id = dFlow[f].ref /\ q.subject = s0
      BY <2>1 DEF HasRef
    <3>2. dFlow[f].ref # 0
      BY <3>1 DEF DiscordTyped
    <3> QED
      BY <1>4, <3>1, <3>2
  <2>2. CASE NoRef(f) /\ \A r \in refs : r.id # v
    BY <2>2 DEF NoRef
  <2> QED
    BY <1>3, <2>1, <2>2
<1>7. new.id = id /\ new.subject = s0 /\ new.message = v
  OBVIOUS
<1> HIDE DEF new, id
<1>8. Numbered'
  <2>1. \A r, q \in refs' : r.id = q.id \/ r.subject = q.subject => r = q
    BY <1>1, <1>4, <1>5, <1>7
  <2>2. \A r \in refs', m \in channel' : m.id = r.message => m.subject = r.subject
    BY <1>1, <1>3, <1>4, <1>7
  <2> QED
    BY <1>1, <1>4, <2>1, <2>2 DEF Numbered
<1>9. ReferredBut(f)'
  <2>1. ASSUME NEW m \in channel PROVE \E r \in refs' : r.subject = m.subject /\ r.message = m.id
    <3>1. CASE m.subject = s0
      BY <1>1, <1>3, <1>7, <3>1
    <3>2. CASE m.subject # s0
      <4>1. PICK r \in refs : r.subject = m.subject /\ r.message = m.id
        BY <3>2 DEF CalmFor, ReferredBut
      <4> QED
        BY <1>1, <1>6, <3>2, <4>1
    <3> QED
      BY <3>1, <3>2
  <2> QED
    BY <1>1, <2>1 DEF ReferredBut
<1>10. \A s \in Subjects : /\ D!Over(s)' <=> D!Over(s)
                           /\ Wanted(s)' <=> Wanted(s)
                           /\ D!Last(s)' = D!Last(s)
                           /\ Shown(s) => Shown(s)'
                           /\ HasNoMessage(s) => HasNoMessage(s)'
  BY <1>1, SubjectsAreKept DEF Shown, HasNoMessage
<1>11. Found(f)' /\ CurrentIs(f)'
  BY <1>2 DEF Found, CurrentIs
<1>12. ClosedBut(f)'
  <2>1. lifecycle = "update_then_delete" => ~D!Over(s0)
    <3>1. lifecycle = "update_then_delete" => ~D!EndsLife(dFlow[f].event)
      BY <1>1 DEF CalmFor, ClosedBut
    <3>2. D!Over(s0) => dFlow[f].event = D!Last(s0)
      BY <1>1 DEF CalmFor, CurrentIs, D!Over
    <3> QED
      BY <3>1, <3>2 DEF D!EndsLife, D!Over
  <2>2. lifecycle = "update_then_delete" => \A s \in Subjects : D!Over(s) => HasNoMessage(s)
    BY <2>1 DEF CalmFor, ClosedBut
  <2> QED
    BY <1>1, <1>2, <1>10, <2>2 DEF ClosedBut
<1>13. ShownBut(f)'
  <2>1. lifecycle = "update" => \A s \in Subjects : Wanted(s) => Shown(s)
    BY <1>1 DEF CalmFor, ShownBut
  <2> QED
    BY <1>1, <1>2, <1>10, <2>1 DEF ShownBut
<1> QED
  BY <1>4, <1>8, <1>9, <1>11, <1>12, <1>13 DEF CalmFor

LEMMA DeleteKeepsCalm ==
    ASSUME DiscordTyped, NEW f \in Flows, CalmFor(f), webhook, D!DeleteMessage(f),
           \A g \in Flows \ {f} : dFlow'[g] = dFlow[g]
    PROVE  CalmFor(f)'
<1> DEFINE s0 == dFlow[f].subject
           id == dFlow[f].message
<1>1. /\ UNCHANGED <<lifecycle, webhook, refs, posted, sent, byHand>>
      /\ dFlow[f].pc = "delete" /\ s0 \in Subjects
      /\ channel' = {m \in channel : m.id # id}
  BY DEF D!DeleteMessage, D!config, D!subjects, DiscordTyped
<1>2. /\ dFlow'[f].pc = "untrack" /\ dFlow'[f].subject = s0 /\ dFlow'[f].event = dFlow[f].event
      /\ dFlow'[f].ref = dFlow[f].ref /\ dFlow'[f].message = id
  <2>1. "untrack" \in DeliverySteps \ {"done"}
    BY DEF DeliverySteps
  <2> QED
    BY <2>1, DeliveryGoesOn DEF D!DeleteMessage
<1>3. PICK r \in refs : r.id = dFlow[f].ref /\ r.subject = s0 /\ r.message = id
  BY <1>1 DEF CalmFor, Found
<1>4. \A m \in channel : \E q \in refs : q.subject = m.subject /\ q.message = m.id
  BY <1>1 DEF CalmFor, ReferredBut
<1>5. \A m \in channel' : m.subject # s0
  <2>1. \A q \in refs : q.subject = s0 => q = r
    BY <1>3 DEF CalmFor, Numbered
  <2> QED
    BY <1>1, <1>3, <1>4, <2>1
<1>6. Numbered' /\ \A g \in Flows \ {f} : dFlow'[g] = D!NoFlow
  BY <1>1 DEF CalmFor, Numbered
<1>7. ReferredBut(f)'
  BY <1>1, <1>4 DEF ReferredBut
<1>8. Found(f)'
  <2>1. \E q \in refs' : q.id = dFlow'[f].ref /\ q.subject = dFlow'[f].subject
    BY <1>1, <1>2, <1>3
  <2> QED
    BY <1>2, <1>5, <2>1 DEF Found, HasRef, HasNoMessage
<1>9. \A s \in Subjects : /\ D!Over(s)' <=> D!Over(s)
                          /\ D!Last(s)' = D!Last(s)
                          /\ HasNoMessage(s) => HasNoMessage(s)'
  BY <1>1, SubjectsAreKept DEF HasNoMessage
<1>10. CurrentIs(f)'
  BY <1>1, <1>2, <1>9 DEF CalmFor, CurrentIs, D!ConfigMatches, D!On
<1>11. ClosedBut(f)'
  BY <1>1, <1>2, <1>9 DEF CalmFor, ClosedBut
<1>12. ShownBut(f)'
  BY <1>1 DEF CalmFor, ShownBut
<1> QED
  BY <1>6, <1>7, <1>8, <1>10, <1>11, <1>12 DEF CalmFor

LEMMA UntrackKeepsCalm ==
    ASSUME DiscordTyped, NEW f \in Flows, CalmFor(f), webhook, D!Untrack(f),
           \A g \in Flows \ {f} : dFlow'[g] = dFlow[g]
    PROVE  CalmFor(f)'
<1> DEFINE s0 == dFlow[f].subject
<1>1. /\ UNCHANGED <<lifecycle, webhook, channel, posted, sent, byHand>>
      /\ dFlow[f].pc = "untrack" /\ s0 \in Subjects
      /\ refs' = {r \in refs : r.id # dFlow[f].ref}
  BY DEF D!Untrack, D!config, D!discord, D!subjects, DiscordTyped
<1>2. dFlow'[f] = D!NoFlow /\ D!NoFlow.pc = "done" /\ D!NoFlow.subject \notin Subjects
  BY DeliveryIsOver, NamesAssumption DEF D!Untrack, D!Ends, D!NoFlow
<1>3. HasNoMessage(s0) /\ HasRef(f)
  BY <1>1 DEF CalmFor, Found
<1>4. Numbered' /\ \A g \in Flows \ {f} : dFlow'[g] = D!NoFlow
  BY <1>1 DEF CalmFor, Numbered
<1>5. ReferredBut(f)'
  <2>1. PICK q \in refs : q.id = dFlow[f].ref /\ q.subject = s0
    BY <1>3 DEF HasRef
  <2>2. \A r \in refs : r.id = dFlow[f].ref => r.subject = s0
    BY <2>1 DEF CalmFor, Numbered
  <2>3. \A m \in channel : m.subject # s0 /\ \E r \in refs : r.subject = m.subject /\ r.message = m.id
    BY <1>1, <1>3 DEF CalmFor, ReferredBut, HasNoMessage
  <2> QED
    BY <1>1, <2>2, <2>3 DEF ReferredBut
<1>6. Found(f)' /\ CurrentIs(f)'
  BY <1>2 DEF Found, CurrentIs
<1>7. \A s \in Subjects : (D!Over(s)' <=> D!Over(s)) /\ (HasNoMessage(s) => HasNoMessage(s)')
  BY <1>1, SubjectsAreKept DEF HasNoMessage
<1>8. ClosedBut(f)'
  <2>1. lifecycle = "update_then_delete" => \A s \in Subjects : D!Over(s) => HasNoMessage(s)
    BY <1>3 DEF CalmFor, ClosedBut
  <2> QED
    BY <1>1, <1>2, <1>7, <2>1 DEF ClosedBut
<1>9. ShownBut(f)'
  BY <1>1 DEF CalmFor, ShownBut
<1> QED
  BY <1>4, <1>5, <1>6, <1>8, <1>9 DEF CalmFor


\* An event of another subject, or one that is not subscribed to, changes nothing
\* of a delivery; one that is begins a delivery when none is under way.
LEMMA ReceiveKeepsCalm ==
    ASSUME DiscordTyped, DiscordTyped', OneDelivery, CalmInv, D!Never({"overlap"})',
           NEW f \in Flows, NEW s \in Subjects, D!Receive(f, s)
    PROVE  CalmInv'
<1> DEFINE evt == D!NormalizeEvent(Life[s][sent[s] + 1])
           new == [D!NoFlow EXCEPT !.pc = "lookup", !.subject = s, !.event = evt]
<1>1. /\ UNCHANGED <<lifecycle, webhook, refs, channel, posted, byHand>> /\ webhook
      /\ sent' = [sent EXCEPT ![s] = @ + 1]
  BY DEF D!Receive, D!config, D!discord
<1>2. /\ D!Last(s)' = evt
      /\ \A o \in Subjects \ {s} : sent'[o] = sent[o]
  BY <1>1 DEF D!Last, DiscordTyped
<1>3. \A o \in Subjects \ {s} : /\ D!Last(o)' = D!Last(o) /\ (D!Over(o)' <=> D!Over(o))
                                /\ (Wanted(o)' <=> Wanted(o)) /\ (Shown(o)' <=> Shown(o))
  BY <1>1, <1>2 DEF D!Last, D!Over, D!ConfigMatches, D!On, Wanted, Shown
<1>4. \A o \in Subjects : HasNoMessage(o)' <=> HasNoMessage(o)
  BY <1>1 DEF HasNoMessage
<1>5. Numbered'
  BY <1>1 DEF CalmInv, MessagesAreKnown, Numbered
<1>6. CASE ~D!ConfigMatches(evt)
  <2>1. UNCHANGED dFlow
    BY <1>6 DEF D!Receive
  <2>2. ~D!ConfigMatches(D!Last(s))' /\ ~D!Over(s)' /\ ~Wanted(s)'
    BY <1>2, <1>6 DEF D!Over, D!ConfigMatches, D!On, Wanted
  <2>3. MessagesAreKnown'
    BY <1>1, <1>5, <2>1 DEF CalmInv, MessagesAreKnown, Found, HasRef, NoRef, HasNoMessage, Referred
  <2>4. Current'
    <3>1. ASSUME NEW g \in Flows, dFlow'[g].pc # "done" PROVE CurrentIs(g)'
      <4>1. CASE dFlow[g].subject = s
        BY <2>1, <2>2, <4>1 DEF CurrentIs, D!Last, D!ConfigMatches, D!On
      <4>2. CASE dFlow[g].subject # s
        <5>1. dFlow[g].subject \in Subjects \ {s}
          BY <2>1, <3>1, <4>2 DEF DiscordTyped
        <5>2. sent'[dFlow[g].subject] = sent[dFlow[g].subject]
          BY <1>2, <5>1
        <5> QED
          BY <2>1, <5>2 DEF CalmInv, Current, CurrentIs, D!Last, D!ConfigMatches, D!On
      <4> QED
        BY <4>1, <4>2
    <3> QED
      BY <3>1 DEF Current, CurrentIs
  <2>5. \A o \in Subjects : D!Quiet(o)' <=> D!Quiet(o)
    BY <2>1 DEF D!Quiet, D!S
  <2>6. ClosedIsGone'
    <3>1. lifecycle = "update_then_delete" => \A o \in Subjects : D!Quiet(o)' /\ D!Over(o)' => HasNoMessage(o)'
      BY <1>1, <1>3, <1>4, <2>2, <2>5 DEF CalmInv, ClosedIsGone
    <3> QED
      BY <1>1, <2>1, <3>1 DEF CalmInv, ClosedIsGone, D!EndsLife
  <2>7. LastIsShown'
    <3>1. lifecycle = "update" => \A o \in Subjects : D!Quiet(o)' /\ Wanted(o)' => Shown(o)'
      BY <1>1, <1>3, <2>2, <2>5 DEF CalmInv, LastIsShown
    <3>2. ASSUME lifecycle = "update", NEW g \in Flows, dFlow[g].pc = "track", NEW o \in Subjects,
                 o = dFlow[g].subject, Wanted(o)'
          PROVE  Shown(o)'
      BY <1>1, <1>3, <2>2, <3>2 DEF CalmInv, LastIsShown
    <3>3. \A g \in Flows : dFlow[g].pc = "track" => dFlow[g].subject \in Subjects
      BY DEF DiscordTyped
    <3> QED
      BY <1>1, <2>1, <3>1, <3>2, <3>3 DEF CalmInv, LastIsShown
  <2> QED
    BY <2>3, <2>4, <2>6, <2>7 DEF CalmInv
<1>7. CASE D!ConfigMatches(evt)
  <2>1. \A g \in Flows : dFlow[g] = D!NoFlow
    <3> SUFFICES ASSUME \E g \in Flows : dFlow[g] # D!NoFlow PROVE FALSE
      OBVIOUS
    <3>1. D!Uses({"overlap"}) /\ {"overlap"} \in SUBSET D!Kinds
      BY <1>7 DEF D!Receive, D!Kinds
    <3>2. dUsed \in [D!Kinds -> Nat]
      BY DEF DiscordTyped
    <3>3. \A k \in {"overlap"} : dUsed'[k] > 0
      BY <3>1, <3>2, DeliveryEvents
    <3> QED
      BY <3>3 DEF D!Never
  <2>2. dFlow' = [dFlow EXCEPT ![f] = new]
    BY <1>7 DEF D!Receive
  <2>3. new.pc = "lookup" /\ new.subject = s /\ new.event = evt /\ new.ref = 0
    BY DEF D!NoFlow, D!NoMessage
  <2> HIDE DEF new
  <2>4. dFlow'[f] = new /\ \A g \in Flows \ {f} : dFlow'[g] = D!NoFlow
    BY <2>1, <2>2 DEF DiscordTyped
  <2>5. CalmFor(f)
    BY <1>1, <2>1, CalmOfOne
  <2>6. D!NoFlow.pc = "done" /\ D!NoFlow.subject \notin Subjects
    BY NamesAssumption DEF D!NoFlow
  <2>7. ReferredBut(f)'
    BY <1>1, <2>1, <2>5, <2>6 DEF CalmFor, ReferredBut
  <2>8. Found(f)'
    BY <2>3, <2>4 DEF Found
  <2>9. CurrentIs(f)'
    <3>1. dFlow'[f].event = evt /\ dFlow'[f].subject = s
      BY <2>3, <2>4
    <3> QED
      BY <1>1, <3>1 DEF CurrentIs, D!Last, DiscordTyped
  <2>10. ClosedBut(f)'
    BY <1>1, <1>3, <1>4, <2>1, <2>3, <2>4, <2>5, <2>6 DEF CalmFor, ClosedBut
  <2>11. ShownBut(f)'
    BY <1>1, <1>3, <2>1, <2>3, <2>4, <2>5, <2>6 DEF CalmFor, ShownBut
  <2>12. CalmFor(f)'
    BY <1>5, <2>4, <2>7, <2>8, <2>9, <2>10, <2>11 DEF CalmFor
  <2> QED
    BY <2>12, CalmOfAll
<1> QED
  BY <1>6, <1>7

\* Nor do a webhook that goes while nothing is under way, and a message deleted by hand.
LEMMA DeleteWebhookKeepsCalm ==
    ASSUME DiscordTyped, OneDelivery', CalmInv, D!DeleteWebhook PROVE CalmInv'
<1>1. webhook' = FALSE /\ refs' = {} /\ UNCHANGED <<lifecycle, channel, posted, sent, byHand, dFlow>>
  BY DEF D!DeleteWebhook, D!RefsAfterDelete, D!discord, D!subjects
<1>2. \A f \in Flows : dFlow'[f] = D!NoFlow /\ D!NoFlow.pc = "done"
  BY <1>1 DEF OneDelivery, D!NoFlow
<1>3. Numbered'
  BY <1>1 DEF CalmInv, MessagesAreKnown, Numbered
<1>4. MessagesAreKnown'
  BY <1>1, <1>2, <1>3 DEF MessagesAreKnown, Found
<1>5. Current' /\ ClosedIsGone' /\ LastIsShown'
  BY <1>1, <1>2 DEF Current, ClosedIsGone, LastIsShown
<1> QED
  BY <1>4, <1>5 DEF CalmInv

LEMMA DeletedByHandKeepsCalm ==
    ASSUME DiscordTyped, CalmInv, NEW m \in channel, D!DeletedByHand(m) PROVE CalmInv'
<1>1. /\ channel' = channel \ {m} /\ UNCHANGED <<lifecycle, webhook, refs, posted, sent, dFlow>>
      /\ byHand' = [byHand EXCEPT ![m.subject] = sent[m.subject]]
  BY DEF D!DeletedByHand, D!config
<1>2. Numbered'
  BY <1>1 DEF CalmInv, MessagesAreKnown, Numbered
<1>3. MessagesAreKnown'
  <2>1. \A f \in Flows : Found(f)'
    BY <1>1 DEF CalmInv, MessagesAreKnown, Found, HasRef, NoRef, HasNoMessage
  <2> QED
    BY <1>1, <1>2, <2>1 DEF CalmInv, MessagesAreKnown, Referred
<1>4. Current'
  BY <1>1 DEF CalmInv, Current, D!Last, D!ConfigMatches, D!On
<1>5. \A s \in Subjects : /\ D!Over(s)' <=> D!Over(s)
                          /\ D!Quiet(s)' <=> D!Quiet(s)
                          /\ HasNoMessage(s) => HasNoMessage(s)'
  BY <1>1 DEF D!Over, D!Last, D!ConfigMatches, D!On, D!Quiet, D!S, HasNoMessage
<1>6. ClosedIsGone'
  BY <1>1, <1>5 DEF CalmInv, ClosedIsGone, D!EndsLife
<1>7. m.subject \in Subjects /\ \A s \in Subjects : sent[s] \in Nat /\ byHand[s] \in Nat
  BY DEF DiscordTyped
<1>8. \A s \in Subjects : Wanted(s)' => s # m.subject /\ Wanted(s)
  BY <1>1, <1>7 DEF Wanted, D!Last, D!ConfigMatches, D!On, DiscordTyped
<1>9. \A s \in Subjects : s # m.subject /\ Shown(s) => Shown(s)'
  BY <1>1 DEF Shown, D!Last
<1>10. LastIsShown'
  <2>1. lifecycle = "update" /\ webhook => \A s \in Subjects : D!Quiet(s)' /\ Wanted(s)' => Shown(s)'
    BY <1>5, <1>8, <1>9 DEF CalmInv, LastIsShown
  <2>2. ASSUME lifecycle = "update", webhook, NEW f \in Flows, dFlow[f].pc = "track", NEW s \in Subjects,
               s = dFlow[f].subject, Wanted(s)'
        PROVE  Shown(s)'
    BY <1>8, <1>9, <2>2 DEF CalmInv, LastIsShown
  <2>3. \A f \in Flows : dFlow[f].pc = "track" => dFlow[f].subject \in Subjects
    BY DEF DiscordTyped
  <2> QED
    BY <1>1, <2>1, <2>2, <2>3 DEF CalmInv, LastIsShown
<1> QED
  BY <1>3, <1>4, <1>6, <1>10 DEF CalmInv


\* Every step of the component keeps the strengthening,
LEMMA DiscordInvPreserved ==
    ASSUME DiscordInv, [Next]_<<part, hVars, iVars, qVars, dVars>> PROVE DiscordInv'
<1>1. CASE UNCHANGED dVars
  <2>1. UNCHANGED <<lifecycle, webhook, refs, channel, posted, sent, byHand, dFlow, dUsed>>
    BY <1>1 DEF dVars
  <2>2. DiscordTyped' /\ (D!Never({"overlap"})' => OneDelivery')
    BY <2>1 DEF DiscordInv, DiscordTyped, D!Never, OneDelivery
  <2>3. Calm' => Calm
    BY <2>1 DEF Calm, D!Never
  <2>4. MessagesAreKnown => MessagesAreKnown'
    BY <2>1 DEF MessagesAreKnown, Numbered, Found, HasRef, NoRef, HasNoMessage, Referred
  <2>5. Current => Current'
    BY <2>1 DEF Current, D!Last, D!ConfigMatches, D!On
  <2>6. ClosedIsGone => ClosedIsGone'
    BY <2>1 DEF ClosedIsGone, D!Quiet, D!S, D!Over, D!Last, D!ConfigMatches, D!On, HasNoMessage, D!EndsLife
  <2>7. LastIsShown => LastIsShown'
    BY <2>1 DEF LastIsShown, D!Quiet, D!S, Wanted, Shown, D!Last, D!ConfigMatches, D!On
  <2> QED
    BY <2>2, <2>3, <2>4, <2>5, <2>6, <2>7 DEF DiscordInv
<1>2. CASE D!Next
  <2>1. DiscordTyped /\ DiscordTyped' /\ dUsed \in [D!Kinds -> Nat]
    BY <1>2, DiscordTypedPreserved DEF DiscordInv, DiscordTyped
  <2>2. \A K \in SUBSET D!Kinds : D!Never(K)' => D!Never(K)
    BY <1>2, <2>1, DeliveriesCount
  <2>3. D!Never({"overlap"})' => D!Never({"overlap"})
    BY <2>2 DEF D!Kinds
  <2>4. D!Never({"overlap"})' => OneDelivery /\ OneDelivery'
    BY <1>2, <2>1, <2>3, OneDeliveryPreserved DEF DiscordInv
  <2>5. ASSUME Calm' PROVE CalmInv'
    <3>1. D!Never({"overlap", "timeout", "failed", "crash"})'
      BY <2>5 DEF Calm
    <3>2. D!Never({"overlap", "timeout", "failed", "crash"}) /\ D!Never({"overlap"})'
      BY <2>2, <3>1 DEF D!Kinds, D!Never
    <3>3. UNCHANGED lifecycle
      BY <1>2 DEF D!Next, D!Receive, D!Lookup, D!AttemptFails, D!Post, D!PostTimesOut, D!Edit, D!Track,
                  D!DeleteMessage, D!Untrack, D!DeleteWebhook, D!DeletedByHand, D!Crash, D!config
    <3>4. CalmInv /\ OneDelivery /\ OneDelivery' /\ lifecycle # "new"
      BY <2>4, <2>5, <3>2, <3>3 DEF DiscordInv, CalmInv, Calm
    <3>5. ASSUME NEW kinds \in SUBSET D!Kinds, D!Uses(kinds)
          PROVE  "failed" \notin kinds /\ "timeout" \notin kinds /\ "crash" \notin kinds
      BY <2>1, <3>1, <3>5, DeliveryEvents DEF D!Never
    <3>6. {"failed"} \in SUBSET D!Kinds /\ {"timeout"} \in SUBSET D!Kinds /\ {"crash"} \in SUBSET D!Kinds
      BY DEF D!Kinds
    <3>7. ~D!Crash /\ \A f \in Flows : ~D!AttemptFails(f) /\ ~D!PostTimesOut(f)
      BY <3>5, <3>6 DEF D!Crash, D!AttemptFails, D!PostTimesOut
    <3>8. ASSUME NEW f \in Flows, \/ D!Lookup(f) \/ D!Post(f) \/ D!Edit(f)
                                  \/ D!Track(f) \/ D!DeleteMessage(f) \/ D!Untrack(f)
          PROVE  CalmInv'
      <4>1. dFlow[f] # D!NoFlow /\ \A g \in Flows \ {f} : dFlow'[g] = dFlow[g]
        BY <2>1, <3>8, ActingDelivery
      <4>2. webhook /\ \A g \in Flows \ {f} : dFlow[g] = D!NoFlow
        BY <3>4, <4>1 DEF OneDelivery
      <4>3. CalmFor(f)
        BY <2>1, <3>4, <4>2, CalmOfOne
      <4>4. CalmFor(f)'
        BY <2>1, <3>4, <3>8, <4>1, <4>2, <4>3, LookupKeepsCalm, PostKeepsCalm, EditKeepsCalm, TrackKeepsCalm,
           DeleteKeepsCalm, UntrackKeepsCalm
      <4> QED
        BY <2>1, <4>4, CalmOfAll
    <3> QED
      BY <1>2, <2>1, <3>2, <3>4, <3>7, <3>8, ReceiveKeepsCalm, DeleteWebhookKeepsCalm, DeletedByHandKeepsCalm
      DEF D!Next
  <2> QED
    BY <2>1, <2>4, <2>5 DEF DiscordInv, CalmInv
<1> QED
  BY <1>1, <1>2 DEF Next

\* and it holds at the start.
LEMMA DiscordInvInitially == Init => DiscordInv
<1> SUFFICES ASSUME D!Init PROVE DiscordInv
  BY DEF Init
<1>1. /\ lifecycle \in {"new", "update", "update_then_delete"} /\ webhook = TRUE
      /\ refs = {} /\ channel = {} /\ posted = 0
      /\ sent = [s \in Subjects |-> 0] /\ byHand = [s \in Subjects |-> 0]
      /\ dFlow = [f \in Flows |-> D!NoFlow]
      /\ dUsed = [k \in D!Kinds |-> 0]
  BY DEF D!Init
<1>2. D!NoFlow \in DeliveryOf(0) /\ D!NoFlow.pc = "done"
  BY DEF D!NoFlow, D!NoMessage, DeliveryOf, DeliverySteps, GithubEvents
<1>3. DiscordTyped
  <2>1. \A s \in Subjects : sent[s] = 0 /\ byHand[s] = 0 /\ Len(Life[s]) \in Nat
    BY <1>1, LifeAssumption
  <2> QED
    BY <1>1, <1>2, <2>1 DEF DiscordTyped
<1>4. OneDelivery
  BY <1>1 DEF OneDelivery
<1>5. MessagesAreKnown
  BY <1>1, <1>2 DEF MessagesAreKnown, Numbered, Found, Referred
<1>6. Current
  BY <1>1, <1>2 DEF Current
<1>7. ClosedIsGone
  BY <1>1, <1>2 DEF ClosedIsGone, HasNoMessage
<1>8. LastIsShown
  BY <1>1, <1>2 DEF LastIsShown, Wanted
<1> QED
  BY <1>3, <1>4, <1>5, <1>6, <1>7, <1>8 DEF DiscordInv

-----------------------------------------------------------------------------
(* Discord messages: what follows.                                         *)

\* However many pull requests, issues and runs there are, whatever GitHub tells about
\* them and in whichever scenarios: while deliveries take turns and no attempt fails,
\* a subject has at most one message in the channel, none once "update_then_delete"
\* has seen its end, and in "update" one that shows its last event; and the refs go
\* with the webhook (githubNotifications.ts applyToWebhook, webhookController.ts
\* deleteWebhook).
THEOREM SubjectsHaveOneMessage == Spec => []MessagesFollowSubjects
<1>1. DiscordInv /\ [Next]_<<part, hVars, iVars, qVars, dVars>> => DiscordInv'
  BY DiscordInvPreserved
<1>2. DiscordInv => MessagesFollowSubjects
  <2> SUFFICES ASSUME DiscordInv PROVE MessagesFollowSubjects
    OBVIOUS
  <2>1. D!TypeOK
    <3>1. \A s \in Subjects : sent[s] \in 0..Len(Life[s]) /\ byHand[s] \in 0..sent[s]
      BY LifeAssumption DEF DiscordInv, DiscordTyped
    <3>2. \A f \in Flows : dFlow[f].pc \in DeliverySteps
      BY DEF DiscordInv, DiscordTyped, DeliveryOf
    <3> QED
      BY <3>1, <3>2 DEF D!TypeOK, DiscordInv, DiscordTyped, DeliverySteps
  <2>2. D!OneMessagePerSubject
    <3>1. ASSUME Calm, NEW s \in Subjects PROVE Cardinality(D!About(s)) <= 1
      <4>1. \A m, o \in D!About(s) : m = o
        BY <3>1 DEF D!About, DiscordInv, MessagesAreKnown, Numbered
      <4>2. CASE D!About(s) = {}
        BY <4>2, FS_EmptySet
      <4>3. CASE \E m : m \in D!About(s)
        <5>1. PICK m : m \in D!About(s)
          BY <4>3
        <5>2. D!About(s) = {m}
          BY <4>1, <5>1
        <5>3. Cardinality({m}) = 1
          BY FS_Singleton
        <5> QED
          BY <5>2, <5>3
      <4> QED
        BY <4>2, <4>3
    <3>2. Calm => \A s \in Subjects : Cardinality(D!About(s)) <= 1
      BY <3>1
    <3>3. lifecycle # "new" /\ D!Never({"overlap", "timeout", "failed", "crash"}) => Calm
      BY DEF Calm
    <3>4. \A S : D!Cardinality(S) = Cardinality(S)
      BY DEF D!Cardinality, Cardinality
    <3> QED
      BY <3>2, <3>3, <3>4 DEF D!OneMessagePerSubject
  <2>3. D!ClosedSubjectHasNoMessage
    BY DEF D!ClosedSubjectHasNoMessage, DiscordInv, Calm, ClosedIsGone, HasNoMessage, D!About
  <2>4. D!LastEventIsShown
    <3>1. lifecycle = "update" /\ webhook /\ Calm => \A s \in Subjects : D!Quiet(s) /\ Wanted(s) => Shown(s)
      BY DEF DiscordInv, LastIsShown
    <3>2. D!Never({"overlap", "failed", "timeout", "crash"}) => D!Never({"overlap", "timeout", "failed", "crash"})
      BY DEF D!Never
    <3> QED
      BY <3>1, <3>2 DEF D!LastEventIsShown, Calm, Wanted, Shown, D!About
  <2>5. D!RefsBelongToTheWebhook
    BY DEF D!RefsBelongToTheWebhook, DiscordInv, OneDelivery
  <2> QED
    BY <2>1, <2>2, <2>3, <2>4, <2>5 DEF MessagesFollowSubjects
<1> QED
  BY <1>1, <1>2, DiscordInvInitially, PTL DEF Spec

-----------------------------------------------------------------------------
(* Quotas: how often events have happened.                                 *)

\* Counting events keeps the counts natural numbers, and counts those named.
LEMMA QuotaEvents ==
    ASSUME qUsed \in [Q!Kinds -> Nat], NEW kinds \in SUBSET Q!Kinds, Q!Uses(kinds)
    PROVE  /\ qUsed' \in [Q!Kinds -> Nat]
           /\ \A k \in kinds : qUsed'[k] > 0
           /\ \A K \in SUBSET Q!Kinds : Q!Never(K)' => Q!Never(K)
<1>1. qUsed' = [k \in Q!Kinds |-> qUsed[k] + (IF k \in kinds THEN 1 ELSE 0)]
  BY DEF Q!Uses
<1>2. \A k \in Q!Kinds : qUsed'[k] = qUsed[k] + (IF k \in kinds THEN 1 ELSE 0)
  BY <1>1
<1>3. qUsed' \in [Q!Kinds -> Nat]
  BY <1>1
<1>4. \A k \in Q!Kinds : qUsed'[k] = 0 => qUsed[k] = 0
  BY <1>2
<1>5. \A K \in SUBSET Q!Kinds : Q!Never(K)' => Q!Never(K)
  BY <1>4 DEF Q!Never
<1> QED
  BY <1>2, <1>3, <1>5

\* Every step of the component counts what happens.
LEMMA QuotasCount ==
    ASSUME qUsed \in [Q!Kinds -> Nat], Q!Next
    PROVE  /\ qUsed' \in [Q!Kinds -> Nat]
           /\ \A K \in SUBSET Q!Kinds : Q!Never(K)' => Q!Never(K)
<1>1. ASSUME UNCHANGED qUsed
      PROVE  qUsed' \in [Q!Kinds -> Nat] /\ \A K \in SUBSET Q!Kinds : Q!Never(K)' => Q!Never(K)
  BY <1>1 DEF Q!Never
<1>2. ASSUME NEW s \in Sweeps, Q!StartSweep(s) \/ Q!ReadUsage(s, TRUE) \/ Q!ReadUsage(s, FALSE) \/ Q!UsageFails(s)
                               \/ Q!NotifyFails(s)
      PROVE  \E kinds \in SUBSET Q!Kinds : Q!Uses(kinds)
  BY <1>2 DEF Q!StartSweep, Q!ReadUsage, Q!UsageFails, Q!NotifyFails, Q!Kinds
<1>3. ASSUME NEW s \in Sweeps, Q!NoAllocation(s) \/ Q!Recovered(s) \/ Q!Notify(s) \/ Q!Store(s) \/ Q!StillOver(s)
      PROVE  UNCHANGED qUsed
  BY <1>3 DEF Q!NoAllocation, Q!Recovered, Q!Notify, Q!Store, Q!StillOver
<1>4. ASSUME \/ \E r \in Resources : Q!UsageMoves(r)
             \/ \E q \in SUBSET Resources : Q!SetProjectQuota(q)
             \/ Q!Crash
      PROVE  \E kinds \in SUBSET Q!Kinds : Q!Uses(kinds)
  BY <1>4 DEF Q!UsageMoves, Q!SetProjectQuota, Q!Changes, Q!Crash, Q!Kinds
<1> QED
  BY <1>1, <1>2, <1>3, <1>4, QuotaEvents DEF Q!Next

-----------------------------------------------------------------------------
(* Quotas: the sweeps.                                                     *)

SweepOf == [pc : {"idle", "usage", "decide", "store"}, quota : SUBSET Resources, breaches : SUBSET Resources]
QuotasTyped == Q!TypeOK /\ sweep \in [Sweeps -> SweepOf]

OtherSweeps(s) == \A r \in Sweeps \ {s} : sweep'[r] = sweep[r]
Stands(s, now_s) == sweep' \in [Sweeps -> SweepOf] /\ sweep'[s] = now_s /\ OtherSweeps(s)

\* A sweep that has read the usage.
LEMMA SweepDecides ==
    ASSUME NEW w \in SweepOf, NEW b
    PROVE  [w EXCEPT !.pc = "decide", !.breaches = b] = [pc |-> "decide", quota |-> w.quota, breaches |-> b]
<1>1. PICK x : x = [w EXCEPT !.pc = "decide"]
  OBVIOUS
<1>2. x = [pc |-> "decide", quota |-> w.quota, breaches |-> w.breaches]
  BY <1>1 DEF SweepOf
<1>3. [x EXCEPT !.breaches = b] = [pc |-> "decide", quota |-> w.quota, breaches |-> b]
  BY <1>2
<1> QED
  BY <1>1, <1>3

\* Each step of a sweep, by where the sweep then stands.
LEMMA SweepSteps ==
    ASSUME QuotasTyped, NEW s \in Sweeps
    PROVE  /\ Q!StartSweep(s) => Stands(s, [pc |-> "usage", quota |-> quota, breaches |-> {}])
           /\ \A gap \in BOOLEAN : Q!ReadUsage(s, gap) =>
                Stands(s, [pc |-> "decide", quota |-> sweep[s].quota,
                           breaches |-> IF gap THEN {} ELSE over \cap sweep[s].quota])
           /\ Q!Notify(s) \/ Q!NotifyFails(s) =>
                Stands(s, [pc |-> "store", quota |-> sweep[s].quota, breaches |-> sweep[s].breaches])
           /\ Q!NoAllocation(s) \/ Q!UsageFails(s) \/ Q!Recovered(s) \/ Q!Store(s) \/ Q!StillOver(s) =>
                Stands(s, Q!Idle)
<1> DEFINE w == sweep[s]
<1>1. w \in SweepOf /\ w.quota \in SUBSET Resources /\ w.breaches \in SUBSET Resources /\ quota \in SUBSET Resources
  BY DEF QuotasTyped, Q!TypeOK, SweepOf
<1>2. sweep \in [Sweeps -> SweepOf]
  BY DEF QuotasTyped
<1>3. ASSUME NEW new \in SweepOf, sweep' = [sweep EXCEPT ![s] = new] PROVE Stands(s, new)
  BY <1>2, <1>3 DEF Stands, OtherSweeps
<1>4. Q!Idle \in SweepOf
  BY DEF Q!Idle, SweepOf
<1>5. Q!StartSweep(s) => Stands(s, [pc |-> "usage", quota |-> quota, breaches |-> {}])
  <2>1. [pc |-> "usage", quota |-> quota, breaches |-> {}] \in SweepOf
    BY <1>1 DEF SweepOf
  <2> QED
    BY <1>3, <2>1 DEF Q!StartSweep
<1>6. ASSUME NEW gap \in BOOLEAN, Q!ReadUsage(s, gap)
      PROVE  Stands(s, [pc |-> "decide", quota |-> sweep[s].quota,
                        breaches |-> IF gap THEN {} ELSE over \cap sweep[s].quota])
  <2> DEFINE breaches == IF gap THEN {} ELSE over \cap sweep[s].quota
             new == [pc |-> "decide", quota |-> w.quota, breaches |-> breaches]
  <2>1. sweep' = [sweep EXCEPT ![s].pc = "decide", ![s].breaches = breaches]
    BY <1>6 DEF Q!ReadUsage
  <2>2. breaches \in SUBSET Resources
    BY <1>1
  <2> HIDE DEF breaches
  <2>3. new \in SweepOf
    BY <1>1, <2>2 DEF SweepOf
  <2>4. sweep' = [sweep EXCEPT ![s] = new]
    <3>1. sweep' = [sweep EXCEPT ![s] = [w EXCEPT !.pc = "decide", !.breaches = breaches]]
      BY <1>2, <2>1
    <3>2. [w EXCEPT !.pc = "decide", !.breaches = breaches] = new
      BY <1>1, SweepDecides
    <3> QED
      BY <3>1, <3>2
  <2>5. Stands(s, new)
    BY <1>3, <2>3, <2>4
  <2> QED
    BY <2>5 DEF breaches
<1>7. ASSUME Q!Notify(s) \/ Q!NotifyFails(s)
      PROVE  Stands(s, [pc |-> "store", quota |-> sweep[s].quota, breaches |-> sweep[s].breaches])
  <2> DEFINE new == [pc |-> "store", quota |-> w.quota, breaches |-> w.breaches]
  <2>1. new \in SweepOf
    BY <1>1 DEF SweepOf
  <2>2. sweep' = [sweep EXCEPT ![s].pc = "store"]
    BY <1>7 DEF Q!Notify, Q!NotifyFails, Q!Goes
  <2>3. sweep' = [sweep EXCEPT ![s] = new]
    <3>1. sweep' = [sweep EXCEPT ![s] = [w EXCEPT !.pc = "store"]]
      BY <2>2
    <3>2. [w EXCEPT !.pc = "store"] = new
      BY <1>1 DEF SweepOf
    <3> QED
      BY <3>1, <3>2
  <2> QED
    BY <1>3, <2>1, <2>3
<1>8. Q!NoAllocation(s) \/ Q!UsageFails(s) \/ Q!Recovered(s) \/ Q!Store(s) \/ Q!StillOver(s) => Stands(s, Q!Idle)
  BY <1>3, <1>4 DEF Q!NoAllocation, Q!UsageFails, Q!Recovered, Q!Store, Q!StillOver, Q!Ends
<1> QED
  BY <1>5, <1>6, <1>7, <1>8

\* Every step keeps the types.
LEMMA QuotasTypedPreserved ==
    ASSUME QuotasTyped, Q!Next PROVE QuotasTyped'
<1>1. qUsed' \in [Q!Kinds -> Nat]
  BY QuotasCount DEF QuotasTyped, Q!TypeOK
<1>2. /\ qNow \in 0..QuotaTime /\ over \subseteq Resources /\ quota \subseteq Resources
      /\ state \in [resources : SUBSET Resources, lastNotifiedAt : (-Cooldown)..QuotaTime]
      /\ notified \in [at : (-Cooldown)..QuotaTime, of : SUBSET Resources]
      /\ seen \subseteq Resources /\ steady \in BOOLEAN /\ sweep \in [Sweeps -> SweepOf]
  BY DEF QuotasTyped, Q!TypeOK
<1>3. ASSUME sweep' \in [Sweeps -> SweepOf], qNow' \in 0..QuotaTime, over' \subseteq Resources, quota' \subseteq Resources,
             state' \in [resources : SUBSET Resources, lastNotifiedAt : (-Cooldown)..QuotaTime],
             notified' \in [at : (-Cooldown)..QuotaTime, of : SUBSET Resources], seen' \subseteq Resources, steady' \in BOOLEAN
      PROVE  QuotasTyped'
  BY <1>1, <1>3 DEF QuotasTyped, Q!TypeOK, SweepOf
<1>4. Q!NoState \in [resources : SUBSET Resources, lastNotifiedAt : (-Cooldown)..QuotaTime]
  BY CooldownAssumption DEF Q!NoState
<1>5. ASSUME NEW s \in Sweeps,
             \/ Q!StartSweep(s) \/ Q!ReadUsage(s, TRUE) \/ Q!ReadUsage(s, FALSE) \/ Q!UsageFails(s)
             \/ Q!NoAllocation(s) \/ Q!Recovered(s)
      PROVE  QuotasTyped'
  <2>1. sweep' \in [Sweeps -> SweepOf]
    BY <1>5, SweepSteps DEF Stands
  <2>2. CASE Q!StartSweep(s)
    <3>1. qNow' \in 0..QuotaTime /\ UNCHANGED <<over, quota, state, notified, seen, steady>>
      BY <1>2, <2>2, CooldownAssumption DEF Q!StartSweep, Q!history
    <3> QED
      BY <1>2, <1>3, <2>1, <3>1
  <2>3. CASE Q!ReadUsage(s, TRUE) \/ Q!ReadUsage(s, FALSE) \/ Q!UsageFails(s)
    BY <1>2, <1>3, <2>1, <2>3 DEF Q!ReadUsage, Q!UsageFails, Q!environment, Q!history
  <2>4. CASE Q!NoAllocation(s) \/ Q!Recovered(s)
    BY <1>2, <1>3, <1>4, <2>1, <2>4 DEF Q!NoAllocation, Q!Recovered, Q!environment
  <2> QED
    BY <1>5, <2>2, <2>3, <2>4
<1>6. ASSUME NEW s \in Sweeps, Q!Notify(s) \/ Q!NotifyFails(s) \/ Q!Store(s) \/ Q!StillOver(s) PROVE QuotasTyped'
  <2>1. sweep' \in [Sweeps -> SweepOf] /\ sweep[s].breaches \in SUBSET Resources
    BY <1>2, <1>6, SweepSteps DEF Stands, SweepOf
  <2>2. UNCHANGED <<qNow, over, quota>> /\ qNow \in (-Cooldown)..QuotaTime
    BY <1>2, <1>6, CooldownAssumption DEF Q!Notify, Q!NotifyFails, Q!Store, Q!StillOver, Q!environment
  <2>3. CASE Q!Notify(s)
    <3>1. notified' \in [at : (-Cooldown)..QuotaTime, of : SUBSET Resources] /\ seen' \subseteq Resources /\ steady' \in BOOLEAN
      BY <2>1, <2>2, <2>3 DEF Q!Notify
    <3> QED
      BY <1>2, <1>3, <2>1, <2>2, <2>3, <3>1 DEF Q!Notify
  <2>4. CASE Q!Store(s)
    BY <1>2, <1>3, <2>1, <2>2, <2>4 DEF Q!Store, Q!history
  <2>5. CASE Q!StillOver(s)
    <3>1. state' = [resources |-> sweep[s].breaches, lastNotifiedAt |-> state.lastNotifiedAt]
      BY <2>5 DEF Q!StillOver, Q!Kept
    <3>2. seen' \subseteq Resources /\ UNCHANGED <<notified, steady>>
      BY <1>2, <2>5 DEF Q!StillOver
    <3> QED
      BY <1>2, <1>3, <2>1, <2>2, <3>1, <3>2
  <2>6. CASE Q!NotifyFails(s)
    BY <1>2, <1>3, <2>1, <2>2, <2>6 DEF Q!NotifyFails
  <2> QED
    BY <1>6, <2>3, <2>4, <2>5, <2>6
<1>7. ASSUME NEW r \in Resources, Q!UsageMoves(r) PROVE QuotasTyped'
  BY <1>2, <1>3, <1>7 DEF Q!UsageMoves, Q!Changes
<1>8. ASSUME NEW q \in SUBSET Resources, Q!SetProjectQuota(q) PROVE QuotasTyped'
  BY <1>2, <1>3, <1>8 DEF Q!SetProjectQuota, Q!Changes
<1>9. CASE Q!Crash
  BY <1>2, <1>3, <1>9 DEF Q!Crash, Q!environment, Q!history, Q!Idle, SweepOf
<1> QED
  BY <1>5, <1>6, <1>7, <1>8, <1>9 DEF Q!Next

\* In particular:
LEMMA WhereItStands ==
    ASSUME QuotasTyped, NEW s \in Sweeps
    PROVE  /\ Q!StartSweep(s) => sweep'[s].pc = "usage" /\ sweep'[s].quota = quota
           /\ Q!ReadUsage(s, FALSE) => sweep'[s].pc = "decide" /\ sweep'[s].breaches = over \cap sweep[s].quota
           /\ Q!ReadUsage(s, TRUE) => sweep'[s].pc = "decide"
           /\ Q!Notify(s) \/ Q!NotifyFails(s) => sweep'[s].pc = "store" /\ sweep'[s].breaches = sweep[s].breaches
           /\ Q!NoAllocation(s) \/ Q!UsageFails(s) \/ Q!Recovered(s) \/ Q!Store(s) \/ Q!StillOver(s) =>
                sweep'[s].pc = "idle"
<1>1. Q!StartSweep(s) => sweep'[s] = [pc |-> "usage", quota |-> quota, breaches |-> {}]
  BY SweepSteps DEF Stands
<1>2. Q!ReadUsage(s, FALSE) =>
        sweep'[s] = [pc |-> "decide", quota |-> sweep[s].quota, breaches |-> over \cap sweep[s].quota]
  <2>1. Q!ReadUsage(s, FALSE) => Stands(s, [pc |-> "decide", quota |-> sweep[s].quota,
                                            breaches |-> IF FALSE THEN {} ELSE over \cap sweep[s].quota])
    BY SweepSteps
  <2> QED
    BY <2>1 DEF Stands
<1>3. Q!ReadUsage(s, TRUE) => sweep'[s] = [pc |-> "decide", quota |-> sweep[s].quota, breaches |-> {}]
  <2>1. Q!ReadUsage(s, TRUE) => Stands(s, [pc |-> "decide", quota |-> sweep[s].quota,
                                           breaches |-> IF TRUE THEN {} ELSE over \cap sweep[s].quota])
    BY SweepSteps
  <2> QED
    BY <2>1 DEF Stands
<1>4. Q!Notify(s) \/ Q!NotifyFails(s) => sweep'[s] = [pc |-> "store", quota |-> sweep[s].quota, breaches |-> sweep[s].breaches]
  BY SweepSteps DEF Stands
<1>5. Q!NoAllocation(s) \/ Q!UsageFails(s) \/ Q!Recovered(s) \/ Q!Store(s) \/ Q!StillOver(s) => sweep'[s] = Q!Idle
  BY SweepSteps DEF Stands
<1>6. Q!StartSweep(s) => sweep'[s].pc = "usage" /\ sweep'[s].quota = quota
  BY <1>1
<1>7. Q!ReadUsage(s, FALSE) => sweep'[s].pc = "decide" /\ sweep'[s].breaches = over \cap sweep[s].quota
  BY <1>2
<1>8. Q!ReadUsage(s, TRUE) => sweep'[s].pc = "decide"
  BY <1>3
<1>9. Q!Notify(s) \/ Q!NotifyFails(s) => sweep'[s].pc = "store" /\ sweep'[s].breaches = sweep[s].breaches
  BY <1>4
<1>10. Q!Idle.pc = "idle"
  BY DEF Q!Idle
<1> QED
  BY <1>5, <1>6, <1>7, <1>8, <1>9, <1>10

-----------------------------------------------------------------------------
(* Quotas: the strengthening.                                              *)

\* While sweeps do not overlap there is one at a time.
OneSweep == \A s, r \in Sweeps : s # r => sweep[s] = Q!Idle \/ sweep[r] = Q!Idle

\* While none is cut short or reaches nobody either, what is about to be stored has been
\* told just now, and what is stored was told.
Storing == \E s \in Sweeps : sweep[s].pc = "store"
ToldJustNow == \A s \in Sweeps : sweep[s].pc = "store" => notified.at = qNow /\ sweep[s].breaches = seen
Told == ToldJustNow /\ (~Storing /\ state # Q!NoState => Q!ToldIsStored)

\* While the metrics have no gap either, a steady project is known as it is: to each sweep,
\* to the state, and to the owners.
KnownAsItIs ==
    /\ notified.of = over \cap quota /\ notified.of # {}
    /\ \A s \in Sweeps :
         /\ sweep[s].pc = "usage" => sweep[s].quota = quota
         /\ sweep[s].pc \in {"decide", "store"} => sweep[s].breaches = notified.of
         /\ sweep[s].pc = "store" => notified.at = qNow
    /\ ~Storing => state = [resources |-> notified.of, lastNotifiedAt |-> notified.at]

\* And while the metrics can be queried it is told again in time.
InTime == qNow - notified.at <= Cooldown /\ (~Q!Busy => qNow - notified.at < Cooldown)

QuotasInv ==
    /\ QuotasTyped
    /\ Q!Never({"overlap"}) => OneSweep
    /\ Q!Never({"overlap", "crash", "unsent"}) => Told
    /\ Q!Never({"overlap", "crash", "gap"}) /\ steady => KnownAsItIs
    /\ Q!Never({"overlap", "crash", "gap", "fail"}) /\ steady => InTime

\* One sweep at a time stays so:
SweepStep(s) ==
    \/ Q!StartSweep(s) \/ Q!NoAllocation(s) \/ Q!UsageFails(s) \/ Q!ReadUsage(s, TRUE) \/ Q!ReadUsage(s, FALSE)
    \/ Q!Recovered(s) \/ Q!Notify(s) \/ Q!NotifyFails(s) \/ Q!Store(s) \/ Q!StillOver(s)

\* the others are idle whenever one moves,
LEMMA OthersAreIdle ==
    ASSUME QuotasTyped, OneSweep, qUsed'["overlap"] = 0, NEW s \in Sweeps, SweepStep(s)
    PROVE  /\ \A r \in Sweeps : r # s => sweep[r] = Q!Idle /\ sweep'[r] = Q!Idle
           /\ Q!StartSweep(s) => ~Q!Busy
<1>1. ASSUME Q!StartSweep(s) PROVE ~Q!Busy
  <2>1. {"overlap"} \in SUBSET Q!Kinds
    BY DEF Q!Kinds
  <2>2. Q!Busy => Q!Uses({"overlap"})
    BY <1>1 DEF Q!StartSweep
  <2> QED
    BY <2>1, <2>2, QuotaEvents DEF QuotasTyped, Q!TypeOK
<1>2. ASSUME ~Q!StartSweep(s) PROVE sweep[s].pc # "idle"
  BY <1>2 DEF SweepStep, Q!NoAllocation, Q!UsageFails, Q!ReadUsage, Q!Recovered, Q!Notify, Q!NotifyFails, Q!IsNews,
              Q!Store, Q!StillOver
<1>3. \A r \in Sweeps : r # s => sweep[r] = Q!Idle
  BY <1>1, <1>2 DEF OneSweep, Q!Busy, Q!Idle
<1>4. OtherSweeps(s)
  BY SweepSteps DEF SweepStep, Stands
<1> QED
  BY <1>1, <1>3, <1>4 DEF OtherSweeps

\* and no step makes a second one move.
LEMMA OneSweepPreserved ==
    ASSUME QuotasTyped, OneSweep, qUsed'["overlap"] = 0, Q!Next PROVE OneSweep'
<1>1. ASSUME NEW s \in Sweeps, SweepStep(s) PROVE OneSweep'
  BY <1>1, OthersAreIdle DEF OneSweep
<1>2. CASE (\E r \in Resources : Q!UsageMoves(r)) \/ (\E q \in SUBSET Resources : Q!SetProjectQuota(q))
  BY <1>2 DEF Q!UsageMoves, Q!SetProjectQuota, Q!Changes, OneSweep
<1>3. CASE Q!Crash
  BY <1>3 DEF Q!Crash, OneSweep
<1> QED
  BY <1>1, <1>2, <1>3 DEF Q!Next, SweepStep

\* What happens to the usage or the limits, and to the state by it: nothing.
LEMMA SurroundingsMove ==
    ASSUME (\E r \in Resources : Q!UsageMoves(r)) \/ (\E q \in SUBSET Resources : Q!SetProjectQuota(q))
    PROVE  steady' = FALSE /\ UNCHANGED <<qNow, state, sweep, notified, seen>>
BY DEF Q!UsageMoves, Q!SetProjectQuota, Q!Changes

\* A notification that reaches nobody is counted, and leaves no project steady.
LEMMA UnsentCounts ==
    ASSUME QuotasTyped, NEW s \in Sweeps, Q!NotifyFails(s) PROVE qUsed'["unsent"] > 0 /\ steady' = FALSE
<1>1. {"unsent"} \in SUBSET Q!Kinds
  BY DEF Q!Kinds
<1> QED
  BY <1>1, QuotaEvents DEF Q!NotifyFails, QuotasTyped, Q!TypeOK

\* A restart is counted.
LEMMA CrashCounts ==
    ASSUME QuotasTyped, Q!Crash PROVE qUsed'["crash"] > 0
<1>1. {"crash"} \in SUBSET Q!Kinds
  BY DEF Q!Kinds
<1> QED
  BY <1>1, QuotaEvents DEF Q!Crash, QuotasTyped, Q!TypeOK

\* So what is stored was told,
LEMMA ToldPreserved ==
    ASSUME QuotasTyped, OneSweep, Told, qUsed'["overlap"] = 0, qUsed'["crash"] = 0, qUsed'["unsent"] = 0, Q!Next
    PROVE  Told'
<1>1. ASSUME NEW s \in Sweeps, SweepStep(s) PROVE Told'
  <2>1. /\ \A r \in Sweeps : r # s => sweep[r].pc = "idle" /\ sweep'[r].pc = "idle"
        /\ Q!StartSweep(s) => sweep[s].pc # "store"
    BY <1>1, OthersAreIdle DEF Q!Idle, Q!StartSweep
  <2>2. CASE Q!StartSweep(s) \/ Q!ReadUsage(s, TRUE) \/ Q!ReadUsage(s, FALSE) \/ Q!UsageFails(s)
    <3>1. UNCHANGED <<state, notified, seen>> /\ sweep[s].pc # "store"
      BY <2>1, <2>2 DEF Q!StartSweep, Q!ReadUsage, Q!UsageFails, Q!history
    <3>2. sweep'[s].pc # "store"
      BY <2>2, WhereItStands
    <3> QED
      BY <2>1, <3>1, <3>2 DEF Told, ToldJustNow, Storing, Q!ToldIsStored
  <2>3. CASE Q!NoAllocation(s) \/ Q!Recovered(s)
    <3>1. state' = Q!NoState
      BY <2>3 DEF Q!NoAllocation, Q!Recovered
    <3>2. sweep'[s].pc # "store"
      BY <2>3, WhereItStands
    <3>3. Q!NoState' = Q!NoState
      BY DEF Q!NoState
    <3> QED
      BY <2>1, <3>1, <3>2, <3>3 DEF Told, ToldJustNow, Storing
  <2>4. CASE Q!Notify(s)
    <3>1. notified' = [at |-> qNow, of |-> sweep[s].breaches] /\ seen' = sweep[s].breaches /\ UNCHANGED qNow
      BY <2>4 DEF Q!Notify, Q!environment
    <3>2. sweep'[s].pc = "store" /\ sweep'[s].breaches = sweep[s].breaches
      BY <2>4, WhereItStands
    <3> QED
      BY <2>1, <3>1, <3>2 DEF Told, ToldJustNow, Storing
  <2>5. CASE Q!Store(s)
    <3>1. /\ state' = [resources |-> sweep[s].breaches, lastNotifiedAt |-> qNow]
          /\ UNCHANGED <<notified, seen>> /\ sweep[s].pc = "store" /\ qNow \in Int
      BY <2>5 DEF Q!Store, Q!history, QuotasTyped, Q!TypeOK
    <3>2. sweep'[s].pc # "store"
      BY <2>5, WhereItStands
    <3>3. notified.at = qNow /\ sweep[s].breaches = seen
      BY <3>1 DEF Told, ToldJustNow
    <3>4. Q!ToldIsStored'
      BY <3>1, <3>3 DEF Q!ToldIsStored
    <3> QED
      BY <2>1, <3>2, <3>4 DEF Told, ToldJustNow, Storing
  <2>6. CASE Q!StillOver(s)
    <3>1. /\ state' = [resources |-> sweep[s].breaches, lastNotifiedAt |-> state.lastNotifiedAt]
          /\ seen' = seen \cap sweep[s].breaches /\ UNCHANGED notified
          /\ sweep[s].breaches \subseteq state.resources /\ sweep[s].breaches # {} /\ sweep[s].pc = "decide"
      BY <2>6 DEF Q!StillOver, Q!Kept, Q!NewBreach
    <3>2. sweep'[s].pc # "store" /\ ~Storing
      BY <2>1, <2>6, <3>1, WhereItStands DEF Storing
    <3>3. state # Q!NoState
      BY <3>1 DEF Q!NoState
    <3>4. Q!ToldIsStored'
      BY <3>1, <3>2, <3>3 DEF Told, Q!ToldIsStored
    <3> QED
      BY <2>1, <3>2, <3>4 DEF Told, ToldJustNow, Storing
  <2>7. ~Q!NotifyFails(s)
    BY UnsentCounts
  <2> QED
    BY <1>1, <2>2, <2>3, <2>4, <2>5, <2>6, <2>7 DEF SweepStep
<1>2. CASE (\E r \in Resources : Q!UsageMoves(r)) \/ (\E q \in SUBSET Resources : Q!SetProjectQuota(q))
  BY <1>2, SurroundingsMove DEF Told, ToldJustNow, Storing, Q!ToldIsStored
<1>3. CASE Q!Crash
  BY <1>3, CrashCounts
<1> QED
  BY <1>1, <1>2, <1>3 DEF Q!Next, SweepStep

\* a steady project is known as it is,
LEMMA KnownPreserved ==
    ASSUME QuotasTyped, OneSweep, steady => KnownAsItIs, steady',
           qUsed'["overlap"] = 0, qUsed'["crash"] = 0, qUsed'["gap"] = 0, Q!Next
    PROVE  KnownAsItIs'
<1>1. ASSUME NEW s \in Sweeps, SweepStep(s) PROVE KnownAsItIs'
  <2>1. /\ \A r \in Sweeps : r # s => sweep[r].pc = "idle" /\ sweep'[r].pc = "idle"
        /\ Q!StartSweep(s) => sweep[s].pc # "store"
    BY <1>1, OthersAreIdle DEF Q!Idle, Q!StartSweep
  <2>2. CASE Q!Notify(s)
    <3>1. /\ notified' = [at |-> qNow, of |-> sweep[s].breaches] /\ UNCHANGED <<qNow, over, quota>>
          /\ steady' = (sweep[s].breaches = over \cap quota) /\ sweep[s].breaches # {}
      BY <2>2 DEF Q!Notify, Q!IsNews, Q!environment
    <3>2. sweep'[s].pc = "store" /\ sweep'[s].breaches = sweep[s].breaches
      BY <2>2, WhereItStands
    <3> QED
      BY <2>1, <3>1, <3>2 DEF KnownAsItIs, Storing
  <2>10. ~Q!NotifyFails(s)
    BY UnsentCounts
  <2>3. ASSUME ~Q!Notify(s) PROVE KnownAsItIs /\ UNCHANGED <<over, quota, notified>>
    BY <1>1, <2>3, <2>10 DEF SweepStep, Q!StartSweep, Q!NoAllocation, Q!UsageFails, Q!ReadUsage, Q!Recovered, Q!Store,
                      Q!StillOver, Q!environment, Q!history
  <2>4. CASE Q!StartSweep(s)
    <3>1. UNCHANGED <<over, quota, notified, state>> /\ KnownAsItIs
      BY <2>4 DEF Q!StartSweep, Q!history
    <3>2. sweep'[s].pc = "usage" /\ sweep'[s].quota = quota
      BY <2>4, WhereItStands
    <3> QED
      BY <2>1, <2>4, <3>1, <3>2 DEF KnownAsItIs, Storing
  <2>5. CASE Q!ReadUsage(s, TRUE) \/ Q!ReadUsage(s, FALSE)
    <3>1. ~Q!ReadUsage(s, TRUE)
      <4>1. {"gap"} \in SUBSET Q!Kinds
        BY DEF Q!Kinds
      <4> QED
        BY <4>1, QuotaEvents DEF Q!ReadUsage, QuotasTyped, Q!TypeOK
    <3>2. sweep'[s].pc = "decide" /\ sweep'[s].breaches = over \cap sweep[s].quota
      BY <2>5, <3>1, WhereItStands
    <3>3. sweep[s].pc = "usage" /\ UNCHANGED <<over, quota, notified, state>> /\ KnownAsItIs
      BY <2>5 DEF Q!ReadUsage, Q!environment, Q!history
    <3> QED
      BY <2>1, <3>2, <3>3 DEF KnownAsItIs, Storing
  <2>6. CASE Q!UsageFails(s)
    <3>1. sweep'[s].pc = "idle"
      BY <2>6, WhereItStands
    <3>2. sweep[s].pc = "usage" /\ UNCHANGED <<over, quota, notified, state>> /\ KnownAsItIs
      BY <2>6 DEF Q!UsageFails, Q!environment, Q!history
    <3> QED
      BY <2>1, <3>1, <3>2 DEF KnownAsItIs, Storing
  <2>7. ~Q!NoAllocation(s) /\ ~Q!Recovered(s)
    <3>1. Q!NoAllocation(s) => KnownAsItIs /\ sweep[s].pc = "usage" /\ sweep[s].quota = {}
      BY DEF Q!NoAllocation
    <3>2. Q!Recovered(s) => KnownAsItIs /\ sweep[s].pc = "decide" /\ sweep[s].breaches = {}
      BY DEF Q!Recovered
    <3> QED
      BY <3>1, <3>2 DEF KnownAsItIs
  <2>8. CASE Q!Store(s)
    <3>1. /\ state' = [resources |-> sweep[s].breaches, lastNotifiedAt |-> qNow]
          /\ UNCHANGED <<over, quota, notified>> /\ sweep[s].pc = "store" /\ KnownAsItIs
      BY <2>8 DEF Q!Store, Q!environment, Q!history
    <3>2. sweep'[s].pc = "idle"
      BY <2>8, WhereItStands
    <3> QED
      BY <2>1, <3>1, <3>2 DEF KnownAsItIs, Storing
  <2>9. CASE Q!StillOver(s)
    <3>1. /\ state' = [resources |-> sweep[s].breaches, lastNotifiedAt |-> state.lastNotifiedAt]
          /\ UNCHANGED <<over, quota, notified>> /\ sweep[s].pc = "decide" /\ KnownAsItIs
      BY <2>9 DEF Q!StillOver, Q!Kept, Q!environment
    <3>2. sweep'[s].pc = "idle"
      BY <2>9, WhereItStands
    <3>3. ~Storing
      BY <2>1, <3>1 DEF Storing
    <3>4. state' = [resources |-> notified.of, lastNotifiedAt |-> notified.at]
      <4>1. sweep[s].breaches = notified.of /\ state = [resources |-> notified.of, lastNotifiedAt |-> notified.at]
        BY <3>1, <3>3 DEF KnownAsItIs
      <4> QED
        BY <3>1, <4>1
    <3> QED
      BY <2>1, <3>1, <3>2, <3>4 DEF KnownAsItIs, Storing
  <2> QED
    BY <1>1, <2>2, <2>4, <2>5, <2>6, <2>7, <2>8, <2>9, <2>10 DEF SweepStep
<1>2. CASE (\E r \in Resources : Q!UsageMoves(r)) \/ (\E q \in SUBSET Resources : Q!SetProjectQuota(q))
  BY <1>2, SurroundingsMove
<1>3. CASE Q!Crash
  BY <1>3, CrashCounts
<1> QED
  BY <1>1, <1>2, <1>3 DEF Q!Next, SweepStep

\* and told again in time.
LEMMA InTimePreserved ==
    ASSUME QuotasTyped, OneSweep, steady => KnownAsItIs /\ InTime, steady',
           qUsed'["overlap"] = 0, qUsed'["crash"] = 0, qUsed'["fail"] = 0, Q!Next
    PROVE  InTime'
<1>1. qNow \in Int /\ notified.at \in Int /\ Cooldown \in Nat \ {0}
  BY CooldownAssumption DEF QuotasTyped, Q!TypeOK
<1>2. ASSUME NEW s \in Sweeps, SweepStep(s) PROVE InTime'
  <2>1. \A r \in Sweeps : r # s => sweep[r].pc = "idle"
    BY <1>2, OthersAreIdle DEF Q!Idle
  <2>2. CASE Q!StartSweep(s)
    <3>1. qNow' = qNow + 1 /\ UNCHANGED notified /\ InTime /\ ~Q!Busy
      BY <1>2, <2>2, OthersAreIdle DEF Q!StartSweep, Q!history
    <3>2. Q!Busy'
      <4>1. sweep'[s].pc = "usage"
        BY <2>2, WhereItStands
      <4> QED
        BY <4>1 DEF Q!Busy, Q!Idle
    <3> QED
      BY <1>1, <3>1, <3>2 DEF InTime
  <2>3. CASE Q!ReadUsage(s, TRUE) \/ Q!ReadUsage(s, FALSE)
    <3>1. UNCHANGED <<qNow, notified>> /\ InTime
      BY <2>3 DEF Q!ReadUsage, Q!environment, Q!history
    <3>2. Q!Busy'
      <4>1. sweep'[s].pc = "decide"
        BY <2>3, WhereItStands
      <4> QED
        BY <4>1 DEF Q!Busy, Q!Idle
    <3> QED
      BY <3>1, <3>2 DEF InTime
  <2>4. ~Q!UsageFails(s)
    <3>1. {"fail"} \in SUBSET Q!Kinds
      BY DEF Q!Kinds
    <3> QED
      BY <3>1, QuotaEvents DEF Q!UsageFails, QuotasTyped, Q!TypeOK
  <2>5. ~Q!NoAllocation(s) /\ ~Q!Recovered(s)
    <3>1. Q!NoAllocation(s) => KnownAsItIs /\ sweep[s].pc = "usage" /\ sweep[s].quota = {}
      BY DEF Q!NoAllocation
    <3>2. Q!Recovered(s) => KnownAsItIs /\ sweep[s].pc = "decide" /\ sweep[s].breaches = {}
      BY DEF Q!Recovered
    <3> QED
      BY <3>1, <3>2 DEF KnownAsItIs
  <2>6. CASE Q!Notify(s)
    <3>1. notified'.at = qNow /\ UNCHANGED qNow
      BY <2>6 DEF Q!Notify, Q!environment
    <3> QED
      BY <1>1, <3>1 DEF InTime
  <2>7. CASE Q!Store(s)
    <3>1. UNCHANGED <<qNow, notified>> /\ KnownAsItIs /\ sweep[s].pc = "store"
      BY <2>7 DEF Q!Store, Q!environment, Q!history
    <3> QED
      BY <1>1, <3>1 DEF KnownAsItIs, InTime
  <2>8. CASE Q!StillOver(s)
    <3>1. /\ UNCHANGED <<qNow, notified>> /\ KnownAsItIs /\ sweep[s].pc = "decide"
          /\ ~(qNow - state.lastNotifiedAt >= Cooldown)
      BY <2>8 DEF Q!StillOver, Q!environment, Q!CooldownElapsed
    <3>2. ~Storing
      BY <2>1, <3>1 DEF Storing
    <3>3. state.lastNotifiedAt = notified.at
      BY <3>1, <3>2 DEF KnownAsItIs
    <3> QED
      BY <1>1, <3>1, <3>3 DEF InTime
  <2>9. ~Q!NotifyFails(s)
    BY UnsentCounts
  <2> QED
    BY <1>2, <2>2, <2>3, <2>4, <2>5, <2>6, <2>7, <2>8, <2>9 DEF SweepStep
<1>3. CASE (\E r \in Resources : Q!UsageMoves(r)) \/ (\E q \in SUBSET Resources : Q!SetProjectQuota(q))
  BY <1>3, SurroundingsMove
<1>4. CASE Q!Crash
  BY <1>4, CrashCounts
<1> QED
  BY <1>2, <1>3, <1>4 DEF Q!Next, SweepStep

\* The invariant of Quotas is inductive,
LEMMA QuotasInvPreserved ==
    QuotasInv /\ [Next]_<<part, hVars, iVars, qVars, dVars>> => QuotasInv'
<1> SUFFICES ASSUME QuotasInv, [Next]_<<part, hVars, iVars, qVars, dVars>> PROVE QuotasInv'
  OBVIOUS
<1>1. CASE UNCHANGED qVars
  BY <1>1 DEF qVars, QuotasInv, QuotasTyped, Q!TypeOK, Q!Never, OneSweep, Told, ToldJustNow, Storing,
              Q!ToldIsStored, KnownAsItIs, InTime, Q!Busy
<1>2. CASE Q!Next
  <2>1. QuotasTyped'
    BY <1>2, QuotasTypedPreserved DEF QuotasInv
  <2>2. \A K \in SUBSET Q!Kinds : Q!Never(K)' => Q!Never(K)
    BY <1>2, QuotasCount DEF QuotasInv, QuotasTyped, Q!TypeOK
  <2>3. /\ {"overlap"} \in SUBSET Q!Kinds /\ {"overlap", "crash", "unsent"} \in SUBSET Q!Kinds
        /\ {"overlap", "crash", "gap"} \in SUBSET Q!Kinds
        /\ {"overlap", "crash", "gap", "fail"} \in SUBSET Q!Kinds
    BY DEF Q!Kinds
  <2>4. Q!Never({"overlap"})' => OneSweep'
    BY <1>2, <2>2, <2>3, OneSweepPreserved DEF QuotasInv, Q!Never
  <2>5. /\ Q!Never({"overlap", "crash", "unsent"}) => Q!Never({"overlap"})
        /\ Q!Never({"overlap", "crash", "gap"}) => Q!Never({"overlap"})
        /\ Q!Never({"overlap", "crash", "gap", "fail"}) => Q!Never({"overlap", "crash", "gap"})
    BY DEF Q!Never
  <2>6. Q!Never({"overlap", "crash", "unsent"})' => Told'
    <3> SUFFICES ASSUME Q!Never({"overlap", "crash", "unsent"})' PROVE Told'
      OBVIOUS
    <3>1. Told /\ OneSweep
      BY <2>2, <2>3, <2>5 DEF QuotasInv
    <3>2. qUsed'["overlap"] = 0 /\ qUsed'["crash"] = 0 /\ qUsed'["unsent"] = 0
      BY DEF Q!Never
    <3> QED
      BY <1>2, <3>1, <3>2, ToldPreserved DEF QuotasInv
  <2>7. Q!Never({"overlap", "crash", "gap"})' /\ steady' => KnownAsItIs'
    <3> SUFFICES ASSUME Q!Never({"overlap", "crash", "gap"})', steady' PROVE KnownAsItIs'
      OBVIOUS
    <3>1. OneSweep /\ (steady => KnownAsItIs)
      BY <2>2, <2>3, <2>5 DEF QuotasInv
    <3>2. qUsed'["overlap"] = 0 /\ qUsed'["crash"] = 0 /\ qUsed'["gap"] = 0
      BY DEF Q!Never
    <3> QED
      BY <1>2, <3>1, <3>2, KnownPreserved DEF QuotasInv
  <2>8. Q!Never({"overlap", "crash", "gap", "fail"})' /\ steady' => InTime'
    <3> SUFFICES ASSUME Q!Never({"overlap", "crash", "gap", "fail"})', steady' PROVE InTime'
      OBVIOUS
    <3>1. OneSweep /\ (steady => KnownAsItIs /\ InTime)
      BY <2>2, <2>3, <2>5 DEF QuotasInv
    <3>2. qUsed'["overlap"] = 0 /\ qUsed'["crash"] = 0 /\ qUsed'["fail"] = 0
      BY DEF Q!Never
    <3> QED
      BY <1>2, <3>1, <3>2, InTimePreserved DEF QuotasInv
  <2> QED
    BY <2>1, <2>4, <2>6, <2>7, <2>8 DEF QuotasInv
<1> QED
  BY <1>1, <1>2 DEF Next

\* and holds at first.
LEMMA QuotasInvInitially == Init => QuotasInv
<1> SUFFICES ASSUME Q!Init PROVE QuotasInv
  BY DEF Init
<1>1. /\ qNow = 0 /\ over = {} /\ quota = Resources /\ state = Q!NoState
      /\ sweep = [s \in Sweeps |-> Q!Idle] /\ notified = [at |-> -Cooldown, of |-> {}] /\ seen = {} /\ steady = FALSE
      /\ qUsed = [k \in Q!Kinds |-> 0]
  BY DEF Q!Init
<1>2. /\ Q!Idle \in SweepOf /\ Q!Idle.pc = "idle" /\ Q!Idle.breaches = {}
      /\ state \in [resources : SUBSET Resources, lastNotifiedAt : (-Cooldown)..QuotaTime]
  BY <1>1, CooldownAssumption DEF Q!Idle, SweepOf, Q!NoState
<1>3. QuotasTyped
  <2>1. qNow \in 0..QuotaTime /\ notified \in [at : (-Cooldown)..QuotaTime, of : SUBSET Resources] /\ qUsed \in [Q!Kinds -> Nat]
    BY <1>1, CooldownAssumption
  <2>2. sweep \in [Sweeps -> SweepOf]
    BY <1>1, <1>2
  <2>3. \A s \in Sweeps : sweep[s].pc \in {"idle", "usage", "decide", "store"} /\ sweep[s].breaches \subseteq Resources
    BY <2>2 DEF SweepOf
  <2>4. over \subseteq Resources /\ quota \subseteq Resources /\ seen \subseteq Resources /\ steady \in BOOLEAN
    BY <1>1
  <2> QED
    BY <1>2, <2>1, <2>2, <2>3, <2>4 DEF QuotasTyped, Q!TypeOK
<1>4. OneSweep /\ Told
  BY <1>1, <1>2 DEF OneSweep, Told, ToldJustNow
<1> QED
  BY <1>1, <1>3, <1>4 DEF QuotasInv

\* While the breaches stay the same two notifications are a cooldown
\* apart (quotaController.ts:13).
LEMMA RepeatsWait ==
    QuotasInv /\ [Next]_<<part, hVars, iVars, qVars, dVars>> =>
        [Q!Never({"overlap", "crash", "gap"}) /\ steady /\ notified' # notified
         => qNow - notified.at >= Cooldown]_Q!vars
<1> SUFFICES ASSUME QuotasInv, [Next]_<<part, hVars, iVars, qVars, dVars>>,
                    Q!Never({"overlap", "crash", "gap"}), steady, notified' # notified
             PROVE  qNow - notified.at >= Cooldown
  OBVIOUS
<1>1. KnownAsItIs /\ OneSweep
  BY DEF QuotasInv, Q!Never
<1>2. PICK s \in Sweeps : Q!Notify(s)
  <2>1. Q!Next
    BY DEF Next, qVars
  <2>2. ASSUME NEW s \in Sweeps, ~Q!Notify(s), SweepStep(s) PROVE UNCHANGED notified
    BY <2>2 DEF SweepStep, Q!StartSweep, Q!NoAllocation, Q!UsageFails, Q!ReadUsage, Q!Recovered, Q!Store,
                Q!StillOver, Q!NotifyFails, Q!environment, Q!history
  <2>3. Q!Crash => UNCHANGED notified
    BY DEF Q!Crash, Q!history
  <2> QED
    BY <2>1, <2>2, <2>3, SurroundingsMove DEF Q!Next, SweepStep
<1>3. sweep[s].pc = "decide" /\ (Q!NewBreach(s) \/ Q!CooldownElapsed)
  BY <1>2 DEF Q!Notify, Q!IsNews
<1>4. ~Storing
  BY <1>1, <1>3 DEF OneSweep, Storing, Q!Idle
<1>5. sweep[s].breaches = notified.of /\ state = [resources |-> notified.of, lastNotifiedAt |-> notified.at]
  BY <1>1, <1>3, <1>4 DEF KnownAsItIs
<1>6. sweep[s].breaches = state.resources /\ state.lastNotifiedAt = notified.at
  BY <1>5
<1> QED
  BY <1>3, <1>6 DEF Q!NewBreach, Q!CooldownElapsed

\* For every set of resources, every number of sweeps at once and every change of the
\* usage and of the limits: what the state says is over has been told to the owners,
\* who stays over is told again after the cooldown and not before, until sweeps overlap,
\* one is cut short, a notification reaches nobody, the metrics have a gap or cannot be
\* queried (checkAllQuotas).
THEOREM OwnersAreTold == Spec => BreachesAreTold
<1>1. QuotasInv => Q!TypeOK /\ Q!BreachesAreTold /\ Q!StillOverIsRepeated
  <2> SUFFICES ASSUME QuotasInv PROVE Q!TypeOK /\ Q!BreachesAreTold /\ Q!StillOverIsRepeated
    OBVIOUS
  <2>1. ~Q!Busy => ~Storing
    BY DEF Q!Busy, Storing, Q!Idle
  <2>2. Q!TypeOK
    BY DEF QuotasInv, QuotasTyped
  <2>3. Q!BreachesAreTold
    BY <2>1 DEF QuotasInv, Told, Q!BreachesAreTold
  <2>4. Q!Never({"fail", "gap", "crash", "overlap"}) => Q!Never({"overlap", "crash", "gap", "fail"})
    BY DEF Q!Never
  <2>5. Q!StillOverIsRepeated
    BY <2>4 DEF QuotasInv, InTime, Q!StillOverIsRepeated
  <2> QED
    BY <2>2, <2>3, <2>5
<1>2. QuotasInv /\ [Next]_<<part, hVars, iVars, qVars, dVars>> =>
        [Q!Never({"overlap", "crash", "gap"}) /\ steady /\ notified' # notified
         => qNow - notified.at >= Cooldown]_Q!vars
  BY RepeatsWait
<1> QED
  BY <1>1, <1>2, QuotasInvInitially, QuotasInvPreserved, PTL DEF Spec, BreachesAreTold, Q!NoRepeatWhileSteady

-----------------------------------------------------------------------------
(* Health: the strengthening.                                              *)

Sampled == [target : Targets, status : H!Statuses, ts : 0..HealthTime]
Totals == [total : 0..Hour, up : 0..Hour]
Hours == Targets \X H!Buckets
HealthTicks == [pc : {"idle", "probe", "detect", "insert"}, ts : 0..HealthTime, got : SUBSET Sampled]
HealthTyped ==
    /\ now \in 0..HealthTime /\ answer \in [Targets -> H!Replies] /\ exists \in {"yes", "deleting", "no"}
    /\ samples \in SUBSET Sampled /\ rollups \in [Hours -> Totals] /\ roll \in SUBSET [Hours -> Totals]
    /\ tick \in [Ticks -> HealthTicks]
    /\ events \in Seq(H!Statuses) /\ due \in BOOLEAN /\ used \in [H!Kinds -> Nat]

\* A target has one sample of an interval: no tick has the interval of another, nor of
\* what is stored.
Distinct(ss) == \A s, o \in ss : s.target = o.target /\ s.ts = o.ts => s = o
Runs(k) == tick[k].pc # "idle"
TickIsOwn(k) ==
    /\ tick[k].pc = "idle" => tick[k] = H!Idle
    /\ Runs(k) => tick[k].ts <= now /\ \A s \in samples : s.ts # tick[k].ts
    /\ Distinct(tick[k].got) /\ \A s \in tick[k].got : s.ts = tick[k].ts
    /\ \A l \in Ticks : Runs(k) /\ Runs(l) /\ tick[k].ts = tick[l].ts => k = l
OnceEach ==
    /\ Distinct(samples) /\ \A s \in samples : s.ts <= now
    /\ \A k \in Ticks : TickIsOwn(k)

\* What has not happened, and what is so until then.
TicksTakeTurns ==
    H!Never({"overlap"}) => \A k \in Ticks : Runs(k) => tick[k].ts = now /\ \A l \in Ticks : Runs(l) => l = k
DiesWithProject ==
    H!Never({"during"}) /\ exists # "yes" =>
        samples = {} /\ roll = {} /\ (\A k \in Ticks : ~Runs(k)) /\ \A i \in Hours : rollups[i] = H!NoRow
NothingGoes ==
    /\ H!Never({"delete"}) => exists = "yes"
    /\ H!Never({"gone"}) => \A t \in Targets : answer[t] # "gone"

\* The last event is the status of the last tick; the samples of that tick are stored, all
\* of them, and young enough not to be pruned.
Covers(ss) == \A t \in Targets : \E s \in ss : s.target = t
At(ss, ts) == {s \in ss : s.ts = ts}
NewestAt(ts) == (\A s \in samples : s.ts <= ts) /\ Covers(At(samples, ts))
Announced(status) == events # <<>> => events[Len(events)] = status
Undisturbed == H!Never(H!Disturbances) /\ H!BriefOutages
Running == \E k \in Ticks : Runs(k)
LatestIsKept ==
    samples # {} => \E ts \in 0..now : NewestAt(ts) /\ now - ts <= used["down"] + (IF Running THEN 1 ELSE 0)
TicksCover == \A k \in Ticks : tick[k].pc \in {"detect", "insert"} => Covers(tick[k].got)
LastIsTold ==
    /\ samples = {} => events = <<>>
    /\ \A k \in Ticks : tick[k].pc = "insert" => Announced(H!Overall(tick[k].got))
    /\ (\A k \in Ticks : tick[k].pc # "insert") => Announced(H!Overall(H!Latest))
NoneTwice == \A i \in 1..(Len(events) - 1) : events[i] # events[i + 1]
Reported == Undisturbed => LatestIsKept /\ TicksCover /\ LastIsTold /\ NoneTwice

\* An hour whose samples are all kept has no total yet or that of its samples.
Within(b) == b * Hour >= now - RawKept
RowIsMeasured(t, b) ==
    /\ H!Closed(b) /\ Within(b) /\ rollups[<<t, b>>].total > 0 => rollups[<<t, b>>] = H!RowOf(H!SamplesOf(t, b))
    /\ ~H!Closed(b) => rollups[<<t, b>>].total = 0
RollIsMeasured(t, b) ==
    \A rows \in roll : IF H!Closed(b) THEN Within(b) => rows[<<t, b>>] = H!RowOf(H!SamplesOf(t, b))
                       ELSE rows[<<t, b>>].total = 0
Measured ==
    H!Never({"overlap", "during"}) => \A t \in Targets, b \in H!Buckets : RowIsMeasured(t, b) /\ RollIsMeasured(t, b)

\* A rollup is due in the first interval of an hour, and the samples are pruned at its end:
\* while any is left of an hour, a row counts them all, or all but those of the first interval.
DueAtFirst == due => now % Hour = 1
Later(t, b) == {o \in H!SamplesOf(t, b) : o.ts > b * Hour}
IsOf(row, t, b) == row \in {H!RowOf(H!SamplesOf(t, b)), H!RowOf(Later(t, b))}
Counts(row, t, b) == H!Closed(b) /\ H!SamplesOf(t, b) # {} /\ row.total > 0 => IsOf(row, t, b)
AllCount(t, b) == Counts(rollups[<<t, b>>], t, b) /\ \A rows \in roll : Counts(rows[<<t, b>>], t, b)
HoursCount == H!Never({"overlap", "during"}) => \A t \in Targets, b \in H!Buckets : AllCount(t, b)

\* The hour of a sample is rolled up, or will be before the sample is pruned: each missed
\* rollup leaves it to the one of the next hour.
RollupsCatchUp == (used["down"] + 1) * Hour < RawKept
Horizon(s) == (H!BucketOf(s.ts) + used["down"] + 1) * Hour
Counted(totals, s) == totals[<<s.target, H!BucketOf(s.ts)>>].total > 0
Awaits(s) ==
    \/ Counted(rollups, s)
    \/ H!BucketOf(s.ts) * Hour < now - RollupKept
    \/ now <= Horizon(s)
    \/ now = Horizon(s) + 1 /\ (due \/ (roll # {} /\ \A rows \in roll : Counted(rows, s)))
AllAwait == exists = "yes" /\ H!Never({"crash", "overlap"}) /\ RollupsCatchUp => \A s \in samples : Awaits(s)

HealthInv ==
    /\ HealthTyped /\ OnceEach /\ TicksTakeTurns /\ DiesWithProject /\ NothingGoes
    /\ Reported /\ Measured /\ AllAwait /\ DueAtFirst /\ HoursCount

USE HealthAssumption

-----------------------------------------------------------------------------
(* Health: hours.                                                          *)

\* Whole hours are ordered as their numbers are.
LEMMA HoursGrow ==
    ASSUME NEW a \in Int, NEW b \in Int, a < b
    PROVE  a * Hour + Hour <= b * Hour
<1>1. a + 1 <= b /\ Hour \in Int /\ Hour > 0
  OBVIOUS
<1>2. (b - (a + 1)) * Hour >= 0
  BY <1>1
<1> QED
  BY <1>1, <1>2

\* The hour of a time is the one that begins before it and ends after it.
LEMMA HourOf ==
    ASSUME NEW n \in Nat
    PROVE  /\ H!BucketOf(n) \in Nat
           /\ H!BucketOf(n) * Hour <= n /\ n < H!BucketOf(n) * Hour + Hour
BY DEF H!BucketOf

\* No other does.
LEMMA HourIsOne ==
    ASSUME NEW n \in Nat, NEW b \in Int, b * Hour <= n, n < b * Hour + Hour
    PROVE  H!BucketOf(n) = b
<1>1. /\ H!BucketOf(n) \in Nat
      /\ H!BucketOf(n) * Hour <= n /\ n < H!BucketOf(n) * Hour + Hour
  BY HourOf
<1>2. CASE b < H!BucketOf(n)
  <2>1. b * Hour + Hour <= H!BucketOf(n) * Hour
    BY <1>1, <1>2, HoursGrow
  <2> QED
    BY <1>1, <2>1
<1>3. CASE H!BucketOf(n) < b
  <2>1. H!BucketOf(n) * Hour + Hour <= b * Hour
    BY <1>1, <1>3, HoursGrow
  <2> QED
    BY <1>1, <2>1
<1> QED
  BY <1>1, <1>2, <1>3

\* A time past the end of an hour is of a later one.
LEMMA PastItsEnd ==
    ASSUME NEW n \in Nat, NEW b \in Nat, n > b * Hour + Hour PROVE b < H!BucketOf(n)
<1>1. /\ H!BucketOf(n) \in Nat /\ n < H!BucketOf(n) * Hour + Hour
  BY HourOf
<1>2. b * Hour \in Nat /\ H!BucketOf(n) * Hour \in Nat
  BY <1>1
<1>3. CASE H!BucketOf(n) < b
  <2>1. H!BucketOf(n) * Hour + Hour <= b * Hour
    BY <1>1, <1>3, HoursGrow
  <2>2. \A m, p, q \in Nat : m < p + Hour /\ p + Hour <= q /\ m > q + Hour => FALSE
    OBVIOUS
  <2> QED
    BY <1>1, <1>2, <2>1, <2>2
<1>4. CASE H!BucketOf(n) = b
  BY <1>1, <1>2, <1>4
<1> QED
  BY <1>1, <1>3, <1>4

\* The clock goes on in its hour or to the next.
LEMMA HoursPass ==
    ASSUME NEW m \in Nat, NEW n \in Nat, m <= n
    PROVE  H!BucketOf(m) <= H!BucketOf(n)
<1>1. /\ H!BucketOf(m) \in Nat /\ H!BucketOf(n) \in Nat
      /\ H!BucketOf(m) * Hour <= m /\ n < H!BucketOf(n) * Hour + Hour
  BY HourOf
<1>2. CASE H!BucketOf(n) < H!BucketOf(m)
  <2>1. H!BucketOf(n) * Hour + Hour <= H!BucketOf(m) * Hour
    BY <1>1, <1>2, HoursGrow
  <2> QED
    BY <1>1, <2>1
<1> QED
  BY <1>1, <1>2

\* The first interval of an hour is the one after its boundary.
LEMMA FirstOfHour ==
    ASSUME NEW c \in Nat
    PROVE  (c * Hour + 1) % Hour = 1
<1>1. c * Hour \in Nat
  OBVIOUS
<1>2. H!BucketOf(c * Hour + 1) = c
  BY <1>1, HourIsOne
<1>3. (c * Hour + 1) % Hour = (c * Hour + 1) - H!BucketOf(c * Hour + 1) * Hour
  BY <1>1 DEF H!BucketOf
<1> QED
  BY <1>1, <1>2, <1>3

\* Every interval is of an hour that has rows.
LEMMA HoursHaveRows ==
    ASSUME NEW n \in 0..HealthTime PROVE H!BucketOf(n) \in H!Buckets /\ H!BucketOf(n) \in Nat
BY HoursPass, HourOf DEF H!Buckets, H!BucketOf

-----------------------------------------------------------------------------
(* Health: rows.                                                           *)

\* One target has at most a sample an interval.
LEMMA HourHasRoom ==
    ASSUME HealthTyped, OnceEach, NEW t \in Targets, NEW b \in H!Buckets, NEW ss \in SUBSET H!SamplesOf(t, b)
    PROVE  /\ IsFiniteSet(ss) /\ Cardinality(ss) \in 0..Hour
<1> DEFINE hour == (b * Hour)..(b * Hour + (Hour - 1))
           at == [s \in ss |-> s.ts]
<1>1. b \in Nat /\ b * Hour \in Nat
  BY DEF H!Buckets
<1>2. IsFiniteSet(hour) /\ Cardinality(hour) = Hour
  BY <1>1, FS_Interval
<1>3. \A s \in ss : s \in samples /\ s.target = t /\ s.ts \in hour
  <2> TAKE s \in ss
  <2>1. s \in samples /\ s.target = t /\ H!BucketOf(s.ts) = b
    BY DEF H!SamplesOf
  <2>2. s.ts \in Nat
    BY <2>1 DEF HealthTyped, Sampled
  <2>3. b * Hour <= s.ts /\ s.ts < b * Hour + Hour
    BY <2>1, <2>2, HourOf
  <2> QED
    BY <1>1, <2>1, <2>2, <2>3
<1>4. \A s, o \in ss : s.ts = o.ts => s = o
  BY <1>3 DEF OnceEach, Distinct
<1>5. at \in Injection(ss, hour)
  <2> HIDE DEF hour
  <2>1. at \in [ss -> hour]
    BY <1>3
  <2>2. IsInjective(at)
    BY <1>4 DEF IsInjective
  <2> QED
    BY <2>1, <2>2 DEF Injection
<1>6. IsFiniteSet(ss) /\ Cardinality(ss) <= Cardinality(hour)
  <2> HIDE DEF hour, at
  <2> QED
    BY <1>2, <1>5, FS_Injection
<1>7. Cardinality(ss) \in Nat
  BY <1>6, FS_CardinalityType
<1> QED
  BY <1>2, <1>6, <1>7

\* The component counts as this module does.
LEMMA CardinalityIsOne == \A S : H!Cardinality(S) = Cardinality(S)
BY Zenon DEF H!Cardinality, Cardinality, H!IsFiniteSet, IsFiniteSet

\* A row of samples of one hour counts no more than there are intervals in it, and
\* counts one if there is any.
LEMMA RowsAreTotals ==
    ASSUME HealthTyped, OnceEach, NEW t \in Targets, NEW b \in H!Buckets, NEW ss \in SUBSET H!SamplesOf(t, b)
    PROVE  H!RowOf(ss) \in Totals /\ (ss # {} => H!RowOf(ss).total > 0)
<1> DEFINE ups == {s \in ss : H!IsUp(s.status)}
<1>1. Cardinality(ups) \in 0..Hour
  BY HourHasRoom
<1>2. IsFiniteSet(ss) /\ Cardinality(ss) \in 0..Hour
  BY HourHasRoom
<1>3. Cardinality(ss) = 0 <=> ss = {}
  BY <1>2, FS_EmptySet
<1>4. H!RowOf(ss) = [total |-> Cardinality(ss), up |-> Cardinality(ups)]
  BY CardinalityIsOne DEF H!RowOf
<1> HIDE DEF ups
<1> QED
  BY <1>1, <1>2, <1>3, <1>4 DEF Totals

\* What a rollup computes are rows.
LEMMA RollupsAreTotals ==
    ASSUME HealthTyped, OnceEach, NEW ts \in Int
    PROVE  /\ H!RollupsSince(ts) \in [Hours -> Totals]
           /\ \A t \in Targets, b \in H!Buckets :
                H!RollupsSince(ts)[<<t, b>>] =
                    (IF H!Closed(b) THEN H!RowOf({s \in H!SamplesOf(t, b) : s.ts >= ts}) ELSE H!NoRow)
<1> DEFINE row(i) == IF H!Closed(i[2]) THEN H!RowOf({s \in H!SamplesOf(i[1], i[2]) : s.ts >= ts}) ELSE H!NoRow
<1>1. H!NoRow \in Totals
  BY DEF H!NoRow, Totals
<1>2. ASSUME NEW t \in Targets, NEW b \in H!Buckets PROVE row(<<t, b>>) \in Totals
  <2>1. {s \in H!SamplesOf(t, b) : s.ts >= ts} \in SUBSET H!SamplesOf(t, b)
    OBVIOUS
  <2>2. H!RowOf({s \in H!SamplesOf(t, b) : s.ts >= ts}) \in Totals
    BY <2>1, RowsAreTotals
  <2> QED
    BY <1>1, <2>2
<1>3. \A i \in Hours : row(i) \in Totals
  <2> HIDE DEF row
  <2> QED
    BY <1>2 DEF Hours
<1>4. H!RollupsSince(ts) = [i \in Hours |-> row(i)]
  BY DEF H!RollupsSince, Hours
<1>5. \A t \in Targets, b \in H!Buckets : H!RollupsSince(ts)[<<t, b>>] = row(<<t, b>>)
  <2> HIDE DEF row
  <2> QED
    BY <1>4 DEF Hours
<1>6. H!RollupsSince(ts) \in [Hours -> Totals]
  <2> HIDE DEF row
  <2> QED
    BY <1>3, <1>4
<1> QED
  BY <1>5, <1>6

-----------------------------------------------------------------------------
(* Health: every step keeps it.                                            *)

\* Counting events keeps the counts natural numbers, and counts those named.
LEMMA HealthEvents ==
    ASSUME used \in [H!Kinds -> Nat], NEW kinds \in SUBSET H!Kinds, H!Uses(kinds)
    PROVE  /\ used' \in [H!Kinds -> Nat]
           /\ \A k \in kinds : used'[k] = used[k] + 1
           /\ \A k \in H!Kinds \ kinds : used'[k] = used[k]
           /\ \A K \in SUBSET H!Kinds : H!Never(K)' => H!Never(K)
<1>1. used' = [k \in H!Kinds |-> used[k] + (IF k \in kinds THEN 1 ELSE 0)]
  BY DEF H!Uses
<1>2. \A k \in H!Kinds : used'[k] = used[k] + (IF k \in kinds THEN 1 ELSE 0)
  BY <1>1
<1>3. used' \in [H!Kinds -> Nat]
  BY <1>1
<1>4. \A k \in H!Kinds : used'[k] = 0 => used[k] = 0
  BY <1>2
<1>5. \A K \in SUBSET H!Kinds : H!Never(K)' => H!Never(K)
  BY <1>4 DEF H!Never
<1> QED
  BY <1>2, <1>3, <1>5

\* Every step counts what happens.
LEMMA HealthCounts ==
    ASSUME used \in [H!Kinds -> Nat], H!Next
    PROVE  /\ used' \in [H!Kinds -> Nat]
           /\ \A k \in H!Kinds : used'[k] >= used[k]
           /\ \A K \in SUBSET H!Kinds : H!Never(K)' => H!Never(K)
           /\ used'["down"] = used["down"] \/ H!Down
<1>1. ASSUME UNCHANGED used PROVE \A K \in SUBSET H!Kinds : H!Never(K)' => H!Never(K)
  BY <1>1 DEF H!Never
<1>2. ASSUME NEW kinds \in SUBSET H!Kinds, H!Uses(kinds), "down" \notin kinds \/ H!Down
      PROVE  /\ used' \in [H!Kinds -> Nat] /\ \A k \in H!Kinds : used'[k] >= used[k]
             /\ \A K \in SUBSET H!Kinds : H!Never(K)' => H!Never(K)
             /\ used'["down"] = used["down"] \/ H!Down
  <2>1. "down" \in H!Kinds
    BY DEF H!Kinds
  <2> QED
    BY <1>2, <2>1, HealthEvents
<1>3. ASSUME NEW k \in Ticks, H!StartTick(k)
      PROVE  \E kinds \in SUBSET H!Kinds : H!Uses(kinds) /\ "down" \notin kinds
  BY <1>3 DEF H!StartTick, H!Kinds
<1>4. ASSUME NEW k \in Ticks, H!InsertFails(k)
      PROVE  \E kinds \in SUBSET H!Kinds : H!Uses(kinds) /\ "down" \notin kinds
  BY <1>4 DEF H!InsertFails, H!Kinds
<1>5. H!RollupReads \/ H!StartDelete \/ H!Crash => \E kinds \in SUBSET H!Kinds : H!Uses(kinds) /\ "down" \notin kinds
  BY DEF H!RollupReads, H!StartDelete, H!Crash, H!Kinds
<1>6. ASSUME NEW t, NEW reply, H!Change(t, reply)
      PROVE  \E kinds \in SUBSET H!Kinds : H!Uses(kinds) /\ "down" \notin kinds
  BY <1>6 DEF H!Change, H!Kinds
<1>7. H!Down => \E kinds \in SUBSET H!Kinds : H!Uses(kinds)
  BY DEF H!Down, H!Kinds
<1>8. ASSUME NEW k \in Ticks, H!Probe(k) \/ H!Detect(k) \/ H!Insert(k) PROVE UNCHANGED used
  BY <1>8 DEF H!Probe, H!Detect, H!Insert
<1>9. H!RollupWrites \/ H!Prune \/ H!Delete => UNCHANGED used
  BY DEF H!RollupWrites, H!Prune, H!Delete
<1>10. (UNCHANGED used) \/ \E kinds \in SUBSET H!Kinds : H!Uses(kinds) /\ ("down" \notin kinds \/ H!Down)
  BY <1>3, <1>4, <1>5, <1>6, <1>7, <1>8, <1>9 DEF H!Next
<1> QED
  BY <1>1, <1>2, <1>10

\* A tick goes on alone.
TickStep(k) == H!StartTick(k) \/ H!Probe(k) \/ H!Detect(k) \/ H!Insert(k) \/ H!InsertFails(k)
HealthStep ==
    \/ \E k \in Ticks : TickStep(k)
    \/ H!RollupReads \/ H!RollupWrites \/ H!Prune \/ H!StartDelete \/ H!Delete
    \/ \E t \in Targets, reply \in Answers : H!Change(t, reply)
    \/ H!Down \/ H!Crash
LEMMA HealthSteps == H!Next <=> HealthStep
BY DEF H!Next, HealthStep, TickStep

\* Where it stands afterwards.
LEMMA TickGoesOn ==
    ASSUME HealthTyped, NEW k \in Ticks, TickStep(k)
    PROVE  /\ \A l \in Ticks \ {k} : tick'[l] = tick[l]
           /\ H!StartTick(k) =>
                tick'[k] = IF exists = "no" THEN tick[k] ELSE [pc |-> "probe", ts |-> now + 1, got |-> {}]
           /\ H!Probe(k) => tick'[k] = [pc |-> "detect", ts |-> tick[k].ts, got |-> H!SampleProject(tick[k].ts)]
           /\ H!Detect(k) => tick'[k] = [pc |-> "insert", ts |-> tick[k].ts, got |-> tick[k].got]
           /\ H!Insert(k) \/ H!InsertFails(k) => tick'[k] = H!Idle
<1>0. tick[k] \in HealthTicks /\ tick \in [Ticks -> HealthTicks]
  BY DEF HealthTyped
<1>1. CASE H!StartTick(k)
  <2>1. [H!Idle EXCEPT !.pc = "probe", !.ts = now + 1] = [pc |-> "probe", ts |-> now + 1, got |-> {}]
    <3>1. [H!Idle EXCEPT !.pc = "probe"] = [pc |-> "probe", ts |-> 0, got |-> {}]
      BY DEF H!Idle
    <3>2. [H!Idle EXCEPT !.pc = "probe", !.ts = now + 1] = [[H!Idle EXCEPT !.pc = "probe"] EXCEPT !.ts = now + 1]
      OBVIOUS
    <3>3. [[pc |-> "probe", ts |-> 0, got |-> {}] EXCEPT !.ts = now + 1] = [pc |-> "probe", ts |-> now + 1, got |-> {}]
      OBVIOUS
    <3> QED
      BY <3>1, <3>2, <3>3, Zenon
  <2>2. tick' = IF exists = "no" THEN tick ELSE [tick EXCEPT ![k] = [pc |-> "probe", ts |-> now + 1, got |-> {}]]
    BY <1>1, <2>1 DEF H!StartTick
  <2>3. tick[k] = H!Idle
    BY <1>1 DEF H!StartTick
  <2> QED
    BY <1>0, <1>1, <2>2, <2>3 DEF H!Probe, H!Detect, H!Insert, H!InsertFails, H!Idle
<1>2. CASE H!Probe(k)
  <2>1. tick' = [tick EXCEPT ![k] = [[tick[k] EXCEPT !.pc = "detect"] EXCEPT !.got = H!SampleProject(tick[k].ts)]]
    BY <1>0, <1>2 DEF H!Probe
  <2>2. [[tick[k] EXCEPT !.pc = "detect"] EXCEPT !.got = H!SampleProject(tick[k].ts)]
        = [pc |-> "detect", ts |-> tick[k].ts, got |-> H!SampleProject(tick[k].ts)]
    <3>1. [tick[k] EXCEPT !.pc = "detect"] = [pc |-> "detect", ts |-> tick[k].ts, got |-> tick[k].got]
      BY <1>0 DEF HealthTicks
    <3>2. [[pc |-> "detect", ts |-> tick[k].ts, got |-> tick[k].got] EXCEPT !.got = H!SampleProject(tick[k].ts)]
          = [pc |-> "detect", ts |-> tick[k].ts, got |-> H!SampleProject(tick[k].ts)]
      OBVIOUS
    <3> QED
      BY <3>1, <3>2, Zenon
  <2> QED
    BY <1>0, <1>2, <2>1, <2>2 DEF H!Probe, H!StartTick, H!Detect, H!Insert, H!InsertFails, H!Idle
<1>3. CASE H!Detect(k)
  <2>1. tick' = [tick EXCEPT ![k] = [tick[k] EXCEPT !.pc = "insert"]]
    BY <1>0, <1>3 DEF H!Detect
  <2>2. [tick[k] EXCEPT !.pc = "insert"] = [pc |-> "insert", ts |-> tick[k].ts, got |-> tick[k].got]
    BY <1>0 DEF HealthTicks
  <2> QED
    BY <1>0, <1>3, <2>1, <2>2 DEF H!Probe, H!StartTick, H!Detect, H!Insert, H!InsertFails, H!Idle
<1>4. CASE H!Insert(k) \/ H!InsertFails(k)
  <2>1. tick' = [tick EXCEPT ![k] = H!Idle] /\ tick[k].pc = "insert"
    BY <1>4 DEF H!Insert, H!InsertFails
  <2> QED
    BY <1>0, <1>4, <2>1 DEF H!Probe, H!StartTick, H!Detect, H!Idle
<1> QED
  BY <1>1, <1>2, <1>3, <1>4 DEF TickStep

\* What a tick samples is one sample of a target.
LEMMA SamplesOfTick ==
    ASSUME HealthTyped, NEW ts \in 0..HealthTime
    PROVE  /\ H!SampleProject(ts) \in SUBSET Sampled /\ Distinct(H!SampleProject(ts))
           /\ \A s \in H!SampleProject(ts) : s.ts = ts
           /\ \A t \in Targets : answer[t] # "gone" => \E s \in H!SampleProject(ts) : s.target = t
<1>1. \A t \in Targets : H!StatusOf(answer[t]) \in H!Statuses
  BY DEF H!StatusOf, H!Statuses
<1>2. \A s \in H!SampleProject(ts) : \E t \in Targets : s = [target |-> t, status |-> H!StatusOf(answer[t]), ts |-> ts]
  BY DEF H!SampleProject
<1>3. \A t \in Targets : answer[t] # "gone" =>
        [target |-> t, status |-> H!StatusOf(answer[t]), ts |-> ts] \in H!SampleProject(ts)
  BY DEF H!SampleProject
<1>4. H!SampleProject(ts) \in SUBSET Sampled
  BY <1>1, <1>2 DEF Sampled
<1>5. Distinct(H!SampleProject(ts))
  BY <1>2 DEF Distinct
<1>6. \A s \in H!SampleProject(ts) : s.ts = ts
  BY <1>2
<1>7. \A t \in Targets : answer[t] # "gone" => \E s \in H!SampleProject(ts) : s.target = t
  BY <1>3
<1> QED
  BY <1>4, <1>5, <1>6, <1>7

\* The worst status of some samples is a status, of none it is not.
LEMMA WorstIsAStatus ==
    ASSUME NEW ss \in SUBSET Sampled
    PROVE  /\ ss # {} => H!Overall(ss) \in H!Statuses
           /\ ss = {} => H!Overall(ss) = "UNKNOWN"
<1> DEFINE sts == {s.status : s \in ss}
<1>1. sts \subseteq H!Statuses /\ (ss # {} => sts # {}) /\ (ss = {} => sts = {})
  BY DEF Sampled
<1>2. H!Overall(ss) = H!WorstStatus(sts)
  BY DEF H!Overall
<1> HIDE DEF sts
<1> QED
  BY <1>1, <1>2 DEF H!WorstStatus, H!Statuses

\* Every step keeps the types.
LEMMA HealthTypedPreserved ==
    ASSUME HealthTyped, OnceEach, H!Next PROVE HealthTyped'
<1>1. used' \in [H!Kinds -> Nat]
  BY HealthCounts DEF HealthTyped
<1>2. ASSUME NEW k \in Ticks, TickStep(k) PROVE HealthTyped'
  <2>1. now' \in 0..HealthTime /\ UNCHANGED <<answer, exists, rollups, roll>>
    BY <1>2 DEF HealthTyped, TickStep, H!StartTick, H!Probe, H!Detect, H!Insert, H!InsertFails, H!world, H!stored, H!rolling
  <2>2. due' \in BOOLEAN
    BY <1>2 DEF HealthTyped, TickStep, H!StartTick, H!Probe, H!Detect, H!Insert, H!InsertFails, H!rolling
  <2>3. tick[k] \in HealthTicks
    BY DEF HealthTyped
  <2>4. samples' \in SUBSET Sampled
    BY <1>2, <2>3 DEF HealthTyped, HealthTicks, TickStep, H!StartTick, H!Probe, H!Detect, H!Insert, H!InsertFails, H!stored
  <2>5. tick'[k] \in HealthTicks
    <3>1. H!StartTick(k) => tick'[k] \in HealthTicks
      <4>1. H!StartTick(k) => now + 1 \in 0..HealthTime
        BY DEF H!StartTick, HealthTyped
      <4>2. H!StartTick(k) => tick'[k] = tick[k] \/ tick'[k] = [pc |-> "probe", ts |-> now + 1, got |-> {}]
        BY <1>2, TickGoesOn
      <4> QED
        BY <2>3, <4>1, <4>2 DEF HealthTicks
    <3>2. H!Probe(k) => tick'[k] \in HealthTicks
      <4>1. H!SampleProject(tick[k].ts) \in SUBSET Sampled
        BY <2>3, SamplesOfTick DEF HealthTicks
      <4>2. H!Probe(k) =>
              tick'[k] = [pc |-> "detect", ts |-> tick[k].ts, got |-> H!SampleProject(tick[k].ts)]
        BY <1>2, TickGoesOn
      <4> QED
        BY <2>3, <4>1, <4>2 DEF HealthTicks
    <3>3. H!Detect(k) => tick'[k] \in HealthTicks
      <4>1. H!Detect(k) => tick'[k] = [pc |-> "insert", ts |-> tick[k].ts, got |-> tick[k].got]
        BY <1>2, TickGoesOn
      <4> QED
        BY <2>3, <4>1 DEF HealthTicks
    <3>4. H!Insert(k) \/ H!InsertFails(k) => tick'[k] \in HealthTicks
      <4>1. H!Insert(k) \/ H!InsertFails(k) => tick'[k] = H!Idle
        BY <1>2, TickGoesOn
      <4> QED
        BY <4>1 DEF HealthTicks, H!Idle
    <3> QED
      BY <1>2, <3>1, <3>2, <3>3, <3>4 DEF TickStep
  <2>6. tick' \in [Ticks -> HealthTicks]
    <3>1. \E r : tick' = [tick EXCEPT ![k] = r]
      <4>1. H!StartTick(k) /\ exists = "no" => tick' = [tick EXCEPT ![k] = tick[k]]
        BY DEF H!StartTick, HealthTyped
      <4> QED
        BY <1>2, <4>1 DEF TickStep, HealthTyped, H!StartTick, H!Probe, H!Detect, H!Insert, H!InsertFails
    <3> QED
      BY <2>5, <3>1 DEF HealthTyped
  <2>7. events' \in Seq(H!Statuses)
    <3>1. H!Detect(k) => events' \in Seq(H!Statuses)
      <4>1. tick[k].got \in SUBSET Sampled
        BY <2>3 DEF HealthTicks
      <4>2. H!Overall(tick[k].got) \in H!Statuses \cup {"UNKNOWN"}
        BY <4>1, WorstIsAStatus
      <4> QED
        BY <4>2 DEF HealthTyped, H!Detect, H!DetectHealthTransition
    <3> QED
      BY <1>2, <3>1 DEF HealthTyped, TickStep, H!StartTick, H!Probe, H!Insert, H!InsertFails
  <2> QED
    BY <1>1, <2>1, <2>2, <2>4, <2>6, <2>7 DEF HealthTyped
<1>3. H!RollupReads => HealthTyped'
  <2>1. SUFFICES ASSUME H!RollupReads PROVE HealthTyped'
    OBVIOUS
  <2>2. now - RawKept \in Int
    BY DEF HealthTyped
  <2>3. H!RollupsSince(H!Since) \in [Hours -> Totals]
    BY <2>2, RollupsAreTotals DEF H!Since
  <2>4. roll' \in SUBSET [Hours -> Totals] /\ due' \in BOOLEAN
    BY <2>1, <2>3 DEF H!RollupReads, H!NoRows
  <2>5. UNCHANGED <<now, answer, exists, samples, rollups, tick, events>>
    BY <2>1 DEF H!RollupReads, H!world, H!stored
  <2> QED
    BY <1>1, <2>4, <2>5 DEF HealthTyped
<1>4. H!RollupWrites => HealthTyped'
  <2>1. SUFFICES ASSUME H!RollupWrites PROVE HealthTyped'
    OBVIOUS
  <2>2. PICK rows \in roll : rollups' = [i \in Hours |-> H!Upserted(rollups[i], rows[i])]
    BY <2>1 DEF H!RollupWrites, Hours
  <2>3. rows \in [Hours -> Totals] /\ rollups \in [Hours -> Totals]
    BY DEF HealthTyped
  <2>4. \A i \in Hours : H!Upserted(rollups[i], rows[i]) \in Totals
    BY <2>3 DEF H!Upserted
  <2>5. rollups' \in [Hours -> Totals]
    BY <2>2, <2>4
  <2>6. UNCHANGED <<now, answer, exists, samples, tick, events, due>> /\ roll' = {}
    BY <2>1 DEF H!RollupWrites, H!world, H!NoRows
  <2> QED
    BY <1>1, <2>5, <2>6 DEF HealthTyped
<1>5. H!Prune => HealthTyped'
  <2>1. SUFFICES ASSUME H!Prune PROVE HealthTyped'
    OBVIOUS
  <2>2. rollups' = [i \in Hours |-> IF i[2] * Hour < now - RollupKept THEN H!NoRow ELSE rollups[i]]
    BY <2>1 DEF H!Prune, Hours
  <2>3. H!NoRow \in Totals /\ \A i \in Hours : rollups[i] \in Totals
    BY DEF HealthTyped, H!NoRow, Totals
  <2>4. rollups' \in [Hours -> Totals]
    BY <2>2, <2>3
  <2>5. UNCHANGED <<now, answer, exists, roll, tick, events, due>> /\ samples' \subseteq samples
    BY <2>1 DEF H!Prune, H!world, H!rolling
  <2> QED
    BY <1>1, <2>4, <2>5 DEF HealthTyped
<1>6. H!StartDelete => HealthTyped'
  <2>1. SUFFICES ASSUME H!StartDelete PROVE HealthTyped'
    OBVIOUS
  <2>2. rollups' = [i \in Hours |-> H!NoRow] /\ samples' = {} /\ exists' = "deleting"
    BY <2>1 DEF H!StartDelete, H!ClearProjectHealth, Hours
  <2>3. H!NoRow \in Totals
    BY DEF H!NoRow, Totals
  <2>4. UNCHANGED <<now, answer, roll, tick, events, due>>
    BY <2>1 DEF H!StartDelete, H!rolling
  <2> QED
    BY <1>1, <2>2, <2>3, <2>4 DEF HealthTyped
<1>7. H!Delete => HealthTyped'
  BY <1>1 DEF H!Delete, HealthTyped, H!stored, H!rolling
<1>8. ASSUME NEW t \in Targets, NEW reply \in Answers, H!Change(t, reply) PROVE HealthTyped'
  <2>1. answer' \in [Targets -> H!Replies]
    BY <1>8 DEF H!Change, HealthTyped
  <2> QED
    BY <1>1, <1>8, <2>1 DEF H!Change, HealthTyped, H!stored, H!rolling
<1>9. H!Down => HealthTyped'
  <2>1. H!Down => now' \in 0..HealthTime /\ due' \in BOOLEAN
    <3>1. H!Down => now < HealthTime /\ now' = now + 1 /\ due' = FALSE
      BY DEF H!Down
    <3>2. now \in 0..HealthTime
      BY DEF HealthTyped
    <3>3. H!Down => now' \in 0..HealthTime
      BY <3>1, <3>2
    <3>4. H!Down => due' \in BOOLEAN
      BY <3>1
    <3> QED
      BY <3>3, <3>4
  <2> QED
    BY <1>1, <2>1 DEF H!Down, HealthTyped, H!stored
<1>10. H!Crash => HealthTyped'
  <2>1. H!Idle \in HealthTicks
    BY DEF H!Idle, HealthTicks
  <2> QED
    BY <1>1, <2>1 DEF H!Crash, HealthTyped, H!world, H!stored, H!NoRows
<1> QED
  BY <1>2, <1>3, <1>4, <1>5, <1>6, <1>7, <1>8, <1>9, <1>10, HealthSteps DEF HealthStep

\* A tick that runs is not idle.
LEMMA BusyRuns ==
    ASSUME OnceEach PROVE H!Busy <=> \E k \in Ticks : Runs(k)
BY DEF OnceEach, TickIsOwn, H!Busy, Runs, H!Idle

\* A tick that starts has an interval of its own.
LEMMA StartsOnce ==
    ASSUME HealthTyped, OnceEach, NEW k \in Ticks, H!StartTick(k) PROVE OnceEach'
<1>1. samples' = samples /\ now' = now + 1 /\ now \in Nat
  BY DEF H!StartTick, HealthTyped, H!stored
<1>2. ~Runs(k) /\ tick[k] = H!Idle /\ \A s \in samples : s.ts \in Nat
  BY DEF H!StartTick, H!Idle, Runs, HealthTyped, Sampled
<1>3. \A l \in Ticks : tick[l].ts \in Nat
  BY DEF HealthTyped, HealthTicks
<1>4. Distinct(samples)' /\ \A s \in samples' : s.ts <= now'
  BY <1>1, <1>2 DEF OnceEach, Distinct
<1>5. CASE exists = "no"
  <2>1. tick' = tick
    BY <1>5 DEF H!StartTick
  <2>2. ASSUME NEW l \in Ticks PROVE TickIsOwn(l)'
    BY <1>1, <1>3, <2>1 DEF OnceEach, TickIsOwn, Runs, Distinct
  <2> QED
    BY <1>4, <2>2 DEF OnceEach
<1>6. CASE exists # "no"
  <2>1. /\ tick'[k] = [pc |-> "probe", ts |-> now + 1, got |-> {}]
        /\ \A l \in Ticks \ {k} : tick'[l] = tick[l]
    BY <1>6, TickGoesOn DEF TickStep
  <2>2. tick'[k].pc = "probe" /\ tick'[k].ts = now + 1 /\ tick'[k].got = {}
    BY <2>1
  <2>3. \A l \in Ticks \ {k} : Runs(l)' => tick'[l].ts <= now /\ tick'[l].ts # now + 1
    BY <1>1, <1>3, <2>1 DEF OnceEach, TickIsOwn, Runs
  <2>4. TickIsOwn(k)'
    <3>1. \A s \in samples : s.ts # now + 1
      BY <1>1, <1>2 DEF OnceEach
    <3>2. \A l \in Ticks : Runs(k)' /\ Runs(l)' /\ tick'[k].ts = tick'[l].ts => k = l
      BY <2>2, <2>3
    <3> QED
      BY <1>1, <2>2, <3>1, <3>2 DEF TickIsOwn, Runs, Distinct
  <2>5. ASSUME NEW l \in Ticks \ {k} PROVE TickIsOwn(l)'
    <3>1. TickIsOwn(l) /\ tick'[l] = tick[l]
      BY <2>1 DEF OnceEach
    <3>2. \A m \in Ticks : Runs(l)' /\ Runs(m)' /\ tick'[l].ts = tick'[m].ts => l = m
      <4> TAKE m \in Ticks
      <4>1. CASE m = k
        BY <2>2, <2>3, <4>1
      <4>2. CASE m # k
        BY <2>1, <3>1, <4>2 DEF TickIsOwn, Runs
      <4> QED
        BY <4>1, <4>2
    <3>3. tick[l].ts <= now => tick[l].ts <= now + 1
      BY <1>1, <1>3
    <3> QED
      BY <1>1, <3>1, <3>2, <3>3 DEF TickIsOwn, Runs
  <2> QED
    BY <1>4, <2>4, <2>5 DEF OnceEach
<1> QED
  BY <1>5, <1>6

\* One that goes on keeps it.
LEMMA GoesOnOnce ==
    ASSUME HealthTyped, OnceEach, NEW k \in Ticks, H!Probe(k) \/ H!Detect(k) PROVE OnceEach'
<1>1. UNCHANGED <<samples, now>>
  BY DEF H!Probe, H!Detect, H!world, H!stored
<1>2. tick[k].ts \in 0..HealthTime
  BY DEF HealthTyped, HealthTicks
<1>8. TickStep(k)
  BY DEF TickStep
<1>9. H!Probe(k) => tick'[k] = [pc |-> "detect", ts |-> tick[k].ts, got |-> H!SampleProject(tick[k].ts)]
  BY <1>8, TickGoesOn
<1>10. H!Detect(k) => tick'[k] = [pc |-> "insert", ts |-> tick[k].ts, got |-> tick[k].got]
  BY <1>8, TickGoesOn
<1>3. Runs(k) /\ Runs(k)'
  BY <1>9, <1>10 DEF Runs, H!Probe, H!Detect
<1>4. tick'[k].ts = tick[k].ts /\ \A l \in Ticks \ {k} : tick'[l] = tick[l]
  BY <1>8, <1>9, <1>10, TickGoesOn
<1>5. Distinct(tick'[k].got) /\ \A s \in tick'[k].got : s.ts = tick[k].ts
  <2>1. CASE H!Probe(k)
    <3>1. tick'[k].got = H!SampleProject(tick[k].ts)
      BY <2>1, <1>9
    <3> QED
      BY <1>2, <3>1, SamplesOfTick
  <2>2. CASE H!Detect(k)
    <3>1. tick'[k].got = tick[k].got
      BY <2>2, <1>10
    <3> QED
      BY <3>1 DEF OnceEach, TickIsOwn
  <2> QED
    BY <2>1, <2>2
<1>6. \A l \in Ticks : (Runs(l)' <=> Runs(l)) /\ tick'[l].ts = tick[l].ts
  BY <1>3, <1>4 DEF Runs
<1>7. ASSUME NEW l \in Ticks PROVE TickIsOwn(l)'
  <2>1. TickIsOwn(l)
    BY DEF OnceEach
  <2>2. \A m \in Ticks : Runs(l)' /\ Runs(m)' /\ tick'[l].ts = tick'[m].ts => l = m
    BY <1>6, <2>1 DEF TickIsOwn
  <2>3. tick'[l].pc = "idle" => tick'[l] = H!Idle
    BY <1>3, <1>4, <2>1 DEF TickIsOwn, Runs
  <2>4. Runs(l)' => tick'[l].ts <= now' /\ \A s \in samples' : s.ts # tick'[l].ts
    BY <1>1, <1>6, <2>1 DEF TickIsOwn
  <2>5. Distinct(tick'[l].got) /\ \A s \in tick'[l].got : s.ts = tick'[l].ts
    BY <1>4, <1>5, <2>1 DEF TickIsOwn
  <2> QED
    BY <2>2, <2>3, <2>4, <2>5 DEF TickIsOwn, Distinct
<1> QED
  BY <1>1, <1>7 DEF OnceEach, Distinct

\* One that ends has stored its samples, or none.
LEMMA EndsOnce ==
    ASSUME HealthTyped, OnceEach, NEW k \in Ticks, H!Insert(k) \/ H!InsertFails(k) PROVE OnceEach'
<1>1. now' = now /\ Runs(k)
  BY DEF H!Insert, H!InsertFails, H!world, Runs
<1>2. tick'[k] = H!Idle /\ \A l \in Ticks \ {k} : tick'[l] = tick[l]
  BY TickGoesOn DEF TickStep
<1>3. samples \subseteq samples' /\ \A s \in samples' : s \in samples \/ s \in tick[k].got
  BY DEF H!Insert, H!InsertFails, H!stored
<1>4. TickIsOwn(k)
  BY DEF OnceEach
<1>5. Distinct(samples)'
  <2> SUFFICES ASSUME NEW s \in samples', NEW o \in samples', s.target = o.target, s.ts = o.ts PROVE s = o
    BY DEF Distinct
  <2>1. s \in samples /\ o \in samples => s = o
    BY DEF OnceEach, Distinct
  <2>2. s \in tick[k].got /\ o \in tick[k].got => s = o
    BY <1>4 DEF TickIsOwn, Distinct
  <2>3. s \in samples /\ o \in tick[k].got => FALSE
    BY <1>1, <1>4 DEF TickIsOwn
  <2>4. o \in samples /\ s \in tick[k].got => FALSE
    BY <1>1, <1>4 DEF TickIsOwn
  <2> QED
    BY <1>3, <2>1, <2>2, <2>3, <2>4
<1>6. \A s \in samples' : s.ts <= now
  BY <1>1, <1>3, <1>4 DEF OnceEach, TickIsOwn
<1>7. TickIsOwn(k)'
  BY <1>2 DEF TickIsOwn, Runs, H!Idle, Distinct
<1>8. ASSUME NEW l \in Ticks \ {k} PROVE TickIsOwn(l)'
  <2>1. TickIsOwn(l) /\ tick'[l] = tick[l]
    BY <1>2 DEF OnceEach
  <2>2. \A m \in Ticks : Runs(l)' /\ Runs(m)' /\ tick'[l].ts = tick'[m].ts => l = m
    <3>1. ~Runs(k)'
      BY <1>2 DEF Runs, H!Idle
    <3> QED
      BY <1>2, <2>1, <3>1 DEF TickIsOwn, Runs
  <2>3. Runs(l)' => \A s \in samples' : s.ts # tick'[l].ts
    <3>1. Runs(l) => tick[k].ts # tick[l].ts
      BY <1>1, <1>4 DEF TickIsOwn
    <3>2. \A s \in tick[k].got : s.ts = tick[k].ts
      BY <1>4 DEF TickIsOwn
    <3> QED
      BY <1>3, <2>1, <3>1, <3>2 DEF TickIsOwn, Runs
  <2> QED
    BY <1>1, <2>1, <2>2, <2>3 DEF TickIsOwn, Runs
<1> QED
  BY <1>1, <1>5, <1>6, <1>7, <1>8 DEF OnceEach

\* Every step keeps that a target has one sample of an interval.
LEMMA OnceEachPreserved ==
    ASSUME HealthTyped, OnceEach, H!Next PROVE OnceEach'
<1>1. ASSUME UNCHANGED tick, samples' \subseteq samples, now' \in {now, now + 1} PROVE OnceEach'
  <2>1. now \in Nat /\ (\A s \in samples : s.ts \in Nat) /\ \A k \in Ticks : tick[k].ts \in Nat
    BY DEF HealthTyped, Sampled, HealthTicks
  <2>2. Distinct(samples)' /\ \A s \in samples' : s.ts <= now'
    BY <1>1, <2>1 DEF OnceEach, Distinct
  <2>3. ASSUME NEW k \in Ticks PROVE TickIsOwn(k)'
    <3>1. TickIsOwn(k) /\ (tick[k].ts <= now => tick[k].ts <= now')
      BY <1>1, <2>1 DEF OnceEach
    <3> QED
      BY <1>1, <3>1 DEF TickIsOwn, Runs, Distinct
  <2> QED
    BY <2>2, <2>3 DEF OnceEach
<1>2. ASSUME NEW k \in Ticks, TickStep(k) PROVE OnceEach'
  BY <1>2, StartsOnce, GoesOnOnce, EndsOnce DEF TickStep
<1>3. ASSUME H!RollupReads \/ H!RollupWrites \/ H!Prune \/ H!StartDelete \/ H!Delete \/ H!Down
      PROVE  UNCHANGED tick /\ samples' \subseteq samples /\ now' \in {now, now + 1}
  BY <1>3 DEF H!RollupReads, H!RollupWrites, H!Prune, H!StartDelete, H!ClearProjectHealth, H!Delete, H!Down,
              H!world, H!stored
<1>4. ASSUME NEW t, NEW reply, H!Change(t, reply)
      PROVE  UNCHANGED tick /\ samples' \subseteq samples /\ now' \in {now, now + 1}
  BY <1>4 DEF H!Change, H!stored
<1>5. H!Crash => OnceEach'
  <2> SUFFICES ASSUME H!Crash PROVE OnceEach'
    OBVIOUS
  <2>1. UNCHANGED <<now, samples>> /\ \A k \in Ticks : tick'[k] = H!Idle
    BY DEF H!Crash, H!world, H!stored
  <2>2. \A k \in Ticks : TickIsOwn(k)'
    BY <2>1 DEF TickIsOwn, Runs, H!Idle, Distinct
  <2> QED
    BY <2>1, <2>2 DEF OnceEach, Distinct
<1> QED
  BY <1>1, <1>2, <1>3, <1>4, <1>5, HealthSteps DEF HealthStep

\* Ticks that have never overlapped are of the interval there is.
LEMMA TurnsPreserved ==
    ASSUME HealthTyped, OnceEach, TicksTakeTurns, H!Next PROVE TicksTakeTurns'
<1> SUFFICES ASSUME H!Never({"overlap"})'
             PROVE  (\A k \in Ticks : Runs(k) => tick[k].ts = now /\ \A l \in Ticks : Runs(l) => l = k)'
  BY DEF TicksTakeTurns
<1>1. used \in [H!Kinds -> Nat] /\ {"overlap"} \in SUBSET H!Kinds
  BY DEF HealthTyped, H!Kinds
<1>2. \A k \in Ticks : Runs(k) => tick[k].ts = now /\ \A l \in Ticks : Runs(l) => l = k
  BY <1>1, HealthCounts DEF TicksTakeTurns
<1>3. ASSUME NEW k \in Ticks, H!StartTick(k)
      PROVE  \A m \in Ticks : Runs(m)' => tick'[m].ts = now' /\ \A l \in Ticks : Runs(l)' => l = m
  <2>1. ~H!Busy
    <3> DEFINE kinds == (IF H!Busy THEN {"overlap"} ELSE {}) \union (IF exists = "deleting" THEN {"during"} ELSE {})
    <3>1. kinds \in SUBSET H!Kinds /\ H!Uses(kinds)
      BY <1>3 DEF H!StartTick, H!Kinds
    <3>2. "overlap" \in kinds => used'["overlap"] = used["overlap"] + 1 /\ used["overlap"] \in Nat
      <4> HIDE DEF kinds
      <4> QED
        BY <1>1, <3>1, HealthEvents
    <3>3. used'["overlap"] = 0
      BY DEF H!Never
    <3> QED
      BY <3>2, <3>3
  <2>2. \A m \in Ticks : ~Runs(m)
    BY <2>1, BusyRuns
  <2>3. now' = now + 1 /\ \A l \in Ticks \ {k} : tick'[l] = tick[l]
    BY <1>3, TickGoesOn DEF TickStep, H!StartTick
  <2>4. tick'[k] = tick[k] \/ tick'[k] = [pc |-> "probe", ts |-> now + 1, got |-> {}]
    BY <1>3, TickGoesOn DEF TickStep
  <2>5. tick'[k] = tick[k] \/ tick'[k].ts = now + 1
    BY <2>4
  <2> QED
    BY <2>2, <2>3, <2>5 DEF Runs
<1>4. ASSUME NEW k \in Ticks, TickStep(k), ~H!StartTick(k)
      PROVE  \A m \in Ticks : Runs(m)' => tick'[m].ts = now' /\ \A l \in Ticks : Runs(l)' => l = m
  <2>1. now' = now /\ Runs(k)
    BY <1>4 DEF TickStep, H!Probe, H!Detect, H!Insert, H!InsertFails, H!world, Runs
  <2>2. \A l \in Ticks \ {k} : tick'[l] = tick[l]
    BY <1>4, TickGoesOn
  <2>3. Runs(k)' => tick'[k].ts = tick[k].ts
    <3>1. \/ tick'[k] = [pc |-> "detect", ts |-> tick[k].ts, got |-> H!SampleProject(tick[k].ts)]
          \/ tick'[k] = [pc |-> "insert", ts |-> tick[k].ts, got |-> tick[k].got]
          \/ tick'[k] = H!Idle
      BY <1>4, TickGoesOn DEF TickStep
    <3> QED
      BY <3>1 DEF Runs, H!Idle
  <2> QED
    BY <1>2, <2>1, <2>2, <2>3 DEF Runs
<1>5. H!Down \/ H!Crash => \A k \in Ticks : ~Runs(k)'
  <2>1. H!Down => \A k \in Ticks : ~Runs(k)'
    BY BusyRuns DEF H!Down, Runs
  <2>2. H!Crash => \A k \in Ticks : ~Runs(k)'
    BY DEF H!Crash, Runs, H!Idle
  <2> QED
    BY <2>1, <2>2
<1>6. H!RollupReads \/ H!RollupWrites \/ H!Prune \/ H!StartDelete \/ H!Delete => UNCHANGED <<now, tick>>
  BY DEF H!RollupReads, H!RollupWrites, H!Prune, H!StartDelete, H!Delete, H!world
<1>7. ASSUME NEW t, NEW reply, H!Change(t, reply) PROVE UNCHANGED <<now, tick>>
  BY <1>7 DEF H!Change
<1>8. UNCHANGED <<now, tick>> => \A m \in Ticks : Runs(m)' => tick'[m].ts = now' /\ \A l \in Ticks : Runs(l)' => l = m
  BY <1>2 DEF Runs
<1> QED
  BY <1>3, <1>4, <1>5, <1>6, <1>7, <1>8, HealthSteps DEF HealthStep

\* Nothing of a project that is deleted is left, or comes back, until a job runs beside
\* its deletion.
NothingIsLeft ==
    /\ samples = {} /\ roll = {} /\ (\A k \in Ticks : ~Runs(k))
    /\ \A i \in Hours : rollups[i] = H!NoRow
LEMMA DiesPreserved ==
    ASSUME HealthTyped, OnceEach, DiesWithProject, H!Next PROVE DiesWithProject'
<1> SUFFICES ASSUME H!Never({"during"})', exists' # "yes" PROVE NothingIsLeft'
  BY DEF DiesWithProject, NothingIsLeft
<1>1. used \in [H!Kinds -> Nat] /\ {"during"} \in SUBSET H!Kinds
  BY DEF HealthTyped, H!Kinds
<1>2. exists # "yes" => NothingIsLeft
  BY <1>1, HealthCounts DEF DiesWithProject, NothingIsLeft
<1>3. ASSUME NEW kinds \in SUBSET H!Kinds, H!Uses(kinds) PROVE "during" \notin kinds
  <2>1. "during" \in kinds => used'["during"] = used["during"] + 1 /\ used["during"] \in Nat
    BY <1>1, <1>3, HealthEvents
  <2>2. used'["during"] = 0
    BY DEF H!Never
  <2> QED
    BY <2>1, <2>2
<1>4. ASSUME NEW k \in Ticks, H!StartTick(k) PROVE NothingIsLeft'
  <2>1. exists # "deleting"
    <3> DEFINE kinds == (IF H!Busy THEN {"overlap"} ELSE {}) \union (IF exists = "deleting" THEN {"during"} ELSE {})
    <3>1. kinds \in SUBSET H!Kinds /\ H!Uses(kinds)
      BY <1>4 DEF H!StartTick, H!Kinds
    <3>2. "during" \notin kinds
      <4> HIDE DEF kinds
      <4> QED
        BY <1>3, <3>1
    <3> QED
      BY <3>2
  <2>2. exists = "no" /\ UNCHANGED <<samples, roll, rollups>>
    BY <1>4, <2>1 DEF H!StartTick, H!stored, HealthTyped
  <2>3. tick' = tick
    BY <1>4, <2>2 DEF H!StartTick
  <2> QED
    BY <1>2, <2>2, <2>3 DEF NothingIsLeft, Runs
<1>5. ASSUME NEW k \in Ticks, TickStep(k), ~H!StartTick(k) PROVE FALSE
  <2>1. Runs(k) /\ exists' = exists
    BY <1>5 DEF TickStep, H!Probe, H!Detect, H!Insert, H!InsertFails, H!world, Runs
  <2> QED
    BY <1>2, <2>1 DEF NothingIsLeft
<1>6. H!RollupReads => NothingIsLeft'
  <2> SUFFICES ASSUME H!RollupReads PROVE NothingIsLeft'
    OBVIOUS
  <2>1. UNCHANGED <<exists, samples, rollups, tick>>
    BY DEF H!RollupReads, H!world, H!stored
  <2>2. exists # "deleting"
    <3> DEFINE kinds == IF exists = "deleting" THEN {"during"} ELSE {}
    <3>1. kinds \in SUBSET H!Kinds /\ H!Uses(kinds)
      BY DEF H!RollupReads, H!Kinds
    <3>2. "during" \notin kinds
      <4> HIDE DEF kinds
      <4> QED
        BY <1>3, <3>1
    <3> QED
      BY <3>2
  <2>3. exists = "no" /\ roll' = {}
    BY <2>1, <2>2 DEF H!RollupReads, H!NoRows, HealthTyped
  <2> QED
    BY <1>2, <2>1, <2>3 DEF NothingIsLeft, Runs
<1>7. ~H!RollupWrites
  BY <1>2 DEF H!RollupWrites, H!world, NothingIsLeft
<1>8. H!Prune => NothingIsLeft'
  <2> SUFFICES ASSUME H!Prune PROVE NothingIsLeft'
    OBVIOUS
  <2>1. UNCHANGED <<exists, roll, tick>> /\ samples' \subseteq samples
    BY DEF H!Prune, H!world, H!rolling
  <2>2. \A i \in Hours : rollups'[i] \in {H!NoRow, rollups[i]}
    BY DEF H!Prune, Hours
  <2> QED
    BY <1>2, <2>1, <2>2 DEF NothingIsLeft, Runs
<1>9. H!StartDelete => NothingIsLeft'
  <2> SUFFICES ASSUME H!StartDelete PROVE NothingIsLeft'
    OBVIOUS
  <2>1. samples' = {} /\ UNCHANGED <<roll, tick>> /\ \A i \in Hours : rollups'[i] = H!NoRow
    BY DEF H!StartDelete, H!ClearProjectHealth, H!rolling, Hours
  <2>2. ~(H!Busy \/ roll # {})
    <3> DEFINE kinds == {"delete"} \union (IF H!Busy \/ roll # {} THEN {"during"} ELSE {})
    <3>1. kinds \in SUBSET H!Kinds /\ H!Uses(kinds)
      BY DEF H!StartDelete, H!Kinds, H!NoRows
    <3>2. "during" \notin kinds
      <4> HIDE DEF kinds
      <4> QED
        BY <1>3, <3>1
    <3> QED
      BY <3>2
  <2> QED
    BY <2>1, <2>2, BusyRuns DEF NothingIsLeft, Runs
<1>10. H!Delete => NothingIsLeft'
  BY <1>2 DEF H!Delete, NothingIsLeft, H!stored, H!rolling, Runs
<1>11. ASSUME NEW t, NEW reply, H!Change(t, reply) PROVE NothingIsLeft'
  BY <1>2, <1>11 DEF H!Change, NothingIsLeft, H!stored, H!rolling, Runs
<1>12. H!Down => NothingIsLeft'
  BY <1>2 DEF H!Down, NothingIsLeft, H!stored, H!rolling, Runs
<1>13. H!Crash => NothingIsLeft'
  <2>1. H!Crash => UNCHANGED <<exists, samples, rollups>> /\ roll' = {} /\ \A k \in Ticks : tick'[k] = H!Idle
    BY DEF H!Crash, H!world, H!stored, H!NoRows
  <2> QED
    BY <1>2, <2>1 DEF NothingIsLeft, Runs, H!Idle
<1> QED
  BY <1>4, <1>5, <1>6, <1>7, <1>8, <1>9, <1>10, <1>11, <1>12, <1>13, HealthSteps DEF HealthStep

\* No project and no target goes unless it is removed.
LEMMA NothingGoesPreserved ==
    ASSUME HealthTyped, NothingGoes, H!Next PROVE NothingGoes'
<1>1. used \in [H!Kinds -> Nat] /\ {"delete"} \in SUBSET H!Kinds /\ {"gone"} \in SUBSET H!Kinds
  BY DEF HealthTyped, H!Kinds
<1>2. ASSUME NEW kinds \in SUBSET H!Kinds, H!Uses(kinds), NEW K \in kinds PROVE ~H!Never({K})'
  BY <1>1, <1>2, HealthEvents DEF H!Never
<1>3. H!Never({"delete"})' => exists = "yes"
  BY <1>1, HealthCounts DEF NothingGoes
<1>4. H!Never({"gone"})' => \A t \in Targets : answer[t] # "gone"
  BY <1>1, HealthCounts DEF NothingGoes
<1>5. ASSUME H!StartDelete PROVE ~H!Never({"delete"})' /\ UNCHANGED answer
  <2> DEFINE kinds == {"delete"} \union (IF H!Busy \/ roll # H!NoRows THEN {"during"} ELSE {})
  <2>1. kinds \in SUBSET H!Kinds /\ H!Uses(kinds) /\ "delete" \in kinds
    BY <1>5 DEF H!StartDelete, H!Kinds
  <2>2. ~H!Never({"delete"})'
    <3> HIDE DEF kinds
    <3> QED
      BY <1>2, <2>1
  <2> QED
    BY <1>5, <2>2 DEF H!StartDelete
<1>6. ASSUME NEW t \in Targets, NEW reply \in Answers, H!Change(t, reply), H!Never({"gone"})'
      PROVE  UNCHANGED exists /\ \A u \in Targets : answer'[u] # "gone"
  <2>1. H!Uses({"gone"}) => FALSE
    BY <1>1, <1>2, <1>6
  <2>2. reply # "gone" /\ answer' = [answer EXCEPT ![t] = reply] /\ UNCHANGED exists
    BY <1>6, <2>1 DEF H!Change
  <2> QED
    BY <1>4, <1>6, <2>2 DEF HealthTyped
<1>7. ASSUME NEW t \in Targets, NEW reply \in Answers, H!Change(t, reply) PROVE UNCHANGED exists
  BY <1>7 DEF H!Change
<1>8. ASSUME NEW k \in Ticks, TickStep(k) PROVE UNCHANGED <<exists, answer>>
  BY <1>8 DEF TickStep, H!StartTick, H!Probe, H!Detect, H!Insert, H!InsertFails, H!world
<1>9. H!RollupReads \/ H!RollupWrites \/ H!Prune \/ H!Down \/ H!Crash => UNCHANGED <<exists, answer>>
  BY DEF H!RollupReads, H!RollupWrites, H!Prune, H!Down, H!Crash, H!world
<1>10. H!Delete => exists # "yes" /\ UNCHANGED answer
  BY DEF H!Delete
<1>11. H!Never({"delete"})' => exists' = "yes"
  BY <1>3, <1>5, <1>7, <1>8, <1>9, <1>10, HealthSteps DEF HealthStep
<1>12. H!Never({"gone"})' => \A t \in Targets : answer'[t] # "gone"
  BY <1>4, <1>5, <1>6, <1>8, <1>9, <1>10, HealthSteps DEF HealthStep
<1> QED
  BY <1>11, <1>12 DEF NothingGoes

-----------------------------------------------------------------------------
(* Health: hours are measured, and rolled up before their samples go.      *)

\* The hour that runs is not closed.
LEMMA HoursClose ==
    ASSUME HealthTyped, HealthTyped', NEW b \in H!Buckets
    PROVE  /\ now' >= now => (H!Closed(b) => H!Closed(b)')
           /\ now' = now => (H!Closed(b)' <=> H!Closed(b))
           /\ now' >= now => (Within(b)' => Within(b))
           /\ now' = now => (Within(b)' <=> Within(b))
           /\ Within(b) <=> b * Hour >= now - RawKept
           /\ H!Closed(b) <=> b < H!BucketOf(now)
<1>1. now \in Nat /\ now' \in Nat /\ b \in Nat /\ b * Hour \in Nat
  BY DEF HealthTyped, H!Buckets
<1>2. H!BucketOf(now) \in Nat /\ H!BucketOf(now') \in Nat
  BY <1>1, HourOf
<1>3. now' >= now => H!BucketOf(now) <= H!BucketOf(now')
  BY <1>1, HoursPass
<1>4. (H!Closed(b) <=> b < H!BucketOf(now)) /\ (H!Closed(b)' <=> b < H!BucketOf(now'))
  BY DEF H!Closed, H!CurrentBucket, H!BucketOf
<1>5. (Within(b) <=> b * Hour >= now - RawKept) /\ (Within(b)' <=> b * Hour >= now' - RawKept)
  BY DEF Within
<1>6. /\ now' >= now => (H!Closed(b) => H!Closed(b)')
      /\ now' = now => (H!Closed(b)' <=> H!Closed(b))
  BY <1>1, <1>2, <1>3, <1>4
<1>7. /\ now' >= now => (Within(b)' => Within(b))
      /\ now' = now => (Within(b)' <=> Within(b))
  <2> DEFINE start == b * Hour
  <2>1. start \in Nat /\ (Within(b) <=> start >= now - RawKept) /\ (Within(b)' <=> start >= now' - RawKept)
    BY <1>1, <1>5
  <2>2. now' >= now /\ start >= now' - RawKept => start >= now - RawKept
    <3>1. \A m, n \in Nat, c \in Nat : n >= m /\ c >= n - RawKept => c >= m - RawKept
      OBVIOUS
    <3>2. now \in Nat /\ now' \in Nat /\ start \in Nat
      BY <1>1
    <3> HIDE DEF start
    <3> QED
      BY <3>1, <3>2
  <2>3. now' >= now => (Within(b)' => Within(b))
    BY <1>5, <2>2
  <2>4. now' = now => (Within(b)' <=> Within(b))
    BY <1>5
  <2> QED
    BY <2>3, <2>4
<1> QED
  BY <1>4, <1>5, <1>6, <1>7



\* It stays so while the rows do, and the samples of an hour that is kept, whatever the clock.
LEMMA MeasuredStays ==
    ASSUME HealthTyped, HealthTyped', NEW t \in Targets, NEW b \in H!Buckets, now' = now \/ roll' = {}, now' >= now,
           rollups'[<<t, b>>] = rollups[<<t, b>>] \/ rollups'[<<t, b>>].total = 0, roll' = roll \/ roll' = {},
           H!Closed(b) /\ Within(b)' => H!SamplesOf(t, b)' = H!SamplesOf(t, b)
    PROVE  /\ RowIsMeasured(t, b) => RowIsMeasured(t, b)'
           /\ RollIsMeasured(t, b) => RollIsMeasured(t, b)'
<1>1. /\ H!Closed(b) => H!Closed(b)'
      /\ now' = now => (H!Closed(b)' <=> H!Closed(b))
      /\ Within(b)' => Within(b)
  BY HoursClose
<1>2. H!Closed(b) /\ Within(b)' => H!RowOf(H!SamplesOf(t, b))' = H!RowOf(H!SamplesOf(t, b))
  BY CardinalityIsOne DEF H!RowOf
<1>3. rollups[<<t, b>>].total \in Nat
  BY DEF HealthTyped, Hours, Totals
<1>4. ASSUME RowIsMeasured(t, b) PROVE RowIsMeasured(t, b)'
  <2>1. H!Closed(b)' /\ Within(b)' /\ rollups'[<<t, b>>].total > 0 =>
          rollups'[<<t, b>>] = H!RowOf(H!SamplesOf(t, b))'
    BY <1>1, <1>2, <1>3, <1>4 DEF RowIsMeasured
  <2>2. ~H!Closed(b)' => rollups'[<<t, b>>].total = 0
    BY <1>1, <1>4 DEF RowIsMeasured
  <2> QED
    BY <2>1, <2>2 DEF RowIsMeasured
<1>5. ASSUME RollIsMeasured(t, b) PROVE RollIsMeasured(t, b)'
  <2>1. ASSUME NEW rows \in roll', H!Closed(b)', Within(b)'
        PROVE  rows[<<t, b>>] = H!RowOf(H!SamplesOf(t, b))'
    BY <1>1, <1>2, <1>5, <2>1 DEF RollIsMeasured
  <2>2. ASSUME NEW rows \in roll', ~H!Closed(b)' PROVE rows[<<t, b>>].total = 0
    BY <1>1, <1>5, <2>2 DEF RollIsMeasured
  <2> QED
    BY <2>1, <2>2 DEF RollIsMeasured
<1> QED
  BY <1>4, <1>5

\* Between rollups the clock goes on, and rows only go.
LEMMA RowsOnlyGo ==
    ASSUME HealthTyped, H!Next, ~H!RollupReads, ~H!RollupWrites, NEW t \in Targets, NEW b \in H!Buckets
    PROVE  /\ now' >= now /\ (now' = now \/ roll' = {}) /\ (roll' = roll \/ roll' = {})
           /\ rollups'[<<t, b>>] = rollups[<<t, b>>] \/ rollups'[<<t, b>>].total = 0
<1>1. /\ now' >= now /\ (now' = now \/ roll' = {}) /\ (roll' = roll \/ roll' = {})
  <2>1. now \in Nat
    BY DEF HealthTyped
  <2>2. ASSUME NEW k \in Ticks, H!StartTick(k) PROVE now' = now + 1 /\ roll' = {}
    BY <2>2 DEF H!StartTick, H!NoRows
  <2>3. ASSUME NEW k \in Ticks, TickStep(k), ~H!StartTick(k) PROVE now' = now /\ roll' = roll
    BY <2>3 DEF TickStep, H!Probe, H!Detect, H!Insert, H!InsertFails, H!world, H!rolling
  <2>4. H!Prune \/ H!StartDelete \/ H!Delete => now' = now /\ roll' = roll
    BY DEF H!Prune, H!StartDelete, H!Delete, H!world, H!rolling
  <2>5. ASSUME NEW u, NEW reply, H!Change(u, reply) PROVE now' = now /\ roll' = roll
    BY <2>5 DEF H!Change, H!rolling
  <2>6. H!Down => now' = now + 1 /\ roll' = {}
    BY DEF H!Down, H!NoRows
  <2>7. H!Crash => now' = now /\ roll' = {}
    BY DEF H!Crash, H!NoRows, H!world
  <2> QED
    BY <2>1, <2>2, <2>3, <2>4, <2>5, <2>6, <2>7, HealthSteps DEF HealthStep
<1>2. rollups'[<<t, b>>] = rollups[<<t, b>>] \/ rollups'[<<t, b>>].total = 0
  <2>1. <<t, b>> \in Hours
    BY DEF Hours
  <2>2. ASSUME NEW k \in Ticks, TickStep(k) PROVE rollups' = rollups
    BY <2>2 DEF TickStep, H!StartTick, H!Probe, H!Detect, H!Insert, H!InsertFails, H!stored
  <2>3. H!Prune => rollups'[<<t, b>>] \in {H!NoRow, rollups[<<t, b>>]}
    BY <2>1 DEF H!Prune, Hours
  <2>4. H!StartDelete => rollups'[<<t, b>>] = H!NoRow
    BY <2>1 DEF H!StartDelete, H!ClearProjectHealth, Hours
  <2>5. ASSUME NEW u, NEW reply, H!Change(u, reply) PROVE rollups' = rollups
    BY <2>5 DEF H!Change, H!stored
  <2>6. H!Delete \/ H!Down \/ H!Crash => rollups' = rollups
    BY DEF H!Delete, H!Down, H!Crash, H!stored
  <2>7. H!NoRow.total = 0
    BY DEF H!NoRow
  <2> QED
    BY <2>2, <2>3, <2>4, <2>5, <2>6, <2>7, HealthSteps DEF HealthStep
<1> QED
  BY <1>1, <1>2

\* Samples that are stored are of the hour that runs, and those pruned too old to matter.
LEMMA SamplesMove ==
    ASSUME HealthTyped, HealthTyped', OnceEach, TicksTakeTurns, H!Never({"overlap"}), H!Next,
           NEW t \in Targets, NEW b \in H!Buckets, exists' = exists \/ ~H!StartDelete
    PROVE  H!Closed(b) /\ Within(b)' => H!SamplesOf(t, b)' = H!SamplesOf(t, b)
<1> SUFFICES ASSUME H!Closed(b), Within(b)' PROVE H!SamplesOf(t, b)' = H!SamplesOf(t, b)
  OBVIOUS
<1>1. H!SamplesOf(t, b)' = {s \in samples' : s.target = t /\ H!BucketOf(s.ts) = b}
  BY DEF H!SamplesOf, H!BucketOf
<1>2. ASSUME NEW k \in Ticks, H!Insert(k) PROVE H!SamplesOf(t, b)' = H!SamplesOf(t, b)
  <2>1. samples' = samples \cup tick[k].got /\ Runs(k)
    BY <1>2 DEF H!Insert, Runs
  <2>2. \A s \in tick[k].got : s.ts = now
    BY <2>1 DEF TicksTakeTurns, OnceEach, TickIsOwn
  <2>3. H!BucketOf(now) # b
    <3>1. b < H!BucketOf(now) /\ b \in Int /\ now \in Nat
      BY HoursClose DEF H!Buckets, HealthTyped
    <3> QED
      BY <3>1, HourOf
  <2>4. \A s \in samples' : H!BucketOf(s.ts) = b => s \in samples
    BY <2>1, <2>2, <2>3
  <2> QED
    BY <1>1, <2>1, <2>4 DEF H!SamplesOf
<1>3. H!Prune => H!SamplesOf(t, b)' = H!SamplesOf(t, b)
  <2> SUFFICES ASSUME H!Prune PROVE H!SamplesOf(t, b)' = H!SamplesOf(t, b)
    OBVIOUS
  <2>1. samples' = {s \in samples : s.ts >= now - RawKept} /\ now' = now
    BY DEF H!Prune, H!world
  <2>2. b * Hour >= now - RawKept /\ b * Hour \in Int /\ now \in Nat
    BY <2>1, HoursClose DEF HealthTyped, H!Buckets
  <2>3. ASSUME NEW s \in samples, H!BucketOf(s.ts) = b PROVE s \in samples'
    <3>1. s.ts \in Nat
      BY DEF HealthTyped, Sampled
    <3>2. b * Hour <= s.ts
      BY <2>3, <3>1, HourOf
    <3>3. s.ts >= now - RawKept
      <4> DEFINE start == b * Hour
      <4>1. start \in Int /\ start >= now - RawKept /\ start <= s.ts
        BY <2>2, <3>2
      <4> HIDE DEF start
      <4> QED
        BY <2>2, <3>1, <4>1
    <3> QED
      BY <2>1, <3>3
  <2> QED
    BY <1>1, <2>1, <2>3 DEF H!SamplesOf
<1>4. ASSUME UNCHANGED samples PROVE H!SamplesOf(t, b)' = H!SamplesOf(t, b)
  BY <1>1, <1>4 DEF H!SamplesOf
<1>5. ASSUME NEW k \in Ticks, TickStep(k), ~H!Insert(k) PROVE UNCHANGED samples
  BY <1>5 DEF TickStep, H!StartTick, H!Probe, H!Detect, H!InsertFails, H!stored
<1>6. H!RollupReads \/ H!RollupWrites \/ H!Delete \/ H!Down \/ H!Crash => UNCHANGED samples
  BY DEF H!RollupReads, H!RollupWrites, H!Delete, H!Down, H!Crash, H!stored
<1>7. ASSUME NEW u, NEW reply, H!Change(u, reply) PROVE UNCHANGED samples
  BY <1>7 DEF H!Change, H!stored
<1>8. ~H!StartDelete
  BY DEF H!StartDelete
<1> QED
  BY <1>2, <1>3, <1>4, <1>5, <1>6, <1>7, <1>8, HealthSteps DEF HealthStep

\* What a rollup computes is what is stored of an hour that is kept.
LEMMA RollupMeasures ==
    ASSUME HealthTyped, HealthTyped', OnceEach, H!RollupReads, NEW t \in Targets, NEW b \in H!Buckets
    PROVE  RollIsMeasured(t, b)'
<1>1. UNCHANGED <<now, samples>>
  BY DEF H!RollupReads, H!world, H!stored
<1>2. SUFFICES ASSUME NEW rows \in roll'
               PROVE  IF H!Closed(b) THEN Within(b) => rows[<<t, b>>] = H!RowOf(H!SamplesOf(t, b))
                      ELSE rows[<<t, b>>].total = 0
  <2>1. (H!Closed(b)' <=> H!Closed(b)) /\ (Within(b)' <=> Within(b))
    BY <1>1, HoursClose
  <2>2. H!RowOf(H!SamplesOf(t, b))' = H!RowOf(H!SamplesOf(t, b))
    BY <1>1, CardinalityIsOne DEF H!RowOf, H!SamplesOf, H!BucketOf
  <2> QED
    BY <2>1, <2>2 DEF RollIsMeasured
<1>3. rows = H!RollupsSince(H!Since)
  BY DEF H!RollupReads, H!NoRows
<1>4. H!Since \in Int /\ now \in Nat
  BY DEF H!Since, HealthTyped
<1>5. rows[<<t, b>>] = IF H!Closed(b) THEN H!RowOf({s \in H!SamplesOf(t, b) : s.ts >= H!Since}) ELSE H!NoRow
  BY <1>3, <1>4, RollupsAreTotals
<1>6. ASSUME Within(b) PROVE {s \in H!SamplesOf(t, b) : s.ts >= H!Since} = H!SamplesOf(t, b)
  <2> SUFFICES ASSUME NEW s \in H!SamplesOf(t, b) PROVE s.ts >= H!Since
    OBVIOUS
  <2>1. s \in samples /\ H!BucketOf(s.ts) = b
    BY DEF H!SamplesOf
  <2>2. s.ts \in Nat /\ b \in Nat
    BY <2>1 DEF HealthTyped, Sampled, H!Buckets
  <2>3. b * Hour <= s.ts
    BY <2>1, <2>2, HourOf
  <2>4. b * Hour >= H!Since /\ b * Hour \in Int
    BY <1>6, <2>2 DEF Within, H!Since
  <2> DEFINE start == b * Hour
  <2>5. start \in Int /\ start <= s.ts /\ start >= H!Since
    BY <2>3, <2>4
  <2> HIDE DEF start
  <2> QED
    BY <1>4, <2>2, <2>5
<1>7. H!NoRow.total = 0
  BY DEF H!NoRow
<1> QED
  BY <1>5, <1>6, <1>7

\* A row is replaced by that of the rollup, if that counts any.
LEMMA WritesMeasure ==
    ASSUME HealthTyped, HealthTyped', H!RollupWrites, NEW t \in Targets, NEW b \in H!Buckets,
           RowIsMeasured(t, b), RollIsMeasured(t, b)
    PROVE  RowIsMeasured(t, b)' /\ RollIsMeasured(t, b)'
<1>1. UNCHANGED <<now, samples>> /\ roll' = {}
  BY DEF H!RollupWrites, H!world, H!NoRows
<1>2. PICK rows \in roll : rollups' = [i \in Hours |-> H!Upserted(rollups[i], rows[i])]
  BY DEF H!RollupWrites, Hours
<1>3. rollups'[<<t, b>>] = IF rows[<<t, b>>].total > 0 THEN rows[<<t, b>>] ELSE rollups[<<t, b>>]
  BY <1>2 DEF Hours, H!Upserted
<1>4. (H!Closed(b)' <=> H!Closed(b)) /\ (Within(b)' <=> Within(b))
  BY <1>1, HoursClose
<1>5. H!RowOf(H!SamplesOf(t, b))' = H!RowOf(H!SamplesOf(t, b))
  BY <1>1, CardinalityIsOne DEF H!RowOf, H!SamplesOf, H!BucketOf
<1>6. RollIsMeasured(t, b)'
  BY <1>1 DEF RollIsMeasured
<1>7. CASE H!Closed(b) /\ Within(b)
  <2>1. rows[<<t, b>>] = H!RowOf(H!SamplesOf(t, b))
    BY <1>7 DEF RollIsMeasured
  <2>2. rollups'[<<t, b>>].total > 0 => rollups'[<<t, b>>] = H!RowOf(H!SamplesOf(t, b))
    BY <1>3, <1>7, <2>1 DEF RowIsMeasured
  <2> QED
    BY <1>4, <1>5, <1>6, <1>7, <2>2 DEF RowIsMeasured
<1>8. CASE ~H!Closed(b)
  <2>1. rollups'[<<t, b>>].total = 0
    BY <1>3, <1>8 DEF RowIsMeasured, RollIsMeasured
  <2> QED
    BY <1>4, <1>6, <1>8, <2>1 DEF RowIsMeasured
<1>9. CASE H!Closed(b) /\ ~Within(b)
  BY <1>4, <1>6, <1>9 DEF RowIsMeasured
<1> QED
  BY <1>7, <1>8, <1>9

\* Every step keeps that an hour is that of its samples.
LEMMA MeasuredPreserved ==
    ASSUME HealthTyped, HealthTyped', OnceEach, TicksTakeTurns, Measured, H!Next PROVE Measured'
<1> SUFFICES ASSUME H!Never({"overlap", "during"})', NEW t \in Targets, NEW b \in H!Buckets
             PROVE  RowIsMeasured(t, b)' /\ RollIsMeasured(t, b)'
  BY DEF Measured
<1>1. used \in [H!Kinds -> Nat] /\ {"overlap", "during"} \in SUBSET H!Kinds
  BY DEF HealthTyped, H!Kinds
<1>2. H!Never({"overlap", "during"}) /\ H!Never({"overlap"})
  <2>1. H!Never({"overlap", "during"})
    BY <1>1, HealthCounts
  <2> QED
    BY <2>1 DEF H!Never
<1>3. RowIsMeasured(t, b) /\ RollIsMeasured(t, b)
  BY <1>2 DEF Measured
<1>4. <<t, b>> \in Hours
  BY DEF Hours
<1>5. CASE H!RollupReads
  <2>1. UNCHANGED <<now, samples, rollups>>
    BY <1>5 DEF H!RollupReads, H!world, H!stored
  <2>2. (H!Closed(b)' <=> H!Closed(b)) /\ (Within(b)' <=> Within(b))
    BY <2>1, HoursClose
  <2>3. H!RowOf(H!SamplesOf(t, b))' = H!RowOf(H!SamplesOf(t, b))
    BY <2>1, CardinalityIsOne DEF H!RowOf, H!SamplesOf, H!BucketOf
  <2>4. RowIsMeasured(t, b)'
    BY <1>3, <2>1, <2>2, <2>3 DEF RowIsMeasured
  <2> QED
    BY <1>5, <2>4, RollupMeasures
<1>6. CASE H!RollupWrites
  BY <1>3, <1>6, WritesMeasure
<1>7. CASE H!StartDelete
  <2>1. samples' = {} /\ rollups'[<<t, b>>] = H!NoRow /\ now' = now /\ roll' = roll
    BY <1>4, <1>7 DEF H!StartDelete, H!ClearProjectHealth, H!rolling, Hours
  <2>2. roll = {}
    <3> DEFINE kinds == {"delete"} \union (IF H!Busy \/ roll # H!NoRows THEN {"during"} ELSE {})
    <3>1. kinds \in SUBSET H!Kinds /\ H!Uses(kinds)
      BY <1>7 DEF H!StartDelete, H!Kinds
    <3>2. "during" \notin kinds
      <4>1. "during" \in kinds => used'["during"] = used["during"] + 1 /\ used["during"] \in Nat
        <5> HIDE DEF kinds
        <5> QED
          BY <1>1, <3>1, HealthEvents
      <4>2. used'["during"] = 0
        BY DEF H!Never
      <4> QED
        BY <4>1, <4>2
    <3> QED
      BY <3>2 DEF H!NoRows
  <2>3. rollups'[<<t, b>>].total = 0
    BY <2>1 DEF H!NoRow
  <2> QED
    BY <2>1, <2>2, <2>3 DEF RowIsMeasured, RollIsMeasured
<1>8. CASE ~H!RollupReads /\ ~H!RollupWrites /\ ~H!StartDelete
  <2>1. /\ now' >= now /\ (now' = now \/ roll' = {}) /\ (roll' = roll \/ roll' = {})
        /\ rollups'[<<t, b>>] = rollups[<<t, b>>] \/ rollups'[<<t, b>>].total = 0
    BY <1>8, RowsOnlyGo
  <2>2. H!Closed(b) /\ Within(b)' => H!SamplesOf(t, b)' = H!SamplesOf(t, b)
    BY <1>2, <1>8, SamplesMove
  <2> QED
    BY <1>3, <2>1, <2>2, MeasuredStays
<1> QED
  BY <1>5, <1>6, <1>7, <1>8

\* A rollup stays due for the interval it falls in.
LEMMA DueAtFirstPreserved ==
    ASSUME HealthTyped, DueAtFirst, H!Next PROVE DueAtFirst'
<1>1. ASSUME NEW k \in Ticks, H!StartTick(k) PROVE DueAtFirst'
  BY <1>1 DEF H!StartTick, DueAtFirst
<1>2. ASSUME NEW k \in Ticks, TickStep(k), ~H!StartTick(k) PROVE UNCHANGED <<now, due>>
  BY <1>2 DEF TickStep, H!Probe, H!Detect, H!Insert, H!InsertFails, H!world, H!rolling
<1>3. H!RollupReads \/ H!Down => ~due'
  BY DEF H!RollupReads, H!Down
<1>4. H!RollupWrites \/ H!Prune \/ H!StartDelete \/ H!Delete \/ H!Crash => UNCHANGED <<now, due>>
  BY DEF H!RollupWrites, H!Prune, H!StartDelete, H!Delete, H!Crash, H!world, H!rolling
<1>5. ASSUME NEW u, NEW reply, H!Change(u, reply) PROVE UNCHANGED <<now, due>>
  BY <1>5 DEF H!Change, H!rolling
<1> QED
  BY <1>1, <1>2, <1>3, <1>4, <1>5, HealthSteps DEF HealthStep, DueAtFirst

\* Whole hours are kept, so that what is kept begins where an hour does as far into one
\* as the clock is.
LEMMA KeptSince ==
    ASSUME NEW n \in Nat
    PROVE  \E k \in Int : k * Hour + (n % Hour) = n - RawKept /\ k * Hour \in Int
<1> DEFINE c == H!BucketOf(n)
           r == H!BucketOf(RawKept)
<1>1. c \in Nat /\ r \in Nat
  BY HourOf
<1>2. n % Hour = n - c * Hour /\ n % Hour \in Int
  BY DEF H!BucketOf
<1>3. RawKept = r * Hour
  <2>1. RawKept % Hour = RawKept - r * Hour /\ r * Hour \in Int /\ RawKept \in Int
    BY <1>1 DEF H!BucketOf
  <2>2. \A m, p \in Int : 0 = m - p => m = p
    OBVIOUS
  <2> HIDE DEF r
  <2> QED
    BY <2>1, <2>2, WholeHoursAssumption
<1>4. \A p, q \in Nat : (p - q) * Hour = p * Hour - q * Hour /\ p * Hour \in Int /\ q * Hour \in Int
  OBVIOUS
<1>5. (c - r) * Hour = c * Hour - r * Hour /\ c * Hour \in Int /\ r * Hour \in Int /\ c - r \in Int
  BY <1>1, <1>4
<1>6. \A d, p, q, m \in Int : d = p - q => d + (m - p) = m - q
  OBVIOUS
<1>7. (c - r) * Hour + (n % Hour) = n - RawKept
  <2>1. (c - r) * Hour \in Int
    BY <1>5
  <2> HIDE DEF c, r
  <2> QED
    BY <1>2, <1>3, <1>5, <1>6, <2>1
<1>8. (c - r) * Hour \in Int
  <2> HIDE DEF c, r
  <2> QED
    BY <1>5
<1> HIDE DEF c, r
<1> QED
  BY <1>5, <1>7, <1>8

\* The samples of an hour that is closed stay as they are, or all of them go.
LEMMA HoursGoWhole ==
    ASSUME HealthTyped, HealthTyped', OnceEach, TicksTakeTurns, H!Never({"overlap"}), H!Next,
           NEW t \in Targets, NEW b \in H!Buckets, H!Closed(b)
    PROVE  H!SamplesOf(t, b)' = H!SamplesOf(t, b) \/ H!SamplesOf(t, b)' = {}
<1>1. H!SamplesOf(t, b)' = {s \in samples' : s.target = t /\ H!BucketOf(s.ts) = b}
  BY DEF H!SamplesOf, H!BucketOf
<1>2. CASE H!Prune
  <2>1. samples' = {s \in samples : s.ts >= now - RawKept} /\ now % Hour = 0 /\ now \in Nat /\ b \in Nat
    BY <1>2 DEF H!Prune, HealthTyped, H!Buckets
  <2>2. PICK k \in Int : k * Hour = now - RawKept /\ k * Hour \in Int
    <3>1. PICK k \in Int : k * Hour + (now % Hour) = now - RawKept /\ k * Hour \in Int
      BY <2>1, KeptSince
    <3>2. \A i \in Int : i + 0 = i
      OBVIOUS
    <3> QED
      BY <2>1, <3>1, <3>2
  <2>3. ASSUME NEW s \in samples, H!BucketOf(s.ts) = b PROVE s.ts >= k * Hour <=> b >= k
    <3>1. s.ts \in Nat
      BY DEF HealthTyped, Sampled
    <3>2. b * Hour <= s.ts /\ s.ts < b * Hour + Hour /\ b * Hour \in Int
      BY <2>1, <2>3, <3>1, HourOf
    <3>3. CASE b < k
      <4>1. b * Hour + Hour <= k * Hour
        BY <2>1, <3>3, HoursGrow
      <4>2. \A n, p, q \in Int : n < p + Hour /\ p + Hour <= q => ~(n >= q)
        OBVIOUS
      <4>3. ~(s.ts >= k * Hour)
        BY <2>2, <3>1, <3>2, <4>1, <4>2
      <4> QED
        BY <2>1, <3>3, <4>3
    <3>4. CASE b = k
      BY <2>1, <3>2, <3>4
    <3>5. CASE k < b
      <4>1. k * Hour + Hour <= b * Hour
        BY <2>1, <3>5, HoursGrow
      <4>2. \A n, p, q \in Int : p <= n /\ q + Hour <= p => n >= q
        OBVIOUS
      <4>3. s.ts >= k * Hour
        BY <2>2, <3>1, <3>2, <4>1, <4>2
      <4> QED
        BY <2>1, <3>5, <4>3
    <3> QED
      BY <2>1, <3>3, <3>4, <3>5
  <2>4. CASE b >= k
    BY <1>1, <2>1, <2>2, <2>3, <2>4 DEF H!SamplesOf
  <2>5. CASE ~(b >= k)
    BY <1>1, <2>1, <2>2, <2>3, <2>5
  <2> QED
    BY <2>4, <2>5
<1>3. CASE H!StartDelete
  BY <1>1, <1>3 DEF H!StartDelete, H!ClearProjectHealth
<1>4. ASSUME NEW k \in Ticks, H!Insert(k) PROVE H!SamplesOf(t, b)' = H!SamplesOf(t, b)
  <2>1. samples' = samples \cup tick[k].got /\ Runs(k)
    BY <1>4 DEF H!Insert, Runs
  <2>2. \A s \in tick[k].got : s.ts = now
    BY <2>1 DEF TicksTakeTurns, OnceEach, TickIsOwn
  <2>3. H!BucketOf(now) # b
    <3>1. b < H!BucketOf(now) /\ b \in Int /\ now \in Nat
      BY HoursClose DEF H!Buckets, HealthTyped
    <3> QED
      BY <3>1, HourOf
  <2>4. \A s \in samples' : H!BucketOf(s.ts) = b => s \in samples
    BY <2>1, <2>2, <2>3
  <2> QED
    BY <1>1, <2>1, <2>4 DEF H!SamplesOf
<1>5. ASSUME UNCHANGED samples PROVE H!SamplesOf(t, b)' = H!SamplesOf(t, b)
  BY <1>1, <1>5 DEF H!SamplesOf
<1>6. ASSUME NEW k \in Ticks, TickStep(k), ~H!Insert(k) PROVE UNCHANGED samples
  BY <1>6 DEF TickStep, H!StartTick, H!Probe, H!Detect, H!InsertFails, H!stored
<1>7. H!RollupReads \/ H!RollupWrites \/ H!Delete \/ H!Down \/ H!Crash => UNCHANGED samples
  BY DEF H!RollupReads, H!RollupWrites, H!Delete, H!Down, H!Crash, H!stored
<1>8. ASSUME NEW u, NEW reply, H!Change(u, reply) PROVE UNCHANGED samples
  BY <1>8 DEF H!Change, H!stored
<1> QED
  BY <1>2, <1>3, <1>4, <1>5, <1>6, <1>7, <1>8, HealthSteps DEF HealthStep

\* A row counts what it did while the samples of its hour stay.
LEMMA CountsStays ==
    ASSUME HealthTyped, HealthTyped', NEW t \in Targets, NEW b \in H!Buckets, NEW row, NEW new,
           Counts(row, t, b), new.total > 0 => new = row,
           H!Closed(b) \/ ~(new.total > 0) \/ ~H!Closed(b)',
           H!Closed(b) => H!SamplesOf(t, b)' = H!SamplesOf(t, b) \/ H!SamplesOf(t, b)' = {}
    PROVE  (H!Closed(b) /\ H!SamplesOf(t, b) # {} /\ new.total > 0 => IsOf(new, t, b))
           /\ (H!Closed(b)' /\ H!SamplesOf(t, b)' # {} /\ new.total > 0 =>
                  new \in {H!RowOf(H!SamplesOf(t, b))', H!RowOf(Later(t, b))'})
<1>1. H!Closed(b) /\ H!SamplesOf(t, b) # {} /\ new.total > 0 => IsOf(new, t, b)
  BY DEF Counts
<1>2. ASSUME H!SamplesOf(t, b)' = H!SamplesOf(t, b)
      PROVE  H!RowOf(H!SamplesOf(t, b))' = H!RowOf(H!SamplesOf(t, b)) /\ H!RowOf(Later(t, b))' = H!RowOf(Later(t, b))
  <2>1. Later(t, b)' = Later(t, b)
    BY <1>2 DEF Later
  <2> QED
    BY <1>2, <2>1, CardinalityIsOne DEF H!RowOf
<1> QED
  BY <1>1, <1>2 DEF IsOf

\* What a rollup computes counts what is stored of an hour, but for what the first interval
\* after those that are kept cuts off.
LEMMA RollupCounts ==
    ASSUME HealthTyped, OnceEach, DueAtFirst, H!RollupReads, NEW t \in Targets, NEW b \in H!Buckets
    PROVE  Counts(H!RollupsSince(H!Since)[<<t, b>>], t, b)
<1> SUFFICES ASSUME H!Closed(b), H!SamplesOf(t, b) # {}, H!RollupsSince(H!Since)[<<t, b>>].total > 0
             PROVE  IsOf(H!RollupsSince(H!Since)[<<t, b>>], t, b)
  BY DEF Counts
<1> DEFINE since == H!Since
           ss == {s \in H!SamplesOf(t, b) : s.ts >= since}
<1>1. now \in Nat /\ b \in Nat /\ b * Hour \in Int /\ since = now - RawKept /\ since \in Int /\ now % Hour = 1
  BY DEF HealthTyped, H!Buckets, H!Since, H!RollupReads, DueAtFirst
<1>2. H!RollupsSince(H!Since)[<<t, b>>] = H!RowOf(ss)
  BY <1>1, RollupsAreTotals
<1>3. PICK k \in Int : k * Hour + 1 = since /\ k * Hour \in Int
  BY <1>1, KeptSince
<1> HIDE DEF since
<1>4. \A s \in H!SamplesOf(t, b) : s.ts \in Nat /\ b * Hour <= s.ts /\ s.ts < b * Hour + Hour
  <2> TAKE s \in H!SamplesOf(t, b)
  <2>1. s \in samples /\ H!BucketOf(s.ts) = b
    BY DEF H!SamplesOf
  <2>2. s.ts \in Nat
    BY <2>1 DEF HealthTyped, Sampled
  <2> QED
    BY <2>1, <2>2, HourOf
<1>5. CASE b < k
  <2>1. b * Hour + Hour <= k * Hour
    BY <1>1, <1>5, HoursGrow
  <2>2. \A n, p, q \in Int : n < p + Hour /\ p + Hour <= q => ~(n >= q + 1)
    OBVIOUS
  <2>3. ss = {}
    BY <1>1, <1>3, <1>4, <2>1, <2>2
  <2>4. H!RowOf(ss).total > 0
    BY <1>2
  <2>5. H!RowOf(ss).total = 0
    <3>1. Cardinality({}) = 0
      BY FS_EmptySet
    <3>2. H!RowOf(ss).total = Cardinality(ss)
      BY CardinalityIsOne DEF H!RowOf
    <3> HIDE DEF ss
    <3> QED
      BY <2>3, <3>1, <3>2
  <2> HIDE DEF ss
  <2> QED
    BY <2>4, <2>5
<1>6. CASE b = k
  <2>1. \A n, p \in Int : n >= p + 1 <=> n > p
    OBVIOUS
  <2>2. ss = Later(t, b)
    BY <1>1, <1>3, <1>4, <1>6, <2>1 DEF Later
  <2> QED
    BY <1>2, <2>2 DEF IsOf
<1>7. CASE k < b
  <2>1. k * Hour + Hour <= b * Hour
    BY <1>1, <1>7, HoursGrow
  <2>2. \A n, p, q \in Int : p <= n /\ q + Hour <= p => n >= q + 1
    OBVIOUS
  <2>3. ss = H!SamplesOf(t, b)
    BY <1>1, <1>3, <1>4, <2>1, <2>2
  <2> QED
    BY <1>2, <2>3 DEF IsOf
<1> QED
  BY <1>1, <1>5, <1>6, <1>7

\* Every step keeps that rows count the samples of their hours.
LEMMA HoursCountPreserved ==
    ASSUME HealthTyped, HealthTyped', OnceEach, TicksTakeTurns, Measured, DueAtFirst, HoursCount, H!Next
    PROVE  HoursCount'
<1> SUFFICES ASSUME H!Never({"overlap", "during"})', NEW t \in Targets, NEW b \in H!Buckets PROVE AllCount(t, b)'
  BY DEF HoursCount
<1>1. H!Never({"overlap", "during"}) /\ H!Never({"overlap"})
  <2>1. used \in [H!Kinds -> Nat] /\ {"overlap", "during"} \in SUBSET H!Kinds
    BY DEF HealthTyped, H!Kinds
  <2>2. H!Never({"overlap", "during"})
    BY <2>1, HealthCounts
  <2> QED
    BY <2>2 DEF H!Never
<1>2. AllCount(t, b) /\ RowIsMeasured(t, b) /\ RollIsMeasured(t, b)
  BY <1>1 DEF HoursCount, Measured
<1>3. H!Closed(b) => H!SamplesOf(t, b)' = H!SamplesOf(t, b) \/ H!SamplesOf(t, b)' = {}
  BY <1>1, HoursGoWhole
<1>4. rollups[<<t, b>>].total \in Nat /\ \A rows \in roll : rows[<<t, b>>].total \in Nat
  BY DEF HealthTyped, Hours, Totals
<1>5. ~H!Closed(b) => ~(rollups[<<t, b>>].total > 0) /\ \A rows \in roll : ~(rows[<<t, b>>].total > 0)
  BY <1>2, <1>4 DEF RowIsMeasured, RollIsMeasured
<1>6. ASSUME NEW row, NEW new, Counts(row, t, b), new.total > 0 => new = row,
             H!Closed(b) \/ ~(new.total > 0) \/ ~H!Closed(b)'
      PROVE  H!Closed(b)' /\ H!SamplesOf(t, b)' # {} /\ new.total > 0 =>
               new \in {H!RowOf(H!SamplesOf(t, b))', H!RowOf(Later(t, b))'}
  BY <1>3, <1>6, CountsStays
<1>7. ASSUME \A rows \in roll' :
               H!Closed(b)' /\ H!SamplesOf(t, b)' # {} /\ rows[<<t, b>>].total > 0 =>
                 rows[<<t, b>>] \in {H!RowOf(H!SamplesOf(t, b))', H!RowOf(Later(t, b))'},
             H!Closed(b)' /\ H!SamplesOf(t, b)' # {} /\ rollups'[<<t, b>>].total > 0 =>
               rollups'[<<t, b>>] \in {H!RowOf(H!SamplesOf(t, b))', H!RowOf(Later(t, b))'}
      PROVE  AllCount(t, b)'
  BY <1>7 DEF AllCount, Counts, IsOf
<1>8. CASE H!RollupReads
  <2>1. UNCHANGED <<now, rollups>> /\ \A rows \in roll' : rows = H!RollupsSince(H!Since)
    BY <1>8 DEF H!RollupReads, H!world, H!stored, H!NoRows
  <2>2. H!Closed(b)' <=> H!Closed(b)
    BY <2>1, HoursClose
  <2>3. Counts(H!RollupsSince(H!Since)[<<t, b>>], t, b)
    BY <1>8, RollupCounts
  <2> QED
    BY <1>2, <1>6, <1>7, <2>1, <2>2, <2>3 DEF AllCount
<1>9. CASE H!RollupWrites
  <2>1. now' = now /\ roll' = {}
    BY <1>9 DEF H!RollupWrites, H!world, H!NoRows
  <2>2. PICK rows \in roll : rollups' = [i \in Hours |-> H!Upserted(rollups[i], rows[i])]
    BY <1>9 DEF H!RollupWrites, Hours
  <2>3. rollups'[<<t, b>>] = rows[<<t, b>>] \/ rollups'[<<t, b>>] = rollups[<<t, b>>]
    BY <2>2 DEF Hours, H!Upserted
  <2>4. H!Closed(b)' <=> H!Closed(b)
    BY <2>1, HoursClose
  <2>5. CASE rollups'[<<t, b>>] = rows[<<t, b>>]
    BY <1>2, <1>6, <1>7, <2>1, <2>4, <2>5 DEF AllCount
  <2>6. CASE rollups'[<<t, b>>] = rollups[<<t, b>>]
    BY <1>2, <1>6, <1>7, <2>1, <2>4, <2>6 DEF AllCount
  <2> QED
    BY <2>3, <2>5, <2>6
<1>10. CASE ~H!RollupReads /\ ~H!RollupWrites
  <2>1. /\ roll' = roll \/ roll' = {}
        /\ rollups'[<<t, b>>] = rollups[<<t, b>>] \/ rollups'[<<t, b>>].total = 0
    BY <1>10, RowsOnlyGo
  <2>2. rollups'[<<t, b>>].total > 0 => rollups'[<<t, b>>] = rollups[<<t, b>>]
    BY <2>1
  <2>3. \A rows \in roll' : rows \in roll
    BY <2>1
  <2>4. H!Closed(b) \/ ~(rollups'[<<t, b>>].total > 0)
    BY <1>5, <2>2
  <2> QED
    BY <1>2, <1>5, <1>6, <1>7, <2>2, <2>3, <2>4 DEF AllCount
<1> QED
  BY <1>8, <1>9, <1>10

\* What a missed rollup leaves, the next reads.
LEMMA HorizonIs ==
    ASSUME HealthTyped, NEW s \in samples
    PROVE  /\ H!BucketOf(s.ts) \in H!Buckets /\ H!BucketOf(s.ts) \in Nat /\ s.ts \in Nat
           /\ H!BucketOf(s.ts) * Hour \in Nat /\ (used["down"] + 1) * Hour \in Nat /\ used["down"] \in Nat
           /\ H!BucketOf(s.ts) * Hour <= s.ts /\ s.ts < H!BucketOf(s.ts) * Hour + Hour
           /\ Horizon(s) = H!BucketOf(s.ts) * Hour + (used["down"] + 1) * Hour
           /\ (used["down"] + 1) * Hour >= Hour
<1>1. s.ts \in 0..HealthTime /\ used["down"] \in Nat
  BY DEF HealthTyped, Sampled, H!Kinds
<1>2. H!BucketOf(s.ts) \in H!Buckets /\ H!BucketOf(s.ts) \in Nat
  BY <1>1, HoursHaveRows
<1>3. H!BucketOf(s.ts) * Hour <= s.ts /\ s.ts < H!BucketOf(s.ts) * Hour + Hour
  BY <1>1, HourOf
<1>4. \A b, d \in Nat : (b + d + 1) * Hour = b * Hour + (d + 1) * Hour /\ b * Hour \in Nat /\ (d + 1) * Hour \in Nat
                        /\ (d + 1) * Hour = d * Hour + Hour /\ d * Hour \in Nat
  OBVIOUS
<1>5. /\ H!BucketOf(s.ts) * Hour \in Nat /\ (used["down"] + 1) * Hour \in Nat
      /\ Horizon(s) = H!BucketOf(s.ts) * Hour + (used["down"] + 1) * Hour
  BY <1>1, <1>2, <1>4 DEF Horizon
<1>6. (used["down"] + 1) * Hour >= Hour
  <2>1. used["down"] * Hour \in Nat /\ (used["down"] + 1) * Hour = used["down"] * Hour + Hour
    BY <1>1, <1>4
  <2> QED
    BY <2>1
<1> QED
  BY <1>1, <1>2, <1>3, <1>5, <1>6

\* While rollups catch up, a sample that is old enough to go or not to be read any more is
\* of an hour that no longer awaits one.
LEMMA WaitsWhileKept ==
    ASSUME HealthTyped, RollupsCatchUp, NEW s \in samples, s.ts < now - RawKept
    PROVE  now > Horizon(s) + 1
<1>1. /\ H!BucketOf(s.ts) * Hour \in Nat /\ (used["down"] + 1) * Hour \in Nat
      /\ H!BucketOf(s.ts) * Hour <= s.ts /\ s.ts \in Nat
      /\ Horizon(s) = H!BucketOf(s.ts) * Hour + (used["down"] + 1) * Hour
  BY HorizonIs
<1>2. now \in Nat /\ (used["down"] + 1) * Hour < RawKept
  BY DEF HealthTyped, RollupsCatchUp
<1>3. \A a, d, ts, n \in Nat : a <= ts /\ d < RawKept /\ ts < n - RawKept => n > a + d + 1
  OBVIOUS
<1> QED
  BY <1>1, <1>2, <1>3

\* A rollup that is read counts every sample that waits for it.
LEMMA ReadsWaiting ==
    ASSUME HealthTyped, OnceEach, RollupsCatchUp, NEW s \in samples, now = Horizon(s) + 1
    PROVE  Counted(H!RollupsSince(H!Since), s)
<1> DEFINE b == H!BucketOf(s.ts)
<1>1. /\ b \in H!Buckets /\ b \in Nat /\ s.ts \in Nat /\ b * Hour \in Nat /\ (used["down"] + 1) * Hour \in Nat
      /\ Horizon(s) = b * Hour + (used["down"] + 1) * Hour /\ (used["down"] + 1) * Hour >= Hour
  BY HorizonIs
<1>2. s.target \in Targets /\ now \in Nat /\ H!Since \in Int
  BY DEF HealthTyped, Sampled, H!Since
<1>3. H!Closed(b)
  <2>1. H!BucketOf(now) \in Nat /\ now < H!BucketOf(now) * Hour + Hour
    BY <1>2, HourOf
  <2>2. now > b * Hour + Hour
    <3>1. \A a, d \in Nat : d >= Hour => a + d + 1 > a + Hour
      OBVIOUS
    <3> QED
      BY <1>1, <3>1
  <2>3. CASE H!BucketOf(now) < b
    <3>1. H!BucketOf(now) * Hour + Hour <= b * Hour
      BY <1>1, <2>1, <2>3, HoursGrow
    <3>2. \A m, n, p, q \in Nat : m < n + Hour /\ n + Hour <= p /\ m > p + Hour => FALSE
      OBVIOUS
    <3> QED
      BY <1>1, <1>2, <2>1, <2>2, <3>1, <3>2
  <2>4. CASE H!BucketOf(now) = b
    BY <1>1, <1>2, <2>1, <2>2, <2>4
  <2> QED
    BY <1>1, <2>1, <2>3, <2>4 DEF H!Closed, H!CurrentBucket
<1>4. s.ts >= H!Since
  <2>1. ~(s.ts < now - RawKept)
    BY <1>1, <1>2, WaitsWhileKept
  <2> QED
    BY <1>1, <1>2, <2>1 DEF H!Since
<1> DEFINE ss == {o \in H!SamplesOf(s.target, b) : o.ts >= H!Since}
<1>5. s \in ss /\ ss \in SUBSET H!SamplesOf(s.target, b)
  BY <1>4 DEF H!SamplesOf
<1>6. H!RollupsSince(H!Since)[<<s.target, b>>] = H!RowOf(ss)
  BY <1>1, <1>2, <1>3, RollupsAreTotals
<1>7. H!RowOf(ss).total > 0
  <2> HIDE DEF ss
  <2> QED
    BY <1>1, <1>2, <1>5, RowsAreTotals
<1> QED
  BY <1>6, <1>7 DEF Counted

\* The clock leaves no sample behind: it waits for the rollup that is due, and one that is
\* missed leaves its samples to the next.
LEMMA TimeAwaits ==
    ASSUME HealthTyped, HealthTyped', NEW s \in samples, Awaits(s), roll = {}, UNCHANGED <<rollups>>, now' = now + 1,
           \/ ~due /\ used'["down"] = used["down"] /\ due' = ((now + 1) % Hour = 1)
           \/ used'["down"] = used["down"] + 1, s \in samples'
    PROVE  Awaits(s)'
<1> DEFINE a == H!BucketOf(s.ts) * Hour
           d == (used["down"] + 1) * Hour
<1>1. a \in Nat /\ d \in Nat /\ Horizon(s) = a + d /\ now \in Nat /\ used["down"] \in Nat /\ H!BucketOf(s.ts) \in Nat
  BY HorizonIs DEF HealthTyped
<1>2. Counted(rollups, s) => Counted(rollups, s)'
  BY DEF Counted, H!BucketOf
<1>3. a < now - RollupKept => a < now' - RollupKept
  <2> HIDE DEF a
  <2> QED
    BY <1>1
<1>4. (Counted(rollups, s)' \/ a < now' - RollupKept) => Awaits(s)'
  BY DEF Awaits, H!BucketOf
<1>5. Counted(rollups, s) \/ a < now - RollupKept => Awaits(s)'
  BY <1>2, <1>3, <1>4
<1>6. CASE ~due /\ used'["down"] = used["down"] /\ due' = ((now + 1) % Hour = 1)
  <2>1. Horizon(s)' = Horizon(s)
    BY <1>6 DEF Horizon, H!BucketOf
  <2>2. now <= a + d \/ Counted(rollups, s) \/ a < now - RollupKept
    <3> HIDE DEF d
    <3> QED
      BY <1>1, <1>6 DEF Awaits
  <2>3. now < a + d => Awaits(s)'
    <3>1. now < a + d => now' <= a + d
      <4> HIDE DEF a, d
      <4> QED
        BY <1>1
    <3>2. now' <= a + d => now' <= Horizon(s)'
      BY <1>1, <2>1
    <3> QED
      BY <3>1, <3>2 DEF Awaits
  <2>4. now = a + d => Awaits(s)'
    <3>1. ASSUME now = a + d PROVE due'
      <4>1. now = (H!BucketOf(s.ts) + used["down"] + 1) * Hour
        BY <1>1, <3>1 DEF Horizon
      <4>2. H!BucketOf(s.ts) + used["down"] + 1 \in Nat
        BY <1>1
      <4>3. (now + 1) % Hour = 1
        BY <4>1, <4>2, FirstOfHour
      <4> QED
        BY <1>6, <4>3
    <3>2. now = a + d => now' = Horizon(s)' + 1
      BY <1>1, <2>1
    <3> QED
      BY <3>1, <3>2 DEF Awaits
  <2>5. now < a + d \/ now = a + d \/ ~(now <= a + d)
    <3> HIDE DEF a, d
    <3> QED
      BY <1>1
  <2> QED
    BY <1>5, <2>2, <2>3, <2>4, <2>5
<1>7. CASE used'["down"] = used["down"] + 1
  <2>1. Horizon(s)' = a + d + Hour
    <3>1. \A b, c \in Nat : (b + (c + 1) + 1) * Hour = (b + c + 1) * Hour + Hour
      OBVIOUS
    <3>2. Horizon(s)' = (H!BucketOf(s.ts) + used'["down"] + 1) * Hour
      BY DEF Horizon, H!BucketOf
    <3>3. (H!BucketOf(s.ts) + used["down"] + 1) * Hour = a + d
      BY <1>1 DEF Horizon
    <3> QED
      BY <1>1, <1>7, <3>1, <3>2, <3>3
  <2>2. now <= a + d + 1 => now' <= a + d + Hour
    <3> HIDE DEF a, d
    <3> QED
      BY <1>1
  <2>3. Awaits(s) => Counted(rollups, s) \/ a < now - RollupKept \/ now <= a + d + 1
    <3>1. Awaits(s) => Counted(rollups, s) \/ a < now - RollupKept \/ now <= Horizon(s) \/ now = Horizon(s) + 1
      BY DEF Awaits
    <3>2. now <= Horizon(s) \/ now = Horizon(s) + 1 => now <= a + d + 1
      <4> HIDE DEF a, d
      <4> QED
        BY <1>1
    <3> QED
      BY <3>1, <3>2
  <2>4. now' <= a + d + Hour => Awaits(s)'
    BY <2>1 DEF Awaits
  <2> QED
    BY <1>5, <2>2, <2>3, <2>4
<1> QED
  BY <1>6, <1>7

\* Every step keeps that the hour of a sample is rolled up or will be.
LEMMA AllAwaitPreserved ==
    ASSUME HealthTyped, HealthTyped', OnceEach, TicksTakeTurns, AllAwait, H!Next PROVE AllAwait'
<1> SUFFICES ASSUME exists' = "yes", H!Never({"crash", "overlap"})', RollupsCatchUp', NEW s \in samples'
             PROVE  Awaits(s)'
  BY DEF AllAwait
<1>1. used \in [H!Kinds -> Nat] /\ {"crash", "overlap"} \in SUBSET H!Kinds /\ "down" \in H!Kinds
  BY DEF HealthTyped, H!Kinds
<1>2. H!Never({"crash", "overlap"}) /\ H!Never({"overlap"}) /\ ~H!Crash
  <2>1. H!Never({"crash", "overlap"})
    BY <1>1, HealthCounts
  <2>2. ASSUME H!Crash PROVE FALSE
    <3>1. H!Uses({"crash"}) /\ {"crash"} \in SUBSET H!Kinds
      BY <2>2 DEF H!Crash, H!Kinds
    <3>2. used'["crash"] = used["crash"] + 1 /\ used["crash"] \in Nat
      BY <1>1, <3>1, HealthEvents
    <3>3. used'["crash"] = 0
      BY DEF H!Never
    <3> QED
      BY <3>2, <3>3
  <2> QED
    BY <2>1, <2>2 DEF H!Never
<1>3. RollupsCatchUp
  <2>1. used["down"] \in Nat /\ used'["down"] \in Nat /\ used["down"] <= used'["down"]
    BY <1>1, HealthCounts DEF HealthTyped
  <2>2. \A m, n \in Nat : m <= n => (m + 1) * Hour <= (n + 1) * Hour
    <3>1. \A m, n \in Nat : (n + 1) * Hour = (m + 1) * Hour + (n - m) * Hour
      OBVIOUS
    <3>2. \A m, n \in Nat : m <= n => (n - m) * Hour >= 0 /\ (m + 1) * Hour \in Nat /\ (n - m) * Hour \in Int
      OBVIOUS
    <3>3. \A a, b \in Int : b >= 0 => a <= a + b
      OBVIOUS
    <3> QED
      BY <3>1, <3>2, <3>3
  <2>3. \A m, n \in Nat : (m + 1) * Hour \in Nat /\ (n + 1) * Hour \in Nat
    OBVIOUS
  <2>4. (used["down"] + 1) * Hour <= (used'["down"] + 1) * Hour
    BY <2>1, <2>2
  <2>5. \A a, b \in Nat : a <= b /\ b < RawKept => a < RawKept
    OBVIOUS
  <2> QED
    BY <2>1, <2>3, <2>4, <2>5 DEF RollupsCatchUp
<1>4. exists = "yes"
  <2>1. ASSUME NEW k \in Ticks, TickStep(k) PROVE exists' = exists
    BY <2>1 DEF TickStep, H!StartTick, H!Probe, H!Detect, H!Insert, H!InsertFails, H!world
  <2>2. H!RollupReads \/ H!RollupWrites \/ H!Prune \/ H!Down \/ H!Crash => exists' = exists
    BY DEF H!RollupReads, H!RollupWrites, H!Prune, H!Down, H!Crash, H!world
  <2>3. H!StartDelete \/ H!Delete => exists' # "yes"
    BY DEF H!StartDelete, H!Delete
  <2>4. ASSUME NEW u, NEW reply, H!Change(u, reply) PROVE exists' = exists
    BY <2>4 DEF H!Change
  <2> QED
    BY <2>1, <2>2, <2>3, <2>4, HealthSteps DEF HealthStep
<1>5. \A o \in samples : Awaits(o)
  BY <1>2, <1>3, <1>4 DEF AllAwait
<1>6. ASSUME NEW o \in samples, o = s, UNCHANGED <<now, rollups>>, used'["down"] = used["down"],
             due' = due /\ roll' = roll
      PROVE  Awaits(s)'
  BY <1>5, <1>6 DEF Awaits, Counted, Horizon, H!BucketOf
<1>7. ASSUME NEW k \in Ticks, H!StartTick(k) PROVE Awaits(s)'
  <2>1. samples' = samples /\ rollups' = rollups /\ roll = {} /\ now' = now + 1 /\ ~due
    BY <1>7 DEF H!StartTick, H!stored, H!NoRows
  <2>2. due' = ((now + 1) % Hour = 1)
    BY <1>4, <1>7 DEF H!StartTick
  <2>3. used'["down"] = used["down"]
    <3> DEFINE kinds == (IF H!Busy THEN {"overlap"} ELSE {}) \union (IF exists = "deleting" THEN {"during"} ELSE {})
    <3>1. kinds \in SUBSET H!Kinds /\ H!Uses(kinds) /\ "down" \in H!Kinds \ kinds
      BY <1>7 DEF H!StartTick, H!Kinds
    <3> HIDE DEF kinds
    <3> QED
      BY <1>1, <3>1, HealthEvents
  <2>4. Awaits(s) /\ s \in samples
    BY <1>5, <2>1
  <2> QED
    BY <2>1, <2>2, <2>3, <2>4, TimeAwaits
<1>8. ASSUME NEW k \in Ticks, H!Probe(k) \/ H!Detect(k) \/ H!InsertFails(k) PROVE Awaits(s)'
  <2>1. UNCHANGED <<now, samples, rollups, due, roll>>
    BY <1>8 DEF H!Probe, H!Detect, H!InsertFails, H!world, H!stored, H!rolling
  <2>2. ~H!Down
    BY <2>1 DEF H!Down, HealthTyped
  <2> QED
    BY <1>1, <1>6, <2>1, <2>2, HealthCounts
<1>9. ASSUME NEW k \in Ticks, H!Insert(k) PROVE Awaits(s)'
  <2>1. UNCHANGED <<now, rollups, due, roll, used>> /\ samples' = samples \cup tick[k].got /\ Runs(k)
    BY <1>9 DEF H!Insert, H!world, H!rolling, Runs
  <2>2. CASE s \in samples
    BY <1>6, <2>1, <2>2
  <2>3. CASE s \in tick[k].got
    <3>1. s.ts = now
      BY <1>2, <2>1, <2>3 DEF TicksTakeTurns, OnceEach, TickIsOwn
    <3>2. s \in samples'
      BY <2>1, <2>3
    <3>3. now' <= Horizon(s)'
      <4>1. now \in Nat /\ H!BucketOf(now) \in Nat /\ now < H!BucketOf(now) * Hour + Hour /\ used["down"] \in Nat
        <5>1. now \in Nat /\ used["down"] \in Nat
          BY <1>1 DEF HealthTyped
        <5> QED
          BY <5>1, HourOf
      <4>2. \A b, d \in Nat : (b + d + 1) * Hour = b * Hour + Hour + d * Hour /\ d * Hour \in Nat /\ b * Hour \in Nat
        OBVIOUS
      <4>3. Horizon(s)' = (H!BucketOf(now) + used["down"] + 1) * Hour
        BY <2>1, <3>1 DEF Horizon, H!BucketOf
      <4>4. /\ Horizon(s)' = H!BucketOf(now) * Hour + Hour + used["down"] * Hour
            /\ used["down"] * Hour \in Nat /\ H!BucketOf(now) * Hour \in Nat
        BY <4>1, <4>2, <4>3
      <4>5. \A n, a, d \in Nat : n < a + Hour => n <= a + Hour + d
        OBVIOUS
      <4> QED
        BY <2>1, <4>1, <4>4, <4>5
    <3> QED
      BY <3>3 DEF Awaits
  <2> QED
    BY <2>1, <2>2, <2>3
<1>10. H!RollupReads => Awaits(s)'
  <2> SUFFICES ASSUME H!RollupReads PROVE Awaits(s)'
    OBVIOUS
  <2>1. UNCHANGED <<now, samples, rollups>> /\ roll = {} /\ roll' = {H!RollupsSince(H!Since)}
    BY <1>4 DEF H!RollupReads, H!world, H!stored, H!NoRows
  <2>2. used'["down"] = used["down"]
    <3>1. ~H!Down
      BY <2>1 DEF H!Down, HealthTyped
    <3> QED
      BY <3>1, HealthCounts DEF HealthTyped
  <2>3. Horizon(s)' = Horizon(s)
    BY <2>2 DEF Horizon, H!BucketOf
  <2>4. CASE now = Horizon(s) + 1
    <3>1. Counted(H!RollupsSince(H!Since), s)
      BY <1>3, <2>1, <2>4, ReadsWaiting
    <3>2. roll' # {} /\ (\A rows \in roll' : Counted(rows, s)) /\ now' = Horizon(s)' + 1
      BY <2>1, <2>3, <2>4, <3>1
    <3>3. \A rows \in roll' : Counted(rows, s)'
      BY <3>2 DEF Counted, H!BucketOf
    <3> QED
      BY <3>2, <3>3 DEF Awaits
  <2>5. CASE now # Horizon(s) + 1
    <3>1. Counted(rollups, s) \/ H!BucketOf(s.ts) * Hour < now - RollupKept \/ now <= Horizon(s)
      BY <1>5, <2>1, <2>5 DEF Awaits
    <3> QED
      BY <2>1, <2>3, <3>1 DEF Awaits, Counted, H!BucketOf
  <2> QED
    BY <2>4, <2>5
<1>11. H!RollupWrites => Awaits(s)'
  <2> SUFFICES ASSUME H!RollupWrites PROVE Awaits(s)'
    OBVIOUS
  <2>1. UNCHANGED <<now, samples, due, used>>
    BY DEF H!RollupWrites, H!world
  <2>2. PICK rows \in roll : rollups' = [i \in Hours |-> H!Upserted(rollups[i], rows[i])]
    BY DEF H!RollupWrites, Hours
  <2>3. <<s.target, H!BucketOf(s.ts)>> \in Hours
    BY <2>1, HorizonIs DEF Hours, HealthTyped, Sampled
  <2>4. Counted(rollups, s) \/ Counted(rows, s) => Counted(rollups, s)'
    <3>1. Counted(rollups, s)' <=> rollups'[<<s.target, H!BucketOf(s.ts)>>].total > 0
      BY DEF Counted, H!BucketOf
    <3>2. rollups'[<<s.target, H!BucketOf(s.ts)>>]
          = H!Upserted(rollups[<<s.target, H!BucketOf(s.ts)>>], rows[<<s.target, H!BucketOf(s.ts)>>])
      BY <2>2, <2>3
    <3> QED
      BY <3>1, <3>2 DEF Counted, H!Upserted
  <2>5. Horizon(s)' = Horizon(s)
    BY <2>1 DEF Horizon, H!BucketOf
  <2>6. \/ Counted(rollups, s) \/ Counted(rows, s) \/ H!BucketOf(s.ts) * Hour < now - RollupKept \/ now <= Horizon(s)
        \/ now = Horizon(s) + 1 /\ due
    BY <1>5, <2>1 DEF Awaits
  <2> QED
    BY <2>1, <2>4, <2>5, <2>6 DEF Awaits, H!BucketOf
<1>12. H!Prune => Awaits(s)'
  <2> SUFFICES ASSUME H!Prune PROVE Awaits(s)'
    OBVIOUS
  <2>1. UNCHANGED <<now, due, roll, used>> /\ s \in samples
    BY DEF H!Prune, H!world, H!rolling
  <2>2. <<s.target, H!BucketOf(s.ts)>> \in Hours
    BY <2>1, HorizonIs DEF Hours, HealthTyped, Sampled
  <2>3. rollups'[<<s.target, H!BucketOf(s.ts)>>] =
          IF H!BucketOf(s.ts) * Hour < now - RollupKept THEN H!NoRow ELSE rollups[<<s.target, H!BucketOf(s.ts)>>]
    BY <2>2 DEF H!Prune, Hours
  <2>4. Counted(rollups, s) => Counted(rollups, s)' \/ H!BucketOf(s.ts) * Hour < now - RollupKept
    BY <2>3 DEF Counted, H!BucketOf
  <2>5. Horizon(s)' = Horizon(s)
    BY <2>1 DEF Horizon, H!BucketOf
  <2> QED
    BY <1>5, <2>1, <2>4, <2>5 DEF Awaits, Counted, H!BucketOf
<1>13. ~H!StartDelete /\ ~H!Delete
  BY DEF H!StartDelete, H!Delete
<1>14. ASSUME NEW u \in Targets, NEW reply \in Answers, H!Change(u, reply) PROVE Awaits(s)'
  <2>1. UNCHANGED <<now, samples, rollups, due, roll>>
    BY <1>14 DEF H!Change, H!stored, H!rolling
  <2>2. ~H!Down
    BY <2>1 DEF H!Down, HealthTyped
  <2> QED
    BY <1>1, <1>6, <2>1, <2>2, HealthCounts
<1>15. H!Down => Awaits(s)'
  <2> SUFFICES ASSUME H!Down PROVE Awaits(s)'
    OBVIOUS
  <2>1. samples' = samples /\ rollups' = rollups /\ roll = {} /\ now' = now + 1
    BY DEF H!Down, H!stored, H!NoRows
  <2>2. used'["down"] = used["down"] + 1
    <3>1. {"down"} \in SUBSET H!Kinds /\ H!Uses({"down"})
      BY <1>1 DEF H!Down
    <3> QED
      BY <1>1, <3>1, HealthEvents
  <2>3. Awaits(s) /\ s \in samples
    BY <1>5, <2>1
  <2> QED
    BY <2>1, <2>2, <2>3, TimeAwaits
<1> QED
  BY <1>2, <1>7, <1>8, <1>9, <1>10, <1>11, <1>12, <1>13, <1>14, <1>15, HealthSteps DEF HealthStep, TickStep

-----------------------------------------------------------------------------
(* Health: what is told.                                                   *)

\* The latest samples are those of the last interval that covered every target.
LEMMA LatestAre ==
    ASSUME NEW ss \in SUBSET Sampled, NEW ts \in Nat, \A s \in ss : s.ts <= ts, Covers(At(ss, ts))
    PROVE  /\ {s \in ss : \A o \in ss : o.target = s.target => o.ts <= s.ts} = At(ss, ts)
           /\ ss # {} => At(ss, ts) # {}
<1>1. \A s \in ss : s.target \in Targets /\ s.ts \in Nat
  BY DEF Sampled
<1>2. \A s \in ss : \E o \in ss : o.target = s.target /\ o.ts = ts
  BY <1>1 DEF Covers, At
<1>3. \A s \in ss : (\A o \in ss : o.target = s.target => o.ts <= s.ts) => s.ts = ts
  BY <1>1, <1>2
<1>4. ss # {} => At(ss, ts) # {}
  BY <1>2 DEF At
<1>5. {s \in ss : \A o \in ss : o.target = s.target => o.ts <= s.ts} = At(ss, ts)
  BY <1>3 DEF At
<1> QED
  BY <1>4, <1>5

\* So are the samples of a tick that are added to what is older.
LEMMA LatestAdded ==
    ASSUME NEW ss \in SUBSET Sampled, NEW got \in SUBSET Sampled, NEW ts \in Nat, \A s \in ss : s.ts < ts,
           \A s \in got : s.ts = ts, Covers(got), NEW all, all = ss \cup got
    PROVE  /\ \A s \in all : s.ts <= ts
           /\ At(all, ts) = got /\ Covers(At(all, ts))
<1>1. \A s \in all : s.ts \in Nat
  BY DEF Sampled
<1>2. At(all, ts) = got
  BY <1>1 DEF At
<1>3. \A s \in all : s.ts <= ts
  BY <1>1
<1>4. Covers(At(all, ts))
  BY <1>2
<1> QED
  BY <1>2, <1>3, <1>4

\* What no disturbance leaves to be considered: one tick at once, of every target, of a
\* project that stays.
LEMMA StaysUndisturbed ==
    ASSUME HealthTyped, OnceEach, TicksTakeTurns, NothingGoes, H!Next, Undisturbed'
    PROVE  /\ Undisturbed /\ exists = "yes" /\ (\A t \in Targets : answer[t] # "gone")
           /\ \A k \in Ticks : Runs(k) => tick[k].ts = now /\ \A l \in Ticks : Runs(l) => l = k
           /\ \A k \in Ticks : H!StartTick(k) => ~Running
           /\ \A k \in Ticks : ~H!InsertFails(k)
           /\ ~H!StartDelete /\ ~H!Delete /\ ~H!Crash
           /\ ~H!Down => used'["down"] = used["down"]
           /\ used["down"] < RawKept /\ used["down"] \in Nat
<1>1. used \in [H!Kinds -> Nat] /\ H!Disturbances \in SUBSET H!Kinds
  BY DEF HealthTyped, H!Kinds, H!Disturbances
<1>2. H!Never(H!Disturbances)' /\ H!BriefOutages'
  BY DEF Undisturbed, H!Disturbances, H!Never
<1>3. H!Never(H!Disturbances)
  BY <1>1, <1>2, HealthCounts DEF H!Never, H!Disturbances
<1>4. used["down"] < RawKept /\ used["down"] \in Nat
  <2>1. "down" \in H!Kinds
    BY DEF H!Kinds
  <2>2. used["down"] \in Nat /\ used'["down"] \in Nat /\ used'["down"] >= used["down"]
    BY <1>1, <2>1, HealthCounts
  <2>3. used'["down"] < RawKept
    BY <1>2 DEF H!BriefOutages
  <2> QED
    BY <2>2, <2>3
<1>5. H!Never({"overlap"}) /\ H!Never({"delete"}) /\ H!Never({"gone"})
  BY <1>3 DEF H!Never, H!Disturbances
<1>6. ASSUME NEW kinds \in SUBSET H!Kinds, H!Uses(kinds), NEW K \in H!Disturbances PROVE K \notin kinds
  <2>1. K \in kinds => used'[K] = used[K] + 1 /\ used[K] \in Nat
    BY <1>1, <1>6, HealthEvents
  <2>2. used'[K] = 0
    BY <1>2 DEF H!Never, H!Disturbances
  <2> QED
    BY <2>1, <2>2
<1>7. ASSUME NEW k \in Ticks, H!StartTick(k) PROVE ~Running
  <2> DEFINE kinds == (IF H!Busy THEN {"overlap"} ELSE {}) \union (IF exists = "deleting" THEN {"during"} ELSE {})
  <2>1. kinds \in SUBSET H!Kinds /\ H!Uses(kinds)
    BY <1>7 DEF H!StartTick, H!Kinds
  <2>2. "overlap" \notin kinds
    <3> HIDE DEF kinds
    <3> QED
      BY <1>6, <2>1 DEF H!Disturbances
  <2> QED
    BY <2>2, BusyRuns DEF Running
<1>8. \A k \in Ticks : ~H!InsertFails(k)
  BY <1>6 DEF H!InsertFails, H!Disturbances, H!Kinds
<1>9. ~H!StartDelete
  <2> DEFINE kinds == {"delete"} \union (IF H!Busy \/ roll # H!NoRows THEN {"during"} ELSE {})
  <2>1. kinds \in SUBSET H!Kinds /\ "delete" \in kinds /\ (H!StartDelete => H!Uses(kinds))
    BY DEF H!StartDelete, H!Kinds
  <2> HIDE DEF kinds
  <2> QED
    BY <1>6, <2>1 DEF H!Disturbances
<1>10. ~H!Crash
  BY <1>6 DEF H!Crash, H!Disturbances, H!Kinds
<1>11. exists = "yes" /\ \A t \in Targets : answer[t] # "gone"
  BY <1>5 DEF NothingGoes
<1>12. ~H!Delete
  BY <1>11 DEF H!Delete
<1>13. \A k \in Ticks : Runs(k) => tick[k].ts = now /\ \A l \in Ticks : Runs(l) => l = k
  BY <1>5 DEF TicksTakeTurns
<1>14. ~H!Down => used'["down"] = used["down"]
  BY <1>1, HealthCounts
<1>15. Undisturbed
  BY <1>3, <1>4 DEF Undisturbed, H!BriefOutages, H!Never, H!Disturbances
<1> QED
  BY <1>4, <1>7, <1>8, <1>9, <1>10, <1>11, <1>12, <1>13, <1>14, <1>15

\* The newest samples stay where they are while the clock goes on no further than allowed.
LEMMA NewestStays ==
    ASSUME HealthTyped, HealthTyped', LatestIsKept, samples' = samples,
           \/ now' = now /\ used'["down"] = used["down"] /\ (Running <=> Running')
           \/ now' = now + 1 /\ used'["down"] = used["down"] + 1 /\ (Running <=> Running')
           \/ now' = now + 1 /\ used'["down"] = used["down"] /\ ~Running /\ Running'
    PROVE  LatestIsKept'
<1> SUFFICES ASSUME samples # {}
             PROVE  \E ts \in 0..now' : NewestAt(ts)' /\ now' - ts <= used'["down"] + (IF Running' THEN 1 ELSE 0)
  BY DEF LatestIsKept
<1>1. PICK ts \in 0..now : NewestAt(ts) /\ now - ts <= used["down"] + (IF Running THEN 1 ELSE 0)
  BY DEF LatestIsKept
<1>2. now \in Nat /\ used["down"] \in Nat
  BY DEF HealthTyped, H!Kinds
<1>3. \A u \in {ts} : NewestAt(u)'
  BY <1>1 DEF NewestAt, Covers, At
<1>4. ts \in 0..now' /\ now' - ts <= used'["down"] + (IF Running' THEN 1 ELSE 0)
  BY <1>1, <1>2
<1> QED
  BY <1>3, <1>4

\* A step that neither samples nor tells.
LEMMA QuietKeepsReported ==
    ASSUME HealthTyped, HealthTyped', LatestIsKept, TicksCover, LastIsTold, NoneTwice,
           UNCHANGED <<samples, events, tick>>,
           \/ now' = now /\ used'["down"] = used["down"]
           \/ now' = now + 1 /\ used'["down"] = used["down"] + 1
    PROVE  LatestIsKept' /\ TicksCover' /\ LastIsTold' /\ NoneTwice'
<1>1. Running <=> Running'
  BY DEF Running, Runs
<1>2. LatestIsKept'
  BY <1>1, NewestStays
<1>3. TicksCover'
  BY DEF TicksCover, Covers
<1>4. LastIsTold'
  BY DEF LastIsTold, Announced, H!Overall, H!WorstStatus, H!Latest
<1>5. NoneTwice'
  BY DEF NoneTwice
<1> QED
  BY <1>2, <1>3, <1>4, <1>5

\* A tick that starts, while none runs.
LEMMA StartKeepsReported ==
    ASSUME HealthTyped, HealthTyped', LatestIsKept, TicksCover, LastIsTold, NoneTwice,
           NEW k \in Ticks, H!StartTick(k), ~Running, exists = "yes", used'["down"] = used["down"]
    PROVE  LatestIsKept' /\ TicksCover' /\ LastIsTold' /\ NoneTwice'
<1>1. samples' = samples /\ events' = events /\ now' = now + 1
  BY DEF H!StartTick, H!stored
<1>2. tick'[k] = [pc |-> "probe", ts |-> now + 1, got |-> {}] /\ \A l \in Ticks \ {k} : tick'[l] = tick[l]
  BY TickGoesOn DEF TickStep
<1>3. tick'[k].pc = "probe" /\ \A l \in Ticks \ {k} : tick'[l].pc = tick[l].pc /\ tick[l].pc = "idle"
  BY <1>2 DEF Running, Runs
<1>4. ~Running /\ Running'
  BY <1>3 DEF Running, Runs
<1>5. LatestIsKept'
  BY <1>1, <1>4, NewestStays
<1>6. TicksCover'
  BY <1>3 DEF TicksCover
<1>7. \A l \in Ticks : tick[l].pc # "insert" /\ tick'[l].pc # "insert"
  BY <1>3 DEF Running, Runs
<1>8. LastIsTold'
  BY <1>1, <1>7 DEF LastIsTold, Announced, H!Overall, H!WorstStatus, H!Latest
<1>9. NoneTwice'
  BY <1>1 DEF NoneTwice
<1> QED
  BY <1>5, <1>6, <1>8, <1>9

\* It probes every target.
LEMMA ProbeKeepsReported ==
    ASSUME HealthTyped, HealthTyped', LatestIsKept, TicksCover, LastIsTold, NoneTwice,
           NEW k \in Ticks, H!Probe(k), \A t \in Targets : answer[t] # "gone", used'["down"] = used["down"]
    PROVE  LatestIsKept' /\ TicksCover' /\ LastIsTold' /\ NoneTwice'
<1>1. samples' = samples /\ events' = events /\ now' = now /\ tick[k].pc = "probe"
  BY DEF H!Probe, H!stored, H!world
<1>2. /\ tick'[k] = [pc |-> "detect", ts |-> tick[k].ts, got |-> H!SampleProject(tick[k].ts)]
      /\ \A l \in Ticks \ {k} : tick'[l] = tick[l]
  BY TickGoesOn DEF TickStep
<1>3. tick'[k].pc = "detect" /\ tick'[k].got = H!SampleProject(tick[k].ts)
  BY <1>2
<1>4. Running /\ Running'
  BY <1>1, <1>3 DEF Running, Runs
<1>5. LatestIsKept'
  BY <1>1, <1>4, NewestStays
<1>6. Covers(tick'[k].got)
  <2>1. tick[k].ts \in 0..HealthTime
    BY DEF HealthTyped, HealthTicks
  <2> QED
    BY <1>3, <2>1, SamplesOfTick DEF Covers
<1>7. TicksCover'
  BY <1>2, <1>3, <1>6 DEF TicksCover, Covers
<1>8. \A l \in Ticks : (tick'[l].pc = "insert" <=> tick[l].pc = "insert") /\ (tick[l].pc = "insert" => tick'[l] = tick[l])
  BY <1>1, <1>2, <1>3
<1>9. LastIsTold'
  BY <1>1, <1>8 DEF LastIsTold, Announced, H!Overall, H!WorstStatus, H!Latest
<1>10. NoneTwice'
  BY <1>1 DEF NoneTwice
<1> QED
  BY <1>5, <1>7, <1>9, <1>10

\* It tells what has changed since the last.
LEMMA DetectKeepsReported ==
    ASSUME HealthTyped, HealthTyped', LatestIsKept, TicksCover, LastIsTold, NoneTwice,
           NEW k \in Ticks, H!Detect(k), \A l \in Ticks : Runs(l) => l = k, used'["down"] = used["down"]
    PROVE  LatestIsKept' /\ TicksCover' /\ LastIsTold' /\ NoneTwice'
<1>1. samples' = samples /\ now' = now /\ tick[k].pc = "detect"
  BY DEF H!Detect, H!stored, H!world
<1>2. /\ tick'[k] = [pc |-> "insert", ts |-> tick[k].ts, got |-> tick[k].got]
      /\ \A l \in Ticks \ {k} : tick'[l] = tick[l]
  BY TickGoesOn DEF TickStep
<1>3. tick'[k].pc = "insert" /\ tick'[k].got = tick[k].got
  BY <1>2
<1>4. Running /\ Running'
  BY <1>1, <1>3 DEF Running, Runs
<1>5. LatestIsKept'
  BY <1>1, <1>4, NewestStays
<1>6. TicksCover'
  BY <1>1, <1>2, <1>3 DEF TicksCover, Covers
<1> DEFINE next == H!Overall(tick[k].got)
           prev == H!Overall(H!Latest)
<1>7. events' = IF next = "UNKNOWN" \/ prev = "UNKNOWN" \/ prev = next THEN events ELSE Append(events, next)
  BY DEF H!Detect, H!DetectHealthTransition
<1>8. \A l \in Ticks : tick[l].pc # "insert"
  BY <1>1 DEF Runs
<1>9. Announced(prev) /\ (samples = {} => events = <<>>)
  BY <1>8 DEF LastIsTold
<1>10. samples = {} => H!Latest = {}
  BY DEF H!Latest
<1>11. H!Latest \in SUBSET Sampled /\ tick[k].got \in SUBSET Sampled /\ events \in Seq(H!Statuses)
  BY DEF HealthTyped, HealthTicks, H!Latest
<1>12. samples # {} => H!Latest # {} /\ \E t \in Targets : TRUE
  <2> SUFFICES ASSUME samples # {} PROVE H!Latest # {} /\ \E t \in Targets : TRUE
    OBVIOUS
  <2>1. PICK ts \in 0..now : NewestAt(ts)
    BY DEF LatestIsKept
  <2>2. ts \in Nat /\ samples \in SUBSET Sampled /\ (\A s \in samples : s.ts <= ts) /\ Covers(At(samples, ts))
    BY <2>1 DEF NewestAt, HealthTyped
  <2>3. H!Latest = At(samples, ts) /\ At(samples, ts) # {}
    BY <2>2, LatestAre DEF H!Latest
  <2> QED
    BY <2>2, <2>3 DEF Sampled, At
<1>13. samples # {} => tick[k].got # {}
  <2>1. Covers(tick[k].got)
    BY <1>1 DEF TicksCover
  <2> QED
    BY <1>12, <2>1 DEF Covers
<1>14. samples = {} => prev = "UNKNOWN"
  BY <1>10, <1>11, WorstIsAStatus
<1>15. samples # {} => next \in H!Statuses /\ prev \in H!Statuses
  BY <1>11, <1>12, <1>13, WorstIsAStatus
<1>16. samples = {} => events' = <<>>
  BY <1>7, <1>9, <1>14
<1>17. samples # {} => events' = IF prev = next THEN events ELSE Append(events, next)
  BY <1>7, <1>15 DEF H!Statuses
<1> HIDE DEF next, prev
<1>18. (events' # <<>> => events'[Len(events')] = next) /\ NoneTwice'
  <2>1. CASE samples = {}
    BY <1>16, <2>1 DEF NoneTwice
  <2>2. CASE samples # {} /\ prev = next
    BY <1>9, <1>17, <2>2 DEF NoneTwice, Announced
  <2>3. CASE samples # {} /\ prev # next
    <3>1. events' = Append(events, next) /\ next \in H!Statuses
      BY <1>15, <1>17, <2>3
    <3>2. Len(events') = Len(events) + 1 /\ events'[Len(events')] = next /\ Len(events) \in Nat
          /\ \A i \in 1..Len(events) : events'[i] = events[i]
      BY <1>11, <3>1
    <3>3. ASSUME NEW i \in 1..(Len(events') - 1) PROVE events'[i] # events'[i + 1]
      <4>1. CASE i = Len(events)
        <5>1. events # <<>> /\ events'[i] = events[Len(events)] /\ events'[i + 1] = next
          BY <1>11, <3>2, <3>3, <4>1
        <5> QED
          BY <1>9, <2>3, <5>1 DEF Announced
      <4>2. CASE i # Len(events)
        <5>1. i \in 1..(Len(events) - 1) /\ i + 1 \in 1..Len(events) /\ i \in 1..Len(events)
          BY <3>2, <3>3, <4>2
        <5> QED
          BY <3>2, <5>1 DEF NoneTwice
      <4> QED
        BY <4>1, <4>2
    <3> QED
      BY <3>2, <3>3 DEF NoneTwice
  <2> QED
    BY <2>1, <2>2, <2>3
<1>19. \A l \in Ticks : tick'[l].pc = "insert" => H!Overall(tick'[l].got) = next
  BY <1>2, <1>3, <1>8 DEF next
<1>20. LastIsTold'
  <2>1. \A l \in Ticks : tick'[l].pc = "insert" => (events' # <<>> => events'[Len(events')] = H!Overall(tick'[l].got))
    BY <1>18, <1>19
  <2>2. \A l \in Ticks : (tick[l].pc = "insert" => Announced(H!Overall(tick[l].got)))'
    BY <2>1 DEF Announced, H!Overall, H!WorstStatus
  <2> QED
    BY <1>1, <1>3, <1>16, <2>2 DEF LastIsTold
<1> QED
  BY <1>5, <1>6, <1>18, <1>20

\* Its samples are the latest.
LEMMA InsertKeepsReported ==
    ASSUME HealthTyped, HealthTyped', OnceEach, LatestIsKept, TicksCover, LastIsTold, NoneTwice,
           NEW k \in Ticks, H!Insert(k), tick[k].ts = now, \A l \in Ticks : Runs(l) => l = k,
           used'["down"] = used["down"]
    PROVE  LatestIsKept' /\ TicksCover' /\ LastIsTold' /\ NoneTwice'
<1> DEFINE got == tick[k].got
<1>1. samples' = samples \cup got /\ now' = now /\ events' = events /\ tick[k].pc = "insert"
  BY DEF H!Insert, H!world
<1>2. tick'[k] = H!Idle /\ \A l \in Ticks \ {k} : tick'[l] = tick[l]
  BY TickGoesOn DEF TickStep
<1>3. \A l \in Ticks : tick'[l].pc = "idle"
  BY <1>2 DEF Runs, H!Idle
<1>4. samples \in SUBSET Sampled /\ got \in SUBSET Sampled /\ now \in Nat /\ used["down"] \in Nat
  <2>1. used["down"] \in Nat
    BY DEF HealthTyped, H!Kinds
  <2> QED
    BY <2>1 DEF HealthTyped, HealthTicks
<1>5. Covers(got) /\ Announced(H!Overall(got))
  BY <1>1 DEF TicksCover, LastIsTold
<1>6. TickIsOwn(k) /\ Runs(k)
  BY <1>1 DEF OnceEach, Runs
<1>7. \A s \in got : s.ts = now
  BY <1>6 DEF TickIsOwn
<1>8. \A s \in samples : s.ts < now
  <2>1. \A s \in samples : s.ts <= now /\ s.ts # now /\ s.ts \in Nat
    BY <1>4, <1>6 DEF TickIsOwn, OnceEach, Sampled
  <2> QED
    BY <1>4, <2>1
<1> HIDE DEF got
<1>9. /\ \A s \in samples' : s.ts <= now
      /\ At(samples', now) = got /\ Covers(At(samples', now))
  <2>1. samples' = samples \cup got /\ (\A s \in samples : s.ts < now) /\ (\A s \in got : s.ts = now) /\ Covers(got)
    BY <1>1, <1>5, <1>7, <1>8
  <2> QED
    BY ONLY <1>4, <2>1, LatestAdded
<1>10. \A u \in {now} : NewestAt(u)'
  BY <1>1, <1>9 DEF NewestAt, Covers, At
<1>11. LatestIsKept'
  <2>1. now \in 0..now' /\ now' - now <= used'["down"] + (IF Running' THEN 1 ELSE 0)
    BY <1>1, <1>4
  <2> QED
    BY <1>10, <2>1 DEF LatestIsKept
<1>12. H!Latest' = got
  <2>1. samples' \in SUBSET Sampled
    BY DEF HealthTyped
  <2>2. {s \in samples' : \A o \in samples' : o.target = s.target => o.ts <= s.ts} = got
    BY <1>4, <1>9, <2>1, LatestAre
  <2> QED
    BY <2>2 DEF H!Latest
<1>13. TicksCover'
  BY <1>3 DEF TicksCover
<1>14. LastIsTold'
  <2>1. samples' = {} => events' = <<>>
    BY <1>1 DEF LastIsTold
  <2>2. H!Overall(H!Latest)' = H!Overall(got)
    BY <1>12 DEF H!Overall, H!WorstStatus
  <2>3. Announced(H!Overall(H!Latest))'
    BY <1>1, <1>5, <2>2 DEF Announced
  <2> QED
    BY <1>3, <2>1, <2>3 DEF LastIsTold
<1>15. NoneTwice'
  BY <1>1 DEF NoneTwice
<1> QED
  BY <1>11, <1>13, <1>14, <1>15

\* The latest are too young to be pruned.
LEMMA PruneKeepsReported ==
    ASSUME HealthTyped, HealthTyped', LatestIsKept, TicksCover, LastIsTold, NoneTwice, H!Prune,
           used["down"] < RawKept, used["down"] \in Nat
    PROVE  LatestIsKept' /\ TicksCover' /\ LastIsTold' /\ NoneTwice'
<1>1. samples' = {s \in samples : s.ts >= now - RawKept} /\ UNCHANGED <<now, events, tick, used>>
  BY DEF H!Prune, H!world
<1>2. CASE samples = {}
  <2>1. samples' = samples
    BY <1>1, <1>2
  <2> QED
    BY <1>1, <2>1, QuietKeepsReported
<1>3. CASE samples # {}
  <2>1. PICK ts \in 0..now : NewestAt(ts) /\ now - ts <= used["down"] + (IF Running THEN 1 ELSE 0)
    BY <1>3 DEF LatestIsKept
  <2>2. ts \in Nat /\ now \in Nat /\ samples \in SUBSET Sampled /\ samples' \in SUBSET Sampled
    BY <2>1 DEF HealthTyped
  <2>3. ts >= now - RawKept
    <3>1. used["down"] + (IF Running THEN 1 ELSE 0) <= RawKept
      OBVIOUS
    <3>2. now - ts <= RawKept
      BY <2>1, <2>2, <3>1
    <3> QED
      BY <2>2, <3>2
  <2>4. (\A s \in samples : s.ts <= ts) /\ Covers(At(samples, ts))
    BY <2>1 DEF NewestAt
  <2>5. At(samples', ts) = At(samples, ts) /\ \A s \in samples' : s.ts <= ts
    BY <1>1, <2>3, <2>4 DEF At
  <2>6. Covers(At(samples', ts))
    BY <2>4, <2>5
  <2>7. /\ H!Latest = At(samples, ts) /\ At(samples, ts) # {}
        /\ H!Latest' = At(samples', ts)
    <3>1. /\ {s \in samples : \A o \in samples : o.target = s.target => o.ts <= s.ts} = At(samples, ts)
          /\ At(samples, ts) # {}
      BY <1>3, <2>2, <2>4, LatestAre
    <3>2. {s \in samples' : \A o \in samples' : o.target = s.target => o.ts <= s.ts} = At(samples', ts)
      BY <2>2, <2>5, <2>6, LatestAre
    <3> QED
      BY <3>1, <3>2 DEF H!Latest
  <2>8. \A u \in {ts} : NewestAt(u)'
    BY <2>5, <2>6 DEF NewestAt, Covers, At
  <2>9. Running' <=> Running
    BY <1>1 DEF Running, Runs
  <2>10. LatestIsKept'
    BY <1>1, <2>1, <2>8, <2>9 DEF LatestIsKept
  <2>11. TicksCover'
    BY <1>1 DEF TicksCover, Covers
  <2>12. H!Latest' = H!Latest /\ samples' # {}
    BY <2>5, <2>7 DEF At
  <2>13. H!Overall(H!Latest)' = H!Overall(H!Latest)
    BY <2>12 DEF H!Overall, H!WorstStatus
  <2>14. LastIsTold'
    BY <1>1, <2>12, <2>13 DEF LastIsTold, Announced, H!Overall, H!WorstStatus
  <2>15. NoneTwice'
    BY <1>1 DEF NoneTwice
  <2> QED
    BY <2>10, <2>11, <2>14, <2>15
<1> QED
  BY <1>2, <1>3

\* Every step keeps that what is told is what is.
LEMMA ReportedPreserved ==
    ASSUME HealthTyped, HealthTyped', OnceEach, TicksTakeTurns, NothingGoes, Reported, H!Next PROVE Reported'
<1> SUFFICES ASSUME Undisturbed' PROVE LatestIsKept' /\ TicksCover' /\ LastIsTold' /\ NoneTwice'
  BY DEF Reported
<1>1. /\ Undisturbed /\ exists = "yes" /\ (\A t \in Targets : answer[t] # "gone")
      /\ \A k \in Ticks : Runs(k) => tick[k].ts = now /\ \A l \in Ticks : Runs(l) => l = k
      /\ \A k \in Ticks : H!StartTick(k) => ~Running
      /\ \A k \in Ticks : ~H!InsertFails(k)
      /\ ~H!StartDelete /\ ~H!Delete /\ ~H!Crash
      /\ ~H!Down => used'["down"] = used["down"]
      /\ used["down"] < RawKept /\ used["down"] \in Nat
  BY StaysUndisturbed
<1>2. LatestIsKept /\ TicksCover /\ LastIsTold /\ NoneTwice
  BY <1>1 DEF Reported
<1>3. ASSUME NEW k \in Ticks, TickStep(k) PROVE ~H!Down
  <2>1. H!StartTick(k) => tick' # tick
    <3>1. H!StartTick(k) => tick'[k] = [pc |-> "probe", ts |-> now + 1, got |-> {}] /\ tick[k] = H!Idle
      BY <1>1, <1>3, TickGoesOn DEF H!StartTick
    <3>2. [pc |-> "probe", ts |-> now + 1, got |-> {}].pc # H!Idle.pc
      BY DEF H!Idle
    <3> QED
      BY <3>1, <3>2
  <2>2. ~H!StartTick(k) => Runs(k)
    BY <1>3 DEF TickStep, H!Probe, H!Detect, H!Insert, H!InsertFails, Runs
  <2> QED
    BY <2>1, <2>2, BusyRuns DEF H!Down
<1>4. ASSUME NEW k \in Ticks, TickStep(k) PROVE LatestIsKept' /\ TicksCover' /\ LastIsTold' /\ NoneTwice'
  <2>1. used'["down"] = used["down"]
    BY <1>1, <1>3, <1>4
  <2>2. CASE H!StartTick(k)
    BY <1>1, <1>2, <2>1, <2>2, StartKeepsReported
  <2>3. CASE H!Probe(k)
    BY <1>1, <1>2, <2>1, <2>3, ProbeKeepsReported
  <2>4. CASE H!Detect(k)
    <3>1. Runs(k)
      BY <2>4 DEF H!Detect, Runs
    <3> QED
      BY <1>1, <1>2, <2>1, <2>4, <3>1, DetectKeepsReported
  <2>5. CASE H!Insert(k)
    <3>1. Runs(k)
      BY <2>5 DEF H!Insert, Runs
    <3> QED
      BY <1>1, <1>2, <2>1, <2>5, <3>1, InsertKeepsReported
  <2> QED
    BY <1>1, <1>4, <2>2, <2>3, <2>4, <2>5 DEF TickStep
<1>5. H!RollupReads \/ H!RollupWrites \/ H!Prune => ~H!Down
  <2>1. H!RollupReads \/ H!RollupWrites \/ H!Prune => now' = now
    BY DEF H!RollupReads, H!RollupWrites, H!Prune, H!world
  <2> QED
    BY <2>1 DEF H!Down, HealthTyped
<1>6. H!RollupReads \/ H!RollupWrites => LatestIsKept' /\ TicksCover' /\ LastIsTold' /\ NoneTwice'
  <2>1. H!RollupReads \/ H!RollupWrites => UNCHANGED <<samples, events, tick>> /\ now' = now
    BY DEF H!RollupReads, H!RollupWrites, H!world, H!stored
  <2> QED
    BY <1>1, <1>2, <1>5, <2>1, QuietKeepsReported
<1>7. H!Prune => LatestIsKept' /\ TicksCover' /\ LastIsTold' /\ NoneTwice'
  BY <1>1, <1>2, PruneKeepsReported
<1>8. ASSUME NEW t \in Targets, NEW reply \in Answers, H!Change(t, reply)
      PROVE  LatestIsKept' /\ TicksCover' /\ LastIsTold' /\ NoneTwice'
  <2>1. UNCHANGED <<samples, events, tick>> /\ now' = now
    BY <1>8 DEF H!Change, H!stored
  <2>2. ~H!Down
    BY <2>1 DEF H!Down, HealthTyped
  <2> QED
    BY <1>1, <1>2, <2>1, <2>2, QuietKeepsReported
<1>9. H!Down => LatestIsKept' /\ TicksCover' /\ LastIsTold' /\ NoneTwice'
  <2> SUFFICES ASSUME H!Down PROVE LatestIsKept' /\ TicksCover' /\ LastIsTold' /\ NoneTwice'
    OBVIOUS
  <2>1. UNCHANGED <<samples, events, tick>> /\ now' = now + 1
    BY DEF H!Down, H!stored
  <2>2. used'["down"] = used["down"] + 1
    <3>1. {"down"} \in SUBSET H!Kinds /\ H!Uses({"down"}) /\ used \in [H!Kinds -> Nat]
      BY DEF H!Down, H!Kinds, HealthTyped
    <3> QED
      BY <3>1, HealthEvents
  <2> QED
    BY <1>2, <2>1, <2>2, QuietKeepsReported
<1> QED
  BY <1>1, <1>4, <1>6, <1>7, <1>8, <1>9, HealthSteps DEF HealthStep

-----------------------------------------------------------------------------
(* Health: the theorems.                                                   *)

\* Nothing has been sampled in the beginning.
LEMMA HealthInvInitially == Init => HealthInv
<1> SUFFICES ASSUME Init PROVE HealthInv
  OBVIOUS
<1>1. /\ now = 0 /\ answer = [t \in Targets |-> "response"] /\ exists = "yes"
      /\ samples = {} /\ rollups = [i \in Hours |-> H!NoRow] /\ tick = [k \in Ticks |-> H!Idle]
      /\ roll = {} /\ due = FALSE /\ events = <<>> /\ used = [k \in H!Kinds |-> 0]
  BY DEF Init, H!Init, H!NoRows, Hours
<1>2. \A k \in Ticks : tick[k] = H!Idle /\ ~Runs(k) /\ tick[k].got = {} /\ tick[k].pc = "idle"
  BY <1>1 DEF H!Idle, Runs
<1>3. HealthTyped
  <2>1. answer \in [Targets -> H!Replies]
    BY <1>1 DEF H!Replies
  <2>2. H!NoRow \in Totals /\ H!Idle \in HealthTicks
    BY DEF H!NoRow, Totals, H!Idle, HealthTicks
  <2>3. rollups \in [Hours -> Totals] /\ tick \in [Ticks -> HealthTicks]
    BY <1>1, <2>2
  <2>4. used \in [H!Kinds -> Nat] /\ now \in 0..HealthTime
    BY <1>1
  <2>5. events \in Seq(H!Statuses)
    BY <1>1
  <2>6. due \in BOOLEAN
    BY <1>1
  <2> QED
    BY <1>1, <2>1, <2>3, <2>4, <2>5, <2>6 DEF HealthTyped
<1>4. OnceEach
  <2>1. \A k \in Ticks : TickIsOwn(k)
    BY <1>2 DEF TickIsOwn, Distinct
  <2> QED
    BY <1>1, <2>1 DEF OnceEach, Distinct
<1>5. TicksTakeTurns
  BY <1>2 DEF TicksTakeTurns
<1>6. DiesWithProject /\ NothingGoes
  BY <1>1 DEF DiesWithProject, NothingGoes
<1>7. Reported
  BY <1>1, <1>2 DEF Reported, LatestIsKept, TicksCover, LastIsTold, Announced, NoneTwice
<1>8. Measured
  <2>1. \A t \in Targets, b \in H!Buckets : rollups[<<t, b>>].total = 0
    BY <1>1 DEF Hours, H!NoRow
  <2>2. ASSUME NEW t \in Targets, NEW b \in H!Buckets PROVE RowIsMeasured(t, b) /\ RollIsMeasured(t, b)
    <3>1. rollups[<<t, b>>].total = 0 /\ ~(0 > 0)
      BY <2>1
    <3> QED
      BY <1>1, <3>1 DEF RowIsMeasured, RollIsMeasured
  <2> QED
    BY <2>2 DEF Measured
<1>9. AllAwait
  BY <1>1 DEF AllAwait
<1>10. DueAtFirst
  BY <1>1 DEF DueAtFirst
<1>11. HoursCount
  BY <1>1 DEF HoursCount, AllCount, Counts, H!SamplesOf
<1> QED
  BY <1>3, <1>4, <1>5, <1>6, <1>7, <1>8, <1>9, <1>10, <1>11 DEF HealthInv

\* Every step of the component keeps the strengthening.
LEMMA HealthInvStep == HealthInv /\ H!Next => HealthInv'
<1> SUFFICES ASSUME HealthInv, H!Next PROVE HealthInv'
  OBVIOUS
<1>1. /\ HealthTyped /\ OnceEach /\ TicksTakeTurns /\ DiesWithProject /\ NothingGoes /\ Reported /\ Measured /\ AllAwait
      /\ DueAtFirst /\ HoursCount
  BY DEF HealthInv
<1>2. HealthTyped'
  BY <1>1, HealthTypedPreserved
<1>3. OnceEach' /\ TicksTakeTurns' /\ DiesWithProject' /\ NothingGoes'
  BY <1>1, OnceEachPreserved, TurnsPreserved, DiesPreserved, NothingGoesPreserved
<1>4. Reported' /\ Measured' /\ AllAwait'
  BY <1>1, <1>2, ReportedPreserved, MeasuredPreserved, AllAwaitPreserved
<1>5. DueAtFirst' /\ HoursCount'
  BY <1>1, <1>2, DueAtFirstPreserved, HoursCountPreserved
<1> QED
  BY <1>2, <1>3, <1>4, <1>5 DEF HealthInv

\* The steps of the others leave it alone.
LEMMA HealthInvElsewhere == HealthInv /\ UNCHANGED hVars => HealthInv'
<1> SUFFICES ASSUME HealthInv, UNCHANGED hVars PROVE HealthInv'
  OBVIOUS
<1>1. UNCHANGED <<now, answer, samples, rollups, tick, roll, due, events, exists, used>>
  BY DEF hVars
<1>2. HealthTyped'
  BY <1>1 DEF HealthInv, HealthTyped
<1>3. OnceEach'
  BY <1>1 DEF HealthInv, OnceEach, TickIsOwn, Runs, Distinct
<1>4. TicksTakeTurns' /\ DiesWithProject' /\ NothingGoes'
  BY <1>1 DEF HealthInv, TicksTakeTurns, DiesWithProject, NothingGoes, Runs, H!Never
<1>5. Undisturbed' => Undisturbed
  BY <1>1 DEF Undisturbed, H!BriefOutages, H!Never, H!Disturbances
<1>6. Reported'
  BY <1>1, <1>2, <1>5, QuietKeepsReported DEF HealthInv, Reported
<1>7. Measured'
  <2> SUFFICES ASSUME H!Never({"overlap", "during"})', NEW t \in Targets, NEW b \in H!Buckets
               PROVE  RowIsMeasured(t, b)' /\ RollIsMeasured(t, b)'
    BY DEF Measured
  <2>1. RowIsMeasured(t, b) /\ RollIsMeasured(t, b)
    BY <1>1 DEF HealthInv, Measured, H!Never
  <2>2. H!SamplesOf(t, b)' = H!SamplesOf(t, b)
    BY <1>1 DEF H!SamplesOf, H!BucketOf
  <2>3. now' >= now
    BY <1>1 DEF HealthInv, HealthTyped
  <2> QED
    BY <1>1, <1>2, <2>1, <2>2, <2>3, MeasuredStays DEF HealthInv
<1>8. AllAwait'
  BY <1>1 DEF HealthInv, AllAwait, Awaits, Counted, Horizon, H!BucketOf, H!Never, RollupsCatchUp
<1>9. DueAtFirst'
  BY <1>1 DEF HealthInv, DueAtFirst
<1>10. HoursCount'
  <2> SUFFICES ASSUME H!Never({"overlap", "during"})', NEW t \in Targets, NEW b \in H!Buckets PROVE AllCount(t, b)'
    BY DEF HoursCount
  <2>1. AllCount(t, b)
    BY <1>1 DEF HealthInv, HoursCount, H!Never
  <2>2. H!SamplesOf(t, b)' = H!SamplesOf(t, b)
    BY <1>1 DEF H!SamplesOf, H!BucketOf
  <2>3. H!Closed(b)' <=> H!Closed(b)
    BY <1>1, <1>2, HoursClose DEF HealthInv
  <2>4. H!RowOf(H!SamplesOf(t, b))' = H!RowOf(H!SamplesOf(t, b)) /\ H!RowOf(Later(t, b))' = H!RowOf(Later(t, b))
    <3>1. Later(t, b)' = Later(t, b)
      BY <2>2 DEF Later
    <3> QED
      BY <2>2, <3>1, CardinalityIsOne DEF H!RowOf
  <2> QED
    BY <1>1, <2>1, <2>2, <2>3, <2>4 DEF AllCount, Counts, IsOf
<1> QED
  BY <1>2, <1>3, <1>4, <1>6, <1>7, <1>8, <1>9, <1>10 DEF HealthInv

\* Every step keeps the strengthening.
LEMMA HealthInvPreserved == HealthInv /\ [Next]_<<part, hVars, iVars, qVars, dVars>> => HealthInv'
BY HealthInvStep, HealthInvElsewhere DEF Next

\* It says what is told, and how an hour is measured.
LEMMA HealthInvSays == HealthInv => HealthIsTold /\ H!UptimeMatchesSamples
<1> SUFFICES ASSUME HealthInv PROVE HealthIsTold /\ H!UptimeMatchesSamples
  OBVIOUS
<1>1. HealthTyped /\ OnceEach
  BY DEF HealthInv
<1>2. ~H!Busy <=> \A k \in Ticks : ~Runs(k)
  BY <1>1, BusyRuns
<1>3. H!TypeOK
  <2>1. rollups \in [Targets \X H!Buckets -> [total : 0..Hour, up : 0..Hour]]
    BY <1>1 DEF HealthTyped, Hours, Totals
  <2>2. samples \subseteq [target : Targets, status : H!Statuses, ts : 0..HealthTime]
    BY <1>1 DEF HealthTyped, Sampled
  <2>3. \A k \in Ticks : tick[k].pc \in {"idle", "probe", "detect", "insert"}
    BY <1>1 DEF HealthTyped, HealthTicks
  <2>4. \A rows \in roll : DOMAIN rows = Targets \X H!Buckets
    BY <1>1 DEF HealthTyped, Hours
  <2> QED
    BY <1>1, <2>1, <2>2, <2>3, <2>4 DEF H!TypeOK, HealthTyped
<1>4. H!Never(H!Disturbances) /\ H!BriefOutages => LastIsTold /\ NoneTwice
  BY DEF HealthInv, Reported, Undisturbed
<1>5. H!EventsAreChanges
  BY <1>4 DEF H!EventsAreChanges, NoneTwice
<1>6. H!AnnouncedIsCurrent
  <2> SUFFICES ASSUME H!Never(H!Disturbances), H!BriefOutages, ~H!Busy, events # <<>>
               PROVE  events[Len(events)] = H!Overall(H!Latest)
    BY DEF H!AnnouncedIsCurrent
  <2>1. \A k \in Ticks : tick[k].pc # "insert"
    BY <1>2 DEF Runs
  <2> QED
    BY <1>4, <2>1 DEF LastIsTold, Announced
<1>7. H!HealthDiesWithProject
  BY DEF HealthInv, DiesWithProject, H!HealthDiesWithProject, Hours
<1>8. H!UptimeMatchesSamples
  <2> SUFFICES ASSUME H!Never({"overlap", "during"}), NEW t \in Targets, NEW b \in H!Buckets,
                      b * Hour >= now - RawKept, H!HourShown(t, b).total > 0
               PROVE  H!HourShown(t, b) = H!RowOf(H!SamplesOf(t, b))
    BY DEF H!UptimeMatchesSamples
  <2>1. RowIsMeasured(t, b)
    BY DEF HealthInv, Measured
  <2>2. Within(b)
    BY DEF Within
  <2> QED
    BY <2>1, <2>2 DEF RowIsMeasured, H!HourShown
<1> QED
  BY <1>3, <1>5, <1>6, <1>7, <1>8 DEF HealthIsTold

\* No step takes a sample whose hour it does not leave rolled up, and counted.
LEMMA HistoryIsKeptByStep ==
    ASSUME HealthInv, H!Next, exists' = "yes", H!Never({"crash", "overlap", "during"}), (used["down"] + 1) * Hour < RawKept,
           NEW s \in samples \ samples', H!BucketOf(s.ts) * Hour >= now - RollupKept
    PROVE  /\ rollups'[<<s.target, H!BucketOf(s.ts)>>].total > 0
           /\ IsOf(rollups'[<<s.target, H!BucketOf(s.ts)>>], s.target, H!BucketOf(s.ts))
<1>0. H!Never({"crash", "overlap"}) /\ H!Never({"overlap", "during"})
  BY DEF H!Never
<1>1. H!Prune
  <2>1. ASSUME NEW k \in Ticks, TickStep(k) PROVE samples \subseteq samples'
    BY <2>1 DEF TickStep, H!StartTick, H!Probe, H!Detect, H!Insert, H!InsertFails, H!stored
  <2>2. H!RollupReads \/ H!RollupWrites \/ H!Delete \/ H!Down \/ H!Crash => samples' = samples
    BY DEF H!RollupReads, H!RollupWrites, H!Delete, H!Down, H!Crash, H!stored
  <2>3. ASSUME NEW u, NEW reply, H!Change(u, reply) PROVE samples' = samples
    BY <2>3 DEF H!Change, H!stored
  <2>4. ~H!StartDelete
    BY DEF H!StartDelete
  <2> QED
    BY <2>1, <2>2, <2>3, <2>4, HealthSteps DEF HealthStep
<1>2. HealthTyped /\ RollupsCatchUp
  BY DEF HealthInv, RollupsCatchUp
<1>3. exists = "yes" /\ samples' = {o \in samples : o.ts >= now - RawKept}
  BY <1>1 DEF H!Prune, H!world
<1>4. Awaits(s)
  BY <1>0, <1>2, <1>3 DEF HealthInv, AllAwait
<1>5. now > Horizon(s) + 1
  <2>1. s.ts < now - RawKept
    BY <1>2, <1>3 DEF HealthTyped, Sampled
  <2> QED
    BY <1>2, <2>1, WaitsWhileKept
<1>6. Horizon(s) \in Nat /\ now \in Nat /\ H!BucketOf(s.ts) * Hour \in Nat /\ <<s.target, H!BucketOf(s.ts)>> \in Hours
  <2>1. s.target \in Targets /\ now \in Nat
    BY <1>2 DEF HealthTyped, Sampled
  <2>2. /\ H!BucketOf(s.ts) \in H!Buckets /\ H!BucketOf(s.ts) * Hour \in Nat /\ (used["down"] + 1) * Hour \in Nat
        /\ Horizon(s) = H!BucketOf(s.ts) * Hour + (used["down"] + 1) * Hour
    BY <1>2, HorizonIs
  <2> QED
    BY <2>1, <2>2 DEF Hours
<1>7. ~(H!BucketOf(s.ts) * Hour < now - RollupKept)
  BY <1>6
<1>8. Counted(rollups, s)
  BY <1>4, <1>5, <1>6, <1>7 DEF Awaits
<1>9. rollups'[<<s.target, H!BucketOf(s.ts)>>] = rollups[<<s.target, H!BucketOf(s.ts)>>]
  BY <1>1, <1>6, <1>7 DEF H!Prune, Hours
<1>10. H!Closed(H!BucketOf(s.ts)) /\ s.target \in Targets /\ H!BucketOf(s.ts) \in H!Buckets
  <2>1. /\ H!BucketOf(s.ts) \in H!Buckets /\ H!BucketOf(s.ts) \in Nat /\ (used["down"] + 1) * Hour \in Nat
        /\ Horizon(s) = H!BucketOf(s.ts) * Hour + (used["down"] + 1) * Hour /\ (used["down"] + 1) * Hour >= Hour
    BY <1>2, HorizonIs
  <2>2. now > H!BucketOf(s.ts) * Hour + Hour
    <3>1. \A a, d, n \in Nat : d >= Hour /\ n > a + d + 1 => n > a + Hour
      OBVIOUS
    <3> QED
      BY <1>5, <1>6, <2>1, <3>1
  <2>3. H!BucketOf(s.ts) < H!BucketOf(now)
    BY <1>6, <2>1, <2>2, PastItsEnd
  <2>4. s.target \in Targets
    BY <1>2 DEF HealthTyped, Sampled
  <2> QED
    BY <2>1, <2>3, <2>4 DEF H!Closed, H!CurrentBucket
<1>11. s \in H!SamplesOf(s.target, H!BucketOf(s.ts))
  BY DEF H!SamplesOf
<1>12. Counts(rollups[<<s.target, H!BucketOf(s.ts)>>], s.target, H!BucketOf(s.ts))
  BY <1>0, <1>10 DEF HealthInv, HoursCount, AllCount
<1> QED
  BY <1>8, <1>9, <1>10, <1>11, <1>12 DEF Counted, Counts

\* For every number of targets and of ticks at once, every length of an hour and of what
\* is kept, and every sequence of answers: an event is a change of the project's status and
\* the last says what it is, while ticks take turns, every insert succeeds, no target
\* goes and outages are brief; nothing is left of a project that is deleted, unless a job
\* ran beside its deletion (sampleAllProjects, detectHealthTransition, clearProjectHealth).
THEOREM StatusIsTold == Spec => []HealthIsTold
BY HealthInvInitially, HealthInvPreserved, HealthInvSays, PTL DEF Spec

\* And: an hour is shown with the samples taken in it while they are kept; they are pruned
\* after it was rolled up, and the row they leave counts them all, or all but those of its
\* first interval. While samples are kept for longer than outages can make rollups wait
\* (rollupHealthSamples, pruneHealthSamples).
THEOREM HoursAreMeasured == Spec => UptimeIsKept
<1>1. HealthInv => H!TypeOK /\ H!UptimeMatchesSamples
  BY HealthInvSays DEF HealthIsTold
<1>2. HealthInv /\ [Next]_<<part, hVars, iVars, qVars, dVars>> =>
        [exists' = "yes" /\ H!Never({"crash", "overlap", "during"}) /\ (used["down"] + 1) * Hour < RawKept =>
           \A s \in samples \ samples' :
              LET b == H!BucketOf(s.ts)
                  row == rollups'[<<s.target, b>>]
                  ss == H!SamplesOf(s.target, b)
              IN  b * Hour >= now - RollupKept =>
                    row.total > 0 /\ row \in {H!RowOf(ss), H!RowOf({o \in ss : o.ts > b * Hour})}]_H!vars
  <2> SUFFICES ASSUME HealthInv, [Next]_<<part, hVars, iVars, qVars, dVars>>, UNCHANGED H!vars \/ H!Next,
                      exists' = "yes", H!Never({"crash", "overlap", "during"}), (used["down"] + 1) * Hour < RawKept,
                      NEW s \in samples \ samples', H!BucketOf(s.ts) * Hour >= now - RollupKept
               PROVE  \/ UNCHANGED H!vars
                      \/ /\ rollups'[<<s.target, H!BucketOf(s.ts)>>].total > 0
                         /\ IsOf(rollups'[<<s.target, H!BucketOf(s.ts)>>], s.target, H!BucketOf(s.ts))
    BY DEF Next, hVars, H!vars, IsOf, Later
  <2> QED
    BY HistoryIsKeptByStep
<1> QED
  BY <1>1, <1>2, HealthInvInitially, HealthInvPreserved, PTL DEF Spec, UptimeIsKept, H!HistoryIsKept

=============================================================================
