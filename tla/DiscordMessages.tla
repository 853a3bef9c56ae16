-------------------------- MODULE DiscordMessages --------------------------
(* The Discord messages a webhook keeps about GitHub subjects, one channel *)
(* (controllers/githubNotifications.ts, controllers/webhookController.ts,  *)
(* persistence/discordMessageRefPersistence.ts).                           *)
(*                                                                         *)
(* Every GitHub delivery is handled on its own: it looks the subject's     *)
(* message up, posts, edits or deletes it with one retry, and records the  *)
(* result. Discord is external: an attempt may be refused, or accepted     *)
(* while its answer is lost. What was posted by then is in the channel.    *)
EXTENDS Integers, Sequences, FiniteSets

CONSTANTS
    Subjects,     \* pull requests, issues, runs
    Life,         \* the deliveries about each subject, in the order GitHub sends them
    Configs,      \* ProjectWebhook.githubScenarios: per scenario, the sub-events subscribed to
    Lifecycles,   \* bound: the lifecycles to consider
    Flows,        \* bound: deliveries at once
    MaxMessages,  \* bound: messages posted
    Budgets       \* bound: each is how often events of the kinds it names may happen

Kinds == {"overlap",  \* a delivery starts while another is handled
          "failed",   \* an attempt fails and may be repeated
          "timeout",  \* an attempt is accepted but its answer is lost
          "manual",   \* a message is deleted in Discord
          "removed",  \* the webhook is deleted
          "crash"}

VARIABLES
    lifecycle,  \* GithubScenarioConfig.lifecycle
    webhook,    \* ProjectWebhookModel: the webhook exists
    refs,       \* DiscordMessageRefModel
    channel,    \* the messages in the channel: [id, subject, event]
    posted,     \* how many messages were ever posted
    sent,       \* how many events of each subject GitHub has sent
    byHand,     \* how many of its events were sent when a message was last deleted by hand
    flow,       \* per delivery: where it stands
    used        \* how often an event of each kind has happened

vars == <<lifecycle, webhook, refs, channel, posted, sent, byHand, flow, used>>
config == <<lifecycle, webhook>>
discord == <<channel, posted>>
subjects == <<sent, byHand>>

May(kinds) ==
    \E b \in Budgets : \A k \in Kinds :
        used[k] + (IF k \in kinds THEN 1 ELSE 0) <= IF k \in DOMAIN b THEN b[k] ELSE 0
Uses(kinds) ==
    /\ May(kinds)
    /\ used' = [k \in Kinds |-> used[k] + (IF k \in kinds THEN 1 ELSE 0)]
Never(kinds) == \A k \in kinds : used[k] = 0

NoMessage == 0
NoFlow == [pc |-> "done", subject |-> "none", event |-> <<"none", "none">>, ref |-> NoMessage,
           message |-> NoMessage, attempt |-> 0]
Goes(f, pc) == flow' = [flow EXCEPT ![f] = IF pc = "done" THEN NoFlow ELSE [@ EXCEPT !.pc = pc, !.attempt = 0]]
Ends(f) == Goes(f, "done")
S(f) == flow[f].subject
Quiet(s) == \A f \in Flows : S(f) # s
InChannel(id) == \E m \in channel : m.id = id

-----------------------------------------------------------------------------
(* A delivery *)

GITHUB_SCENARIO_SUBEVENTS ==
    [pull_request |-> {"opened", "approved", "changes_requested", "merged", "closed"},
     issue |-> {"opened", "closed"}, release |-> {"published"}, push |-> {"pushed"},
     workflow_run |-> {"failed", "succeeded"}]
GITHUB_TERMINAL_SUBEVENTS ==
    [c \in DOMAIN GITHUB_SCENARIO_SUBEVENTS |->
        GITHUB_SCENARIO_SUBEVENTS[c] \intersect
            (CASE c = "pull_request" -> {"merged", "closed"} [] c = "issue" -> {"closed"} [] OTHER -> {})]

\* The scenario and sub-event of a delivery [type, action, detail]; "none" when
\* it is not one that is surfaced.
NormalizeEvent(d) ==
    CASE d.type = "pull_request" /\ d.action = "opened" -> <<"pull_request", "opened">>
      [] d.type = "pull_request" /\ d.action = "closed" ->
           <<"pull_request", IF d.detail = "merged" THEN "merged" ELSE "closed">>
      [] d.type = "pull_request_review" /\ d.action = "submitted"
           /\ d.detail \in {"approved", "changes_requested"} -> <<"pull_request", d.detail>>
      [] d.type = "issues" /\ d.action \in {"opened", "closed"} -> <<"issue", d.action>>
      [] d.type = "release" /\ d.action = "published" -> <<"release", "published">>
      [] d.type = "push" /\ d.detail = "branch" -> <<"push", "pushed">>
      [] d.type = "workflow_run" /\ d.action = "completed" /\ d.detail = "success" ->
           <<"workflow_run", "succeeded">>
      [] d.type = "workflow_run" /\ d.action = "completed" /\ d.detail = "failure" ->
           <<"workflow_run", "failed">>
      [] OTHER -> <<"none", "none">>

\* normalizeGithubScenarios keeps the sub-events of a scenario; one without any
\* is dropped. The branch filter is part of what Configs subscribes to.
On(scenario) ==
    IF scenario \in DOMAIN Configs \intersect DOMAIN GITHUB_SCENARIO_SUBEVENTS
    THEN Configs[scenario] \intersect GITHUB_SCENARIO_SUBEVENTS[scenario] ELSE {}
ConfigMatches(evt) == evt[2] \in On(evt[1])

\* handleGithubWebhook and dispatchGithubEvent: the subject's next event
\* arrives; a webhook that does not subscribe to it is left alone.
Receive(f, s) ==
    /\ flow[f] = NoFlow /\ webhook /\ sent[s] < Len(Life[s])
    /\ LET evt == NormalizeEvent(Life[s][sent[s] + 1]) IN
       /\ Uses(IF ConfigMatches(evt) /\ \E g \in Flows : flow[g] # NoFlow THEN {"overlap"} ELSE {})
       /\ flow' = IF ~ConfigMatches(evt) THEN flow
                  ELSE [flow EXCEPT ![f] = [NoFlow EXCEPT !.pc = "lookup", !.subject = s, !.event = evt]]
    /\ sent' = [sent EXCEPT ![s] = @ + 1]
    /\ UNCHANGED <<config, refs, discord, byHand>>

EndsLife(evt) == lifecycle = "update_then_delete" /\ evt[2] \in GITHUB_TERMINAL_SUBEVENTS[evt[1]]

\* applyToWebhook reads the ref of the subject; findOne returns any.
Lookup(f) ==
    /\ flow[f].pc = "lookup"
    /\ LET existing == {r \in refs : r.subject = S(f)} IN
       IF lifecycle = "new" \/ existing = {}
       THEN IF EndsLife(flow[f].event) THEN Ends(f) ELSE Goes(f, "post")
       ELSE \E r \in existing :
              flow' = [flow EXCEPT ![f].ref = r.id, ![f].message = r.message,
                                   ![f].pc = IF EndsLife(flow[f].event) THEN "delete" ELSE "edit"]
    /\ UNCHANGED <<config, refs, discord, subjects, used>>

\* deliverNotificationWithRetry: a 429, a 5xx or a transport error is tried once
\* more. Gives up with the step `otherwise`.
Again(f, otherwise) ==
    IF flow[f].attempt = 0 THEN flow' = [flow EXCEPT ![f].attempt = 1]
    ELSE Goes(f, otherwise)

\* mutant: a failed edit is given up
AfterEdit_Done == "done"
AfterEdit == "post"
GivesUp(f) == CASE flow[f].pc = "edit" -> AfterEdit [] flow[f].pc = "delete" -> "untrack" [] OTHER -> "done"

AttemptFails(f) ==
    /\ flow[f].pc \in {"post", "edit", "delete"}
    /\ Uses({"failed"})
    /\ Again(f, GivesUp(f))
    /\ UNCHANGED <<config, refs, discord, subjects>>

AfterPost == IF lifecycle = "new" THEN "done" ELSE "track"

Message(f) == [id |-> posted + 1, subject |-> S(f), event |-> flow[f].event]

\* sendScenarioMessage.
Post(f) ==
    /\ flow[f].pc = "post" /\ posted < MaxMessages
    /\ channel' = channel \union {Message(f)}
    /\ posted' = posted + 1
    /\ IF AfterPost = "done" THEN Ends(f)
       ELSE flow' = [flow EXCEPT ![f].pc = AfterPost, ![f].message = posted + 1]
    /\ UNCHANGED <<config, refs, subjects, used>>

\* The message is in the channel, and the sender does not know.
PostTimesOut(f) ==
    /\ flow[f].pc = "post" /\ posted < MaxMessages
    /\ Uses({"timeout"})
    /\ channel' = channel \union {Message(f)}
    /\ posted' = posted + 1
    /\ Again(f, "done")
    /\ UNCHANGED <<config, refs, subjects>>

Edited(id, e) == {IF m.id = id THEN [m EXCEPT !.event = e] ELSE m : m \in channel}

\* editScenarioMessage; a message that is gone is posted anew.
Edit(f) ==
    /\ flow[f].pc = "edit"
    /\ channel' = Edited(flow[f].message, flow[f].event)
    /\ Goes(f, IF InChannel(flow[f].message) THEN "track" ELSE AfterEdit)
    /\ UNCHANGED <<config, refs, posted, subjects, used>>

\* upsertRef: the row that was found is updated, otherwise one is added.
Track(f) ==
    /\ flow[f].pc = "track"
    /\ LET id == IF flow[f].ref = NoMessage THEN flow[f].message ELSE flow[f].ref IN
       refs' = {r \in refs : r.id # id} \union {[id |-> id, subject |-> S(f), message |-> flow[f].message]}
    /\ Ends(f)
    /\ UNCHANGED <<config, discord, subjects, used>>

\* deleteScenarioMessage; a message that is gone counts as a failure (404).
DeleteMessage(f) ==
    /\ flow[f].pc = "delete"
    /\ channel' = {m \in channel : m.id # flow[f].message}
    /\ Goes(f, "untrack")
    /\ UNCHANGED <<config, refs, posted, subjects, used>>

\* The ref goes, whether or not the message did.
Untrack(f) ==
    /\ flow[f].pc = "untrack"
    /\ refs' = {r \in refs : r.id # flow[f].ref}
    /\ Ends(f)
    /\ UNCHANGED <<config, discord, subjects, used>>

-----------------------------------------------------------------------------
(* The environment *)

RefsAfterDelete == {}

\* deleteWebhook and clearProjectWebhooks.
DeleteWebhook ==
    /\ webhook
    /\ Uses({"removed"} \union (IF \E f \in Flows : flow[f] # NoFlow THEN {"overlap"} ELSE {}))
    /\ webhook' = FALSE /\ refs' = RefsAfterDelete
    /\ UNCHANGED <<lifecycle, discord, subjects, flow>>

DeletedByHand(m) ==
    /\ m \in channel
    /\ Uses({"manual"})
    /\ channel' = channel \ {m}
    /\ byHand' = [byHand EXCEPT ![m.subject] = sent[m.subject]]
    /\ UNCHANGED <<config, refs, posted, sent, flow>>

Crash ==
    /\ \E f \in Flows : flow[f] # NoFlow
    /\ Uses({"crash"})
    /\ flow' = [f \in Flows |-> NoFlow]
    /\ UNCHANGED <<config, refs, discord, subjects>>

-----------------------------------------------------------------------------

Init ==
    /\ lifecycle \in Lifecycles /\ webhook = TRUE
    /\ refs = {} /\ channel = {} /\ posted = 0
    /\ sent = [s \in Subjects |-> 0] /\ byHand = [s \in Subjects |-> 0]
    /\ flow = [f \in Flows |-> NoFlow]
    /\ used = [k \in Kinds |-> 0]

Next ==
    \/ \E f \in Flows, s \in Subjects : Receive(f, s)
    \/ \E f \in Flows : \/ Lookup(f) \/ AttemptFails(f)
                        \/ Post(f) \/ PostTimesOut(f) \/ Edit(f) \/ Track(f)
                        \/ DeleteMessage(f) \/ Untrack(f)
    \/ DeleteWebhook
    \/ \E m \in channel : DeletedByHand(m)
    \/ Crash

Spec == Init /\ [][Next]_vars

-----------------------------------------------------------------------------
(* Properties *)

TypeOK ==
    /\ lifecycle \in {"new", "update", "update_then_delete"} /\ webhook \in BOOLEAN
    /\ \A r \in refs : r.subject \in Subjects /\ r.message \in 1..posted
    /\ \A m \in channel : m.id \in 1..posted /\ m.subject \in Subjects
    /\ posted \in 0..MaxMessages /\ \A s \in Subjects : sent[s] \in 0..Len(Life[s]) /\ byHand[s] \in 0..sent[s]
    /\ \A f \in Flows : flow[f].pc \in {"done", "lookup", "post", "edit", "track", "delete", "untrack"}
    /\ used \in [Kinds -> Nat]

About(s) == {m \in channel : m.subject = s}
Last(s) == NormalizeEvent(Life[s][sent[s]])
Over(s) == sent[s] > 0 /\ ConfigMatches(Last(s)) /\ Last(s)[2] \in GITHUB_TERMINAL_SUBEVENTS[Last(s)[1]]

\* A subject has one message in the channel (githubNotifications.ts:180-215),
\* while deliveries take turns, and no answer is lost, attempt refused or leader
\* stopped in between.
OneMessagePerSubject ==
    lifecycle # "new" /\ Never({"overlap", "timeout", "failed", "crash"})
    => \A s \in Subjects : Cardinality(About(s)) <= 1

\* The same when deliveries are handled at once.
OneMessageInAnyOrder == lifecycle # "new" => \A s \in Subjects : Cardinality(About(s)) <= 1

\* The same when an attempt is refused; one refusal is retried.
OneMessageDespiteRefusals ==
    lifecycle # "new" /\ Never({"overlap", "timeout", "crash"})
    => \A s \in Subjects : Cardinality(About(s)) <= 1

\* When a subject is over, "update_then_delete" leaves no message behind.
ClosedSubjectHasNoMessage ==
    lifecycle = "update_then_delete" /\ webhook /\ Never({"overlap", "timeout", "failed", "crash"})
    => \A s \in Subjects : Quiet(s) /\ Over(s)
                           => About(s) = {}

\* The same when an attempt is refused.
ClosedSubjectNeverHasAMessage ==
    lifecycle = "update_then_delete" /\ webhook /\ Never({"overlap", "timeout", "crash"})
    => \A s \in Subjects : Quiet(s) /\ Over(s)
                           => About(s) = {}

\* The last event of a subject is shown, also when its message was deleted by
\* hand before that event.
LastEventIsShown ==
    lifecycle = "update" /\ webhook /\ Never({"overlap", "failed", "timeout", "crash"})
    => \A s \in Subjects : Quiet(s) /\ sent[s] > byHand[s] /\ ConfigMatches(Last(s))
                           => \E m \in About(s) : m.event = Last(s)

\* The refs of a webhook go with it, and every ref belongs to one subject's message.
RefsBelongToTheWebhook == ~webhook /\ Never({"overlap"}) => refs = {}

=============================================================================
