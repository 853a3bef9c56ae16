------------------------------ MODULE Dashboard ------------------------------
(* One tab of the frontend and its cache of what the server said: queries  *)
(* (React Query), the handlers of the pages, and the drafts that editors   *)
(* seed from a query. Queries do not depend on each other, so the model    *)
(* follows one of them, any, through every page that uses it.              *)
EXTENDS Pages, Integers

CONSTANTS
    Keys,    \* the query that is followed is one of these
    Budgets  \* bound: each is how often events of the kinds it names may happen

Kinds == {"submit",     \* the user runs a handler
          "other",      \* somebody else writes what the query reads
          "navigate",
          "wait",       \* the data grows older than staleTime
          "edit",
          "refused",    \* the server refuses a mutation
          "unheard",    \* it does what it is asked, and its answer is lost
          "unanswered", \* it does not answer a query
          "flip",       \* a handler shows its effect before it asks
          "early",      \* a project is created before the list has arrived
          "overlap"}    \* a handler begins while a request is under way

VARIABLES
    key,    \* the query
    page,   \* where the user is
    served, \* the writes that the server's answer would contain
    query,  \* the entry of the cache, and the fetch that is under way for it
    posts,  \* mutations: of this tab with the rest of their handler, and of others
    final,  \* the write since which what is asked for is in its end: see Polls
    draft,  \* whether the editor of the page holds edits, and what it was seeded with
    used    \* how often an event of each kind has happened

vars == <<key, page, served, query, posts, final, draft, used>>

May(kinds) ==
    \E b \in Budgets : \A k \in Kinds :
        used[k] + (IF k \in kinds THEN 1 ELSE 0) <= IF k \in DOMAIN b THEN b[k] ELSE 0
Uses(kinds) ==
    /\ May(kinds)
    /\ used' = [k \in Kinds |-> used[k] + (IF k \in kinds THEN 1 ELSE 0)]
Never(kinds) == \A k \in kinds : used[k] = 0
If(cond, kind) == IF cond THEN {kind} ELSE {}

Touches(h, k) == Mutations[h].writes \cap queryKeys[k].reads # {}
Concerns(h, k) == Touches(h, k) \/ k \in Mutations[h].patches \cup Mutations[h].invalidates
Posts(h) == Mutations[h].route # "none"

\* Steps from the first that matters to the query.
Ahead(steps, k) ==
    LET past == CHOOSE n \in 0..Len(steps) :
                    /\ \A m \in 1..n : ~Concerns(steps[m], k)
                    /\ n < Len(steps) => Concerns(steps[n + 1], k)
    IN SubSeq(steps, past + 1, Len(steps))

\* Per query and page: the handlers that matter to the query, from their first step that does.
Handlers ==
    [k \in QueryKeys |->
        [p \in DOMAIN Pages |->
            {h \in {[o EXCEPT !.steps = Ahead(@, k)] : o \in Pages[p].offers} :
                h.steps # <<>> /\ Posts(h.steps[1])}]]
\* The pages that matter to a query.
Relevant ==
    [k \in QueryKeys |->
        {p \in DOMAIN Pages : Handlers[k][p] # {} \/ (k # "me" /\ k \in Mounted(p))} \cup {"EmptyTeamPage"}]

Shown == key \in Mounted(page)
Editor == Pages[page].seeds = key
Done == \A i \in DOMAIN posts : posts[i].at = "done"
Quiet == Done /\ query.fetch = "idle"

-----------------------------------------------------------------------------
(* React Query: what the hooks use of it *)

Fetching(q) == [q EXCEPT !.fetch = "sent", !.reply = {}]
\* invalidateQueries: old, and fetched again where it is mounted, in place of a fetch that
\* is under way; a first fetch goes on.
Invalidated(q) ==
    LET o == [q EXCEPT !.old = TRUE] IN
    IF ~Shown \/ (~q.has /\ q.fetch # "idle") THEN o ELSE Fetching(o)
\* setQueryData leaves a fetch alone.
Patched_Alone(q, i) == [q EXCEPT !.has = TRUE, !.shows = {i}, !.old = FALSE]  \* mutant: what was there is dropped
Patched(q, i) == [q EXCEPT !.has = TRUE, !.shows = @ \cup {i}, !.old = FALSE]
Holding(q, data) == [q EXCEPT !.has = TRUE, !.shows = data, !.old = FALSE, !.fetch = "idle", !.reply = {}]

\* onSuccess, or a follow-up, of the mutation i.
Effects(q, h, i) ==
    LET p == IF key \in Mutations[h].patches THEN Patched(q, i) ELSE q IN
    IF key \in Mutations[h].invalidates THEN Invalidated(p) ELSE p

\* The effect that seeds a draft runs again when the data has changed.
Reseeded(q) ==
    IF ~Editor \/ (q.has = query.has /\ q.shows = query.shows) THEN draft
    ELSE [dirty |-> FALSE, base |-> q.shows, lost |-> draft.lost \/ draft.dirty]
Stores(q) == query' = q /\ draft' = Reseeded(q)

\* refetchInterval. A deployment is polled until the data shows that it has been built or has
\* failed, by the write final; a window of time is not polled when it lies in the past (0).
NotYet == -1
Polls(q) ==
    \/ queryKeys[key].polled = "always"
    \/ queryKeys[key].polled = "sliding" /\ final = NotYet
    \/ queryKeys[key].polled = "live" /\ 0 \in q.shows /\ final \notin q.shows
\* A write may be the one with which the deployment comes to its end.
MayEnd(i) ==
    \/ UNCHANGED final
    \/ queryKeys[key].polled = "live" /\ final = NotYet /\ final' = i

Poll_Old ==
    /\ Polls(query)
    /\ Shown /\ query.fetch = "idle" /\ query.old  \* mutant: data that is not old is not fetched
    /\ query' = Fetching(query)
    /\ UNCHANGED <<key, page, served, posts, draft, used, final>>

Poll ==
    /\ Polls(query)
    /\ Shown /\ query.fetch = "idle"
    /\ query' = Fetching(query)
    /\ UNCHANGED <<key, page, served, posts, draft, used, final>>

\* The list of deployments is refreshed while one of them is in progress.
ListRefresh ==
    /\ page = "ProjectDeployPage" /\ key \in refreshProjects.invalidates /\ query.has
    /\ query' = Invalidated(query)
    /\ UNCHANGED <<key, page, served, posts, draft, used, final>>

\* The server answers a query; the answer arrives later.
Read ==
    /\ query.fetch = "sent"
    /\ query' = [query EXCEPT !.fetch = "read", !.reply = {0} \cup served]
    /\ UNCHANGED <<key, page, served, posts, draft, used, final>>

Arrive ==
    /\ query.fetch = "read"
    /\ Stores(Holding(query, query.reply))
    /\ UNCHANGED <<key, page, served, posts, used, final>>

\* apiGet swallows the error: no answer is an empty one.
Unanswered ==
    /\ query.fetch = "sent" /\ Uses({"unanswered"})
    /\ Stores(IF key \in KeepsOnFailure THEN [query EXCEPT !.fetch = "idle"] ELSE Holding(query, {}))
    /\ UNCHANGED <<key, page, served, posts, final>>

Wait ==
    /\ query.has /\ ~query.old
    /\ Uses({"wait"})
    /\ query' = [query EXCEPT !.old = TRUE]
    /\ UNCHANGED <<key, page, served, posts, draft, final>>

-----------------------------------------------------------------------------
(* The user *)

Begun(h, rest, leaves) ==
    [hook |-> h, rest |-> rest, leaves |-> leaves, at |-> "sent", got |-> "none", here |-> TRUE,
     base |-> draft.base, awaits |-> FALSE]

\* Handlers that take over the edits of the page's draft.
Saves == {"saveChanges", "useSaveTeamRegistrar", "useSetTeamDefaults", "useSaveNodeConfig", "useDeleteDnsRecord"}

Submit(handler) ==
    LET h == handler.steps[1]
        i == Len(posts) + 1
        early == ~query.has /\ key \in Mutations[h].patches IN
    /\ Uses({"submit"} \cup If(query.fetch # "idle" \/ ~Done, "overlap") \cup If(Mutations[h].flips, "flip")
            \cup If(early, "early"))
    /\ Shown /\ ~query.has => h = "useCreateProject"
    /\ h = "saveChanges" => draft.dirty
    /\ posts' = Append(posts, Begun(h, Ahead(Tail(handler.steps), key), handler.leaves))
    /\ query' = IF Mutations[h].flips THEN Patched(query, i) ELSE query
    /\ draft' = IF h \in Saves THEN [draft EXCEPT !.dirty = FALSE] ELSE draft
    /\ UNCHANGED <<key, page, served, final>>

\* A page is left and another one mounted: data that is missing or old is fetched.
Arrives(p) ==
    LET q == IF key \in Newly(page, p) /\ (~query.has \/ query.old) /\ query.fetch = "idle"
             THEN Fetching(query) ELSE query IN
    /\ page' = p
    /\ query' = q
    /\ draft' = IF Pages[p].frame = "config" /\ Pages[page].frame = "config" THEN draft
                ELSE [dirty |-> FALSE, base |-> q.shows, lost |-> draft.lost]
Left == [i \in DOMAIN posts |-> [posts[i] EXCEPT !.here = FALSE]]

Navigate(p) ==
    /\ p # page
    /\ Uses({"navigate"})
    /\ Arrives(p)
    /\ posts' = Left
    /\ UNCHANGED <<key, served, final>>

Edit ==
    /\ Editor /\ 0 \in query.shows /\ ~draft.dirty
    /\ Uses({"edit"})
    /\ draft' = [draft EXCEPT !.dirty = TRUE]
    /\ UNCHANGED <<key, page, served, query, posts, final>>

-----------------------------------------------------------------------------
(* Mutations *)

Other ==
    /\ Uses({"other"})
    /\ \E h \in DOMAIN Mutations : Touches(h, key)
    /\ posts' = Append(posts, [Begun("refreshMe", <<>>, "none") EXCEPT !.at = "done", !.here = FALSE])
    /\ served' = served \cup {Len(posts) + 1}
    /\ MayEnd(Len(posts) + 1)
    /\ UNCHANGED <<key, page, query, draft>>

\* The server does what it is asked; a whole project replaces what was saved since it was read.
Serve(i) ==
    /\ posts[i].at = "sent"
    /\ LET h == posts[i].hook
           before == IF Mutations[h].whole THEN posts[i].base \cap served ELSE served
           after == IF Touches(h, key) THEN before \cup {i} ELSE before IN
       \/ /\ served' = after /\ UNCHANGED used
          /\ IF Touches(h, key) THEN MayEnd(i) ELSE UNCHANGED final
          /\ posts' = [posts EXCEPT ![i].at = "answered", ![i].got = "ok"]
       \/ /\ Uses({"unheard"}) /\ served' = after
          /\ IF Touches(h, key) THEN MayEnd(i) ELSE UNCHANGED final
          /\ posts' = [posts EXCEPT ![i].at = "answered", ![i].got = "nothing"]
       \/ /\ Uses({"refused"}) /\ UNCHANGED <<served, final>>
          /\ posts' = [posts EXCEPT ![i].at = "answered", ![i].got = "refused"]
    /\ UNCHANGED <<key, page, query, draft>>

\* apiPost answers undefined for an error; only a checked hook takes that for one.
Succeeds(post) == post.got = "ok" \/ ~Mutations[post.hook].checked

\* The tab hears the answer: onSuccess, and the handler goes on or ends.
Settle(i) ==
    LET post == posts[i]
        on == (post.got = "ok" \/ post.hook \in Unheeded) /\ (post.rest # <<>> \/ post.leaves # "none") IN
    /\ post.at = "answered"
    /\ posts' = [posts EXCEPT ![i].at = IF on THEN "settled" ELSE "done",
                              ![i].awaits = Shown /\ key \in Mutations[post.hook].invalidates]
    /\ Stores(IF Succeeds(post) THEN Effects(query, post.hook, i) ELSE query)
    /\ UNCHANGED <<key, page, served, used, final>>

\* The next step of the handler i, once the fetch it waits for has ended.
Proceeds(i) ==
    /\ posts[i].at = "settled"
    /\ posts[i].awaits => query.fetch = "idle"

FollowUp(i) ==
    LET rest == posts[i].rest
        next == Ahead(Tail(rest), key)
        on == next # <<>> \/ posts[i].leaves # "none" IN
    /\ Proceeds(i) /\ rest # <<>> /\ ~Posts(rest[1])
    /\ posts' = [posts EXCEPT ![i].rest = next, ![i].at = IF on THEN "settled" ELSE "done",
                              ![i].awaits = Shown /\ key \in Mutations[rest[1]].invalidates]
    /\ Stores(Effects(query, rest[1], i))
    /\ UNCHANGED <<key, page, served, used, final>>

NextPost(i) ==
    LET rest == posts[i].rest IN
    /\ Proceeds(i) /\ rest # <<>> /\ Posts(rest[1])
    /\ posts' = Append([posts EXCEPT ![i].at = "done", ![i].rest = <<>>],
                       [Begun(rest[1], Ahead(Tail(rest), key), posts[i].leaves) EXCEPT !.here = posts[i].here])
    /\ UNCHANGED <<key, page, served, query, draft, used, final>>

\* navigate() at the end of a handler.
Leave(i) ==
    /\ Proceeds(i) /\ posts[i].rest = <<>>
    /\ Arrives(posts[i].leaves)
    /\ posts' = [Left EXCEPT ![i].at = "done"]
    /\ UNCHANGED <<key, served, used, final>>

-----------------------------------------------------------------------------
Init ==
    /\ key \in Keys /\ page \in Relevant[key]
    /\ served = {} /\ posts = <<>>
    /\ query = [has |-> FALSE, shows |-> {}, old |-> FALSE, reply |-> {},
                fetch |-> IF key \in Mounted(page) THEN "sent" ELSE "idle"]
    /\ draft = [dirty |-> FALSE, base |-> {}, lost |-> FALSE]
    /\ final \in IF queryKeys[key].polled \in {"live", "sliding"} THEN {NotYet, 0} ELSE {NotYet}
    /\ used = [k \in Kinds |-> 0]

Next ==
    \/ Poll \/ ListRefresh \/ Read \/ Arrive \/ Unanswered \/ Wait
    \/ Edit \/ Other
    \/ May({"submit"}) /\ \E h \in Handlers[key][page] : Submit(h)
    \/ May({"navigate"}) /\ \E p \in Relevant[key] : Navigate(p)
    \/ \E i \in DOMAIN posts : Serve(i) \/ Settle(i) \/ FollowUp(i) \/ NextPost(i) \/ Leave(i)

Spec == Init /\ [][Next]_vars

\* Timers fire, the server answers or the request times out (utils/api.ts:5).
Fairness ==
    /\ WF_vars(Poll) /\ WF_vars(Read) /\ WF_vars(Arrive)
    /\ WF_vars(\E i \in DOMAIN posts : Serve(i) \/ Settle(i) \/ FollowUp(i) \/ NextPost(i) \/ Leave(i))
FairSpec == Spec /\ Fairness

-----------------------------------------------------------------------------
(* Properties *)

TypeOK ==
    /\ key \in QueryKeys /\ page \in DOMAIN Pages
    /\ served \subseteq DOMAIN posts /\ final \in {NotYet, 0} \cup DOMAIN posts
    /\ query.shows \subseteq {0} \cup DOMAIN posts /\ query.reply \subseteq {0} \cup DOMAIN posts
    /\ query.fetch \in {"idle", "sent", "read"}
    /\ \A i \in DOMAIN posts : posts[i].at \in {"sent", "answered", "settled", "done"}

\* What a user has written on a page is on the page when everything has been answered
\* (hooks/mutations/*: each invalidates or patches what it changes), unless requests overlapped
\* or were lost. Of the queries that no mutation refreshes, the user's own permissions and
\* the bill of the domains are left out, and so are those that catch up by themselves.
WritesAreShown ==
    /\ Quiet /\ Shown /\ queryKeys[key].polled = "never" /\ key \notin {"me", "teamDomainBilling"}
    /\ Never({"overlap", "unanswered", "unheard"})
    => \A i \in served : posts[i].here => i \in query.shows

\* A refusal that a hook looks for is never shown as if it had been done (useCreateProject,
\* useSyncProjectToRepo and the others that throw), unless the page showed it beforehand.
RefusedIsNotShown ==
    Never({"flip"}) =>
        \A i \in DOMAIN posts :
            posts[i].got = "refused" /\ Mutations[posts[i].hook].checked => i \notin query.shows

\* Edits that are not saved stay until the user does something else, whatever others do
\* meanwhile (useProjects.ts:16-18: the list is not polled, or it would clobber them).
DraftSurvives == Never({"submit", "navigate", "unanswered"}) => ~draft.lost

\* The cached list is what the server had, with the user's own changes, and never the changes
\* alone (projectMutations.ts:11-38 patch what is there).
ListIsComplete == query.has /\ Never({"early", "unanswered"}) => 0 \in query.shows

CaughtUp == query.has /\ query.shows = {0} \cup served
InProgress == queryKeys[key].polled = "live" /\ Never({"unanswered"})

\* What is polled shows what the server has again and again while it is mounted, whatever else
\* happens (useProjects.ts:45-57, useCluster.ts, projectHooks.ts:100, LogViewer.tsx:97). A
\* deployment is followed until it has been built or has failed, and the page comes to show
\* that, after navigation too (useLiveProjectInstance.ts:24).
StatusCatchesUp ==
    []<>(Shown =>
        /\ queryKeys[key].polled = "always" \/ (queryKeys[key].polled = "sliding" /\ final = NotYet) => CaughtUp
        /\ InProgress => IF final = NotYet THEN CaughtUp ELSE query.has /\ final \in query.shows)

-----------------------------------------------------------------------------
(* Claims that fail *)

\* A fetch that was under way overwrites what a mutation has put into the cache.
WritesAreAlwaysShown ==
    /\ Quiet /\ Shown /\ queryKeys[key].polled = "never" /\ key \notin {"me", "teamDomainBilling"}
    /\ Never({"unanswered", "unheard"})
    => \A i \in served : posts[i].here => i \in query.shows
\* No mutation refreshes the user's permissions but the creation of a project: one that
\* is deleted stays in the sidebar; the bill does not show what was just bought.
EverythingIsRefreshed ==
    Quiet /\ Shown /\ queryKeys[key].polled = "never" /\ Never({"overlap", "unanswered", "unheard"})
    => \A i \in served : posts[i].hook # "refreshMe" => i \in query.shows
\* Most hooks do not look at the answer: a refused change of a project is shown as saved.
RefusedIsNeverShown ==
    Quiet /\ Never({"flip"}) => \A i \in DOMAIN posts : posts[i].got = "refused" => i \notin query.shows
\* A webhook's switch stays flipped when the server refuses.
FlipsAreUndone == Quiet => \A i \in DOMAIN posts : posts[i].got = "refused" /\ posts[i].hook = "toggleEnabled" => i \notin query.shows
\* Another button of an editor's page reseeds its draft.
DraftSurvivesButtons == Never({"navigate", "unanswered"}) => ~draft.lost
\* A project that is created before the list has arrived is the list for 15 seconds.
ListIsAlwaysComplete == Quiet /\ query.has /\ Never({"unanswered"}) => 0 \in query.shows
\* A query that is not answered empties what the page shows.
BlankIsNeverShown == query.has => 0 \in query.shows
\* Save sends every field: what others have saved since the draft was seeded is undone.
NothingIsUndone == [][served \subseteq served']_vars
\* One lost answer ends the live view of a deployment.
LiveCatchesUp == []<>(Shown /\ queryKeys[key].polled = "live" /\ final = NotYet => CaughtUp)
\* A deployment that has been built is not polled, and nothing invalidates it: when it is
\* torn down, or another one becomes the active one, the page goes on showing it as it was
\* (deployMutations.ts:27-34, DeploymentInstanceDetail.tsx:25-29).
DeploymentIsShownAsItIs == []<>(Shown /\ InProgress => CaughtUp)

=============================================================================
