----------------------------- MODULE Credentials -----------------------------
(* What callers identify themselves with: the session of a GitHub user     *)
(* (controllers/userController.ts), one row per user with one token, and   *)
(* the API keys of a project (controllers/apiKeyController.ts). A browser  *)
(* signs in again with the token it keeps whenever a page is loaded.       *)
EXTENDS Integers, FiniteSets

CONSTANTS
    Devices,  \* browsers of one GitHub user
    Tokens,   \* bound: GitHub's tokens, issued in order: 1..n
    ApiKeys,  \* keys a project may get
    Callers,  \* requests with a key at once
    Budgets   \* bound: each is how often events of the kinds it names may happen

Kinds == {"login",   \* a browser comes back from GitHub with a new token
          "load",    \* a page is loaded
          "logout",
          "kept",    \* GitHub does not revoke
         "outage",  \* GitHub cannot be asked
          "key", "revoke", "call", "delete",
          "overlap"} \* a request begins while another one is being handled

VARIABLES
    issued,  \* tokens GitHub has issued
    valid,   \* those it still accepts
    holds,   \* per device: the token in its storage, 0 for none
    user,    \* UserModel: the user's row
    request, \* per device: the request it has sent
    asked,   \* tokens that a user has asked to sign out
    ended,   \* tokens that were signed out and not signed in since
    last,    \* the token that signed in last
    project, \* whether the project exists
    rows,    \* ApiKeyModel: per key, absent, valid or revoked
    known,   \* keys the project's users have been given and not revoked
    pending, \* per key: the handler between its look and its write
    call,    \* per caller: the key, and what its row was
    used     \* how often an event of each kind has happened

vars == <<issued, valid, holds, user, request, asked, ended, last, project, rows, known, pending, call, used>>
sessions == <<issued, valid, holds, user, request, asked, ended, last>>
keys == <<project, rows, known, pending, call>>

May(kinds) ==
    \E b \in Budgets : \A k \in Kinds :
        used[k] + (IF k \in kinds THEN 1 ELSE 0) <= IF k \in DOMAIN b THEN b[k] ELSE 0
Uses(kinds) ==
    /\ May(kinds)
    /\ used' = [k \in Kinds |-> used[k] + (IF k \in kinds THEN 1 ELSE 0)]
Never(kinds) == \A k \in kinds : used[k] = 0

NoRequest == [does |-> "none", at |-> "none", token |-> 0]
NoCall == [key |-> "none", row |-> "absent"]
Silent == \A d \in Devices : request[d] = NoRequest
QuietKeys == (\A k \in ApiKeys : pending[k] = "none") /\ \A c \in Callers : call[c] = NoCall
Begins(kind, quiet) == Uses({kind} \cup (IF quiet THEN {} ELSE {"overlap"}))
Sends(d, record) == request' = [request EXCEPT ![d] = record]

\* verifyAuthToken
Accepted(t) == user.token = t /\ t # 0 /\ user.signedIn

-----------------------------------------------------------------------------
(* Sessions: signInUser, signOutUser *)

\* The browser returns from GitHub and keeps the token (startSession).
Login(d) ==
    /\ request[d] = NoRequest /\ issued < Tokens
    /\ Begins("login", Silent)
    /\ issued' = issued + 1 /\ valid' = valid \cup {issued + 1}
    /\ holds' = [holds EXCEPT ![d] = issued + 1]
    /\ Sends(d, [does |-> "in", at |-> "github", token |-> issued + 1])
    /\ UNCHANGED <<user, asked, ended, last, keys>>

\* tryAutoSignIn
Load(d) ==
    /\ request[d] = NoRequest /\ holds[d] # 0
    /\ Begins("load", Silent)
    /\ Sends(d, [does |-> "in", at |-> "github", token |-> holds[d]])
    /\ UNCHANGED <<issued, valid, holds, user, asked, ended, last, keys>>

\* signOutUser reads the row of the token, behind the private router.
AsksOut(d, t) == Sends(d, IF Accepted(t) THEN [does |-> "out", at |-> "write", token |-> t] ELSE NoRequest)

\* GitHub accepts the token; or the browser gives it up and asks to sign it out.
AskGithub(d) ==
    LET t == request[d].token IN
    /\ request[d].at = "github"
    /\ \/ t \in valid /\ Sends(d, [request[d] EXCEPT !.at = "write"]) /\ UNCHANGED <<holds, used>>
       \/ /\ AsksOut(d, t) /\ holds' = [holds EXCEPT ![d] = 0]
          /\ IF t \in valid THEN Uses({"outage"}) ELSE UNCHANGED used
    /\ UNCHANGED <<issued, valid, user, asked, ended, last, keys>>

\* UPSERT_USER
SignIn(d) ==
    LET t == request[d].token IN
    /\ request[d].does = "in" /\ request[d].at = "write"
    /\ user' = [token |-> t, signedIn |-> TRUE]
    /\ ended' = ended \ {t} /\ last' = t
    /\ Sends(d, NoRequest)
    /\ UNCHANGED <<issued, valid, holds, asked, keys, used>>

Logout(d) ==
    /\ request[d] = NoRequest /\ holds[d] # 0
    /\ Begins("logout", Silent)
    /\ AsksOut(d, holds[d])
    /\ asked' = asked \cup {holds[d]} /\ holds' = [holds EXCEPT ![d] = 0]
    /\ UNCHANGED <<issued, valid, user, ended, last, keys>>

\* UPSERT_USER with the row that was read, signed out.
SignOut(d) ==
    /\ request[d].does = "out" /\ request[d].at = "write"
    /\ user' = [token |-> request[d].token, signedIn |-> FALSE]
    /\ ended' = ended \cup {request[d].token}
    /\ Sends(d, [request[d] EXCEPT !.at = "revoke"])
    /\ UNCHANGED <<issued, valid, holds, asked, last, keys, used>>

\* revokeGithubAuth ends the grant, and with it every token of the user.
Revoke(d) ==
    /\ request[d].at = "revoke"
    /\ Sends(d, NoRequest)
    /\ \/ valid' = {} /\ UNCHANGED used
       \/ Uses({"kept"}) /\ UNCHANGED valid
    /\ UNCHANGED <<issued, holds, user, asked, ended, last, keys>>

-----------------------------------------------------------------------------
(* API keys *)

\* createApiKey
CreateApiKey(k) ==
    /\ project /\ rows[k] = "absent" /\ pending[k] = "none" /\ k \notin known
    /\ Begins("key", QuietKeys)
    /\ pending' = [pending EXCEPT ![k] = "create"]
    /\ UNCHANGED <<sessions, project, rows, known, call>>

UpsertApiKey(k) ==
    /\ pending[k] = "create"
    /\ pending' = [pending EXCEPT ![k] = "none"]
    /\ rows' = [rows EXCEPT ![k] = "valid"]
    /\ known' = known \cup {k}
    /\ UNCHANGED <<sessions, project, call, used>>

\* revokeApiKey returns at once when there is no row, or it is revoked.
RevokeApiKey(k) ==
    /\ k \in known /\ pending[k] = "none"
    /\ Begins("revoke", QuietKeys)
    /\ IF rows[k] = "valid" THEN pending' = [pending EXCEPT ![k] = "revoke"] /\ UNCHANGED known
       ELSE known' = known \ {k} /\ UNCHANGED pending
    /\ UNCHANGED <<sessions, project, rows, call>>

\* REVOKE_API_KEY writes one column of a row that is there.
RevokeRow(k) ==
    /\ pending[k] = "revoke"
    /\ pending' = [pending EXCEPT ![k] = "none"]
    /\ rows' = [rows EXCEPT ![k] = IF @ = "absent" THEN @ ELSE "revoked"]
    /\ known' = known \ {k}
    /\ UNCHANGED <<sessions, project, call, used>>

\* authenticateApiKey up to its answer; keys are never forgotten by who has them.
Authenticate(c, k) ==
    /\ call[c] = NoCall /\ rows[k] = "valid"
    /\ Begins("call", QuietKeys)
    /\ call' = [call EXCEPT ![c] = [key |-> k, row |-> rows[k]]]
    /\ UNCHANGED <<sessions, project, rows, known, pending>>

\* mutant: the row that was read is written back
Touch_Row(c) ==
    /\ call[c] # NoCall
    /\ rows' = [rows EXCEPT ![call[c].key] = call[c].row]
    /\ call' = [call EXCEPT ![c] = NoCall]
    /\ UNCHANGED <<sessions, project, known, pending, used>>

\* touchApiKeyModel, which nobody waits for, writes lastUsedAt and nothing else.
Touch(c) ==
    /\ call[c] # NoCall
    /\ call' = [call EXCEPT ![c] = NoCall]
    /\ UNCHANGED <<sessions, project, rows, known, pending, used>>

\* deleteProject: clearProjectApiKeys, and DELETE_PROJECT after it.
ClearApiKeys ==
    /\ project /\ Begins("delete", QuietKeys)
    /\ rows' = [k \in ApiKeys |-> "absent"]
    /\ project' = FALSE
    /\ UNCHANGED <<sessions, known, pending, call>>

-----------------------------------------------------------------------------
Init ==
    /\ issued = 0 /\ valid = {} /\ holds = [d \in Devices |-> 0]
    /\ user = [token |-> 0, signedIn |-> FALSE]
    /\ request = [d \in Devices |-> NoRequest]
    /\ asked = {} /\ ended = {} /\ last = 0
    /\ project = TRUE /\ rows = [k \in ApiKeys |-> "absent"] /\ known = {}
    /\ pending = [k \in ApiKeys |-> "none"] /\ call = [c \in Callers |-> NoCall]
    /\ used = [k \in Kinds |-> 0]

Next ==
    \/ \E d \in Devices :
        Login(d) \/ Load(d) \/ AskGithub(d) \/ SignIn(d) \/ Logout(d) \/ SignOut(d) \/ Revoke(d)
    \/ \E k \in ApiKeys : CreateApiKey(k) \/ UpsertApiKey(k) \/ RevokeApiKey(k) \/ RevokeRow(k)
    \/ \E c \in Callers : Touch(c) \/ \E k \in ApiKeys : Authenticate(c, k)
    \/ ClearApiKeys

Spec == Init /\ [][Next]_vars

-----------------------------------------------------------------------------
(* Properties *)

TypeOK ==
    /\ issued \in 0..Tokens /\ valid \subseteq 1..issued /\ holds \in [Devices -> 0..issued]
    /\ user.token \in 0..issued /\ ended \subseteq 1..issued /\ last \in 0..issued
    /\ rows \in [ApiKeys -> {"absent", "valid", "revoked"}] /\ known \subseteq ApiKeys
    /\ pending \in [ApiKeys -> {"none", "create", "revoke"}]

\* Nobody who has signed out passes the private router's check with the token
\* (userController.ts:37-58): neither a later session of another browser nor its end brings it back.
SignedOutIsOut == Never({"overlap"}) => \A t \in ended : ~Accepted(t)

\* Only the browser that signed in last has a session, and it keeps it until it
\* ends it: the row holds one token (userController.ts:20-29).
NewestSignInWins ==
    Silent /\ Never({"overlap"}) => \A t \in 1..issued : Accepted(t) <=> t = last /\ t \notin ended

\* Nobody is signed out who has not asked for it (user-context.tsx:64-82,
\* userController.ts:47-58).
OnlyAskedAreOut == Never({"outage", "overlap"}) => ended \subseteq asked

\* A key that was revoked stays so, whatever calls with it are being answered
\* (apiKeyController.ts:50-66).
RevokedStaysRevoked == [][\A k \in ApiKeys : rows[k] = "revoked" => rows'[k] # "valid"]_vars

\* A deleted project has no keys left (projectController.ts:189).
KeysDieWithProject == ~project /\ Never({"overlap"}) => \A k \in ApiKeys : rows[k] = "absent"

-----------------------------------------------------------------------------
(* Claims that fail *)

\* A sign-out that has read the row writes it back over a sign-in that came after.
NewestSignInAlwaysWins ==
    Silent => \A t \in 1..issued : t = last /\ t \notin ended => Accepted(t)
\* A page that is loaded while GitHub cannot be asked ends the session.
SessionSurvivesOutage == Never({"overlap"}) => ended \subseteq asked
\* Signing in at a second browser ends the session of the first.
EveryBrowserStaysIn == Silent => \A d \in Devices : holds[d] \in valid => Accepted(holds[d])
\* A key is created between the two steps of a deletion.
KeysAlwaysDieWithProject == ~project /\ QuietKeys => \A k \in ApiKeys : rows[k] = "absent"

=============================================================================
