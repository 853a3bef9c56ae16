---------------------------- MODULE DashboardProofs ----------------------------
(***************************************************************************)
(* Sessions and API keys, for every number of browsers, tokens, keys and   *)
(* callers: who has signed out is out, the newest session wins, a project  *)
(* takes its keys with it and a revoked key stays revoked. Domain          *)
(* purchases, for every number of requests, domains, teams and accounts:   *)
(* what is told about a purchase is true and stays so. The way through the *)
(* pages, for all rights there are: what the sidebar leads to is allowed.  *)
(* What a tab shows, for every query, page and bounds: what was written is *)
(* shown, what was refused is not, edits are kept, the list is complete.   *)
(* Each behaviour of MCDashboard moves one of these components, and what   *)
(* is used of the others is that they leave its variables alone.           *)
(***************************************************************************)
EXTENDS MCDashboard, TLAPS

USE TokensAssumption

-----------------------------------------------------------------------------
(* How often events have happened.                                         *)

\* Counting events keeps the counts natural numbers, and counts those named.
LEMMA SessionEvents ==
    ASSUME cUsed \in [C!Kinds -> Nat], NEW kinds \in SUBSET C!Kinds, C!Uses(kinds)
    PROVE  /\ cUsed' \in [C!Kinds -> Nat]
           /\ \A k \in kinds : cUsed'[k] > 0
           /\ \A K \in SUBSET C!Kinds : C!Never(K)' => C!Never(K)
<1>1. cUsed' = [k \in C!Kinds |-> cUsed[k] + (IF k \in kinds THEN 1 ELSE 0)]
  BY DEF C!Uses
<1>2. \A k \in C!Kinds : cUsed'[k] = cUsed[k] + (IF k \in kinds THEN 1 ELSE 0)
  BY <1>1
<1>3. cUsed' \in [C!Kinds -> Nat]
  BY <1>1
<1>4. \A k \in C!Kinds : cUsed'[k] = 0 => cUsed[k] = 0
  BY <1>2
<1>5. \A K \in SUBSET C!Kinds : C!Never(K)' => C!Never(K)
  BY <1>4 DEF C!Never
<1> QED
  BY <1>2, <1>3, <1>5

-----------------------------------------------------------------------------
(* The strengthening.                                                      *)

TypedSession == [does : {"none", "in", "out"}, at : {"none", "github", "write", "revoke"}, token : 0..issued]

SessionsTyped ==
    /\ issued \in 0..Tokens /\ valid \subseteq 1..issued /\ holds \in [Devices -> 0..issued]
    /\ user \in [token : 0..issued, signedIn : BOOLEAN]
    /\ request \in [Devices -> TypedSession]
    /\ ended \subseteq 1..issued /\ last \in 0..issued
    /\ cUsed \in [C!Kinds -> Nat]
KeysTyped ==
    /\ project \in BOOLEAN
    /\ rows \in [ApiKeys -> {"absent", "valid", "revoked"}] /\ known \subseteq ApiKeys
    /\ pending \in [ApiKeys -> {"none", "create", "revoke"}]

\* What a request that is being handled is about.
RequestsMeanIt ==
    \A d \in Devices :
        /\ request[d].at = "none" => request[d] = C!NoRequest
        /\ request[d].at = "github" => request[d].does = "in"
        /\ request[d].at = "revoke" => request[d].does = "out"
        /\ request[d].at # "none" => request[d].token # 0

\* A session has ended with the row's.
EndedIsOut == \A t \in ended : ~C!Accepted(t)

\* While requests take turns: the row is the last sign-in, until it is signed out.
RowIsNewest ==
    /\ \A d, e \in Devices : d # e => request[d] = C!NoRequest \/ request[e] = C!NoRequest
    /\ user.token = last /\ (last # 0 => (user.signedIn <=> last \notin ended))
    /\ \A d \in Devices : request[d].does = "out" /\ request[d].at = "write" => C!Accepted(request[d].token)

\* While requests take turns, GitHub accepts the token of whoever is signed in,
\* and of whoever it has just accepted.
SignedInIsValid ==
    /\ user.signedIn => user.token \in valid
    /\ \A d \in Devices : request[d].does = "in" /\ request[d].at = "write" => request[d].token \in valid
    /\ \A d \in Devices : request[d].at = "revoke" => ~user.signedIn

\* While GitHub can be asked as well: only what a user asked for is signed out.
AskedIsEnded ==
    /\ ended \subseteq asked
    /\ \A d \in Devices : request[d].does = "out" => request[d].token \in asked

\* A key is written once.
CreatedOnce == \A k \in ApiKeys : pending[k] = "create" => rows[k] = "absent"

\* While handlers take turns, none writes a key of a project that is deleted.
NoKeysLeft ==
    ~project => \A k \in ApiKeys : rows[k] = "absent" /\ pending[k] = "none"

SessionsInv ==
    /\ SessionsTyped /\ KeysTyped /\ RequestsMeanIt /\ EndedIsOut /\ CreatedOnce
    /\ C!Never({"overlap"}) => RowIsNewest /\ SignedInIsValid /\ NoKeysLeft
    /\ C!Never({"outage", "overlap"}) => AskedIsEnded

-----------------------------------------------------------------------------
(* What a step counts.                                                     *)

\* Every step of the component counts what happens.
LEMMA SessionsCount ==
    ASSUME cUsed \in [C!Kinds -> Nat], C!Next
    PROVE  /\ cUsed' \in [C!Kinds -> Nat]
           /\ \A K \in SUBSET C!Kinds : C!Never(K)' => C!Never(K)
<1>1. ASSUME UNCHANGED cUsed PROVE \A K \in SUBSET C!Kinds : C!Never(K)' => C!Never(K)
  BY <1>1 DEF C!Never
<1>2. UNCHANGED cUsed \/ \E kinds \in SUBSET C!Kinds : C!Uses(kinds)
  BY DEF C!Next, C!Login, C!Load, C!AskGithub, C!SignIn, C!Logout, C!SignOut, C!Revoke, C!CreateApiKey,
         C!UpsertApiKey, C!RevokeApiKey, C!RevokeRow, C!Touch, C!Authenticate, C!ClearApiKeys,
         C!Begins, C!Kinds
<1> QED
  BY <1>1, <1>2, SessionEvents

\* A request that begins while another is being handled is counted.
LEMMA TakesTurns ==
    ASSUME cUsed \in [C!Kinds -> Nat], NEW kind \in C!Kinds, C!Never({"overlap"})'
    PROVE  /\ C!Begins(kind, C!Silent) => C!Silent
           /\ C!Begins(kind, C!QuietKeys) => C!QuietKeys
<1>1. ASSUME C!Uses({kind} \cup {"overlap"}) PROVE FALSE
  <2>1. cUsed'["overlap"] > 0
    BY <1>1, SessionEvents DEF C!Kinds
  <2> QED
    BY <2>1 DEF C!Never
<1> QED
  BY <1>1 DEF C!Begins

\* What a refused sign-in is counted as.
LEMMA OutageIsCounted ==
    ASSUME cUsed \in [C!Kinds -> Nat], C!Uses({"outage"}) PROVE ~C!Never({"outage", "overlap"})'
<1>1. cUsed'["outage"] > 0
  BY SessionEvents DEF C!Kinds
<1> QED
  BY <1>1 DEF C!Never

-----------------------------------------------------------------------------
(* Sessions.                                                               *)

\* A step of a browser's request.
SessionStep(d) ==
    \/ C!Login(d) \/ C!Load(d) \/ C!AskGithub(d) \/ C!SignIn(d) \/ C!Logout(d) \/ C!SignOut(d) \/ C!Revoke(d)

\* It changes the request of that browser.
LEMMA RequestsChange ==
    ASSUME SessionsTyped, RequestsMeanIt, NEW d \in Devices, SessionStep(d)
    PROVE  /\ issued' \in 0..Tokens /\ issued' >= issued
           /\ request' = [request EXCEPT ![d] = request'[d]]
           /\ request'[d] \in TypedSession'
           /\ request'[d].at = "none" => request'[d] = C!NoRequest
           /\ request'[d].at = "github" => request'[d].does = "in"
           /\ request'[d].at = "revoke" => request'[d].does = "out"
           /\ request'[d].at # "none" => request'[d].token # 0
<1> USE DEF SessionsTyped, TypedSession, C!NoRequest, C!Sends
<1>1. CASE C!Login(d)
  BY <1>1 DEF C!Login
<1>2. CASE C!Load(d)
  BY <1>2 DEF C!Load
<1>3. CASE C!AskGithub(d)
  BY <1>3 DEF C!AskGithub, C!AsksOut, RequestsMeanIt
<1>4. CASE C!SignIn(d)
  BY <1>4 DEF C!SignIn
<1>5. CASE C!Logout(d)
  BY <1>5 DEF C!Logout, C!AsksOut
<1>6. CASE C!SignOut(d)
  BY <1>6 DEF C!SignOut, RequestsMeanIt
<1>7. CASE C!Revoke(d)
  BY <1>7 DEF C!Revoke
<1> QED
  BY <1>1, <1>2, <1>3, <1>4, <1>5, <1>6, <1>7 DEF SessionStep

\* It keeps the types.
LEMMA SessionsTypedPreserved ==
    ASSUME SessionsTyped, RequestsMeanIt, NEW d \in Devices, SessionStep(d), cUsed' \in [C!Kinds -> Nat]
    PROVE  SessionsTyped' /\ RequestsMeanIt'
<1>1. request' \in [Devices -> TypedSession']
  <2>1. \A r \in TypedSession : r \in TypedSession'
    BY RequestsChange DEF TypedSession, SessionsTyped
  <2> QED
    BY <2>1, RequestsChange DEF SessionsTyped
<1>2. RequestsMeanIt'
  BY RequestsChange DEF RequestsMeanIt, SessionsTyped
<1>3. request[d].token \in 0..issued /\ (request[d].at # "none" => request[d].token # 0)
  BY DEF SessionsTyped, TypedSession, RequestsMeanIt
<1>4. SessionsTyped'
  <2> USE <1>1, <1>3 DEF SessionsTyped
  <2>1. CASE C!Login(d)
    BY <2>1 DEF C!Login
  <2>2. CASE C!Load(d)
    BY <2>2 DEF C!Load
  <2>3. CASE C!AskGithub(d)
    BY <2>3 DEF C!AskGithub
  <2>4. CASE C!SignIn(d)
    BY <2>4 DEF C!SignIn
  <2>5. CASE C!Logout(d)
    BY <2>5 DEF C!Logout
  <2>6. CASE C!SignOut(d)
    BY <2>6 DEF C!SignOut
  <2>7. CASE C!Revoke(d)
    BY <2>7 DEF C!Revoke
  <2> QED
    BY <2>1, <2>2, <2>3, <2>4, <2>5, <2>6, <2>7 DEF SessionStep
<1> QED
  BY <1>2, <1>4

\* Signing in takes the token out of those that ended, and signing out ends the session.
LEMMA EndedIsOutPreserved ==
    ASSUME SessionsTyped, EndedIsOut, NEW d \in Devices, SessionStep(d) PROVE EndedIsOut'
<1> USE DEF EndedIsOut, C!Accepted
<1>1. CASE C!SignIn(d)
  BY <1>1 DEF C!SignIn
<1>2. CASE C!SignOut(d)
  BY <1>2 DEF C!SignOut
<1> QED
  BY <1>1, <1>2 DEF SessionStep, C!Login, C!Load, C!AskGithub, C!Logout, C!Revoke

\* A browser sends a request, or sends it on, when no other has one under way.
LEMMA OnlyOneIsSent ==
    ASSUME SessionsTyped, RequestsMeanIt, RowIsNewest, NEW d \in Devices, SessionStep(d), C!Never({"overlap"})'
    PROVE  \A e \in Devices \ {d} : request[e] = C!NoRequest
<1>1. CASE C!Login(d) \/ C!Load(d) \/ C!Logout(d)
  BY <1>1, TakesTurns DEF C!Login, C!Load, C!Logout, C!Kinds, C!Silent, SessionsTyped
<1>2. CASE C!AskGithub(d) \/ C!SignIn(d) \/ C!SignOut(d) \/ C!Revoke(d)
  <2>1. request[d] # C!NoRequest
    BY <1>2 DEF C!AskGithub, C!SignIn, C!SignOut, C!Revoke, C!NoRequest
  <2> QED
    BY <2>1 DEF RowIsNewest
<1> QED
  BY <1>1, <1>2 DEF SessionStep

\* The row holds the newest token, until that is signed out.
LEMMA RowIsNewestPreserved ==
    ASSUME SessionsTyped, RequestsMeanIt, RowIsNewest, NEW d \in Devices, SessionStep(d), C!Never({"overlap"})'
    PROVE  RowIsNewest'
<1>1. /\ \A e \in Devices \ {d} : request'[e] = C!NoRequest
      /\ \A e, o \in Devices : e # o => request'[e] = C!NoRequest \/ request'[o] = C!NoRequest
  BY OnlyOneIsSent, RequestsChange DEF SessionsTyped
<1> SUFFICES /\ user'.token = last' /\ (last' # 0 => (user'.signedIn <=> last' \notin ended'))
             /\ request'[d].does = "out" /\ request'[d].at = "write"
                => user'.token = request'[d].token /\ user'.signedIn
  BY <1>1, RequestsChange DEF RowIsNewest, C!NoRequest, C!Accepted
<1> USE DEF RowIsNewest, SessionsTyped, C!Sends, C!Accepted, C!NoRequest
<1>2. CASE C!Login(d)
  BY <1>2 DEF C!Login
<1>3. CASE C!Load(d)
  BY <1>3 DEF C!Load
<1>4. CASE C!AskGithub(d)
  <2>1. request[d].does = "in"
    BY <1>4 DEF C!AskGithub, RequestsMeanIt
  <2>2. CASE request[d].token \in valid /\ C!Sends(d, [request[d] EXCEPT !.at = "write"])
    BY <1>4, <2>1, <2>2 DEF C!AskGithub, TypedSession
  <2>3. CASE C!AsksOut(d, request[d].token)
    BY <1>4, <2>3 DEF C!AskGithub, C!AsksOut, C!Accepted
  <2> QED
    BY <1>4, <2>2, <2>3 DEF C!AskGithub
<1>5. CASE C!SignIn(d)
  BY <1>5 DEF C!SignIn
<1>6. CASE C!Logout(d)
  <2>1. holds[d] \in 0..issued
    OBVIOUS
  <2> QED
    BY <1>6, <2>1 DEF C!Logout, C!AsksOut, C!Accepted
<1>7. CASE C!SignOut(d)
  BY <1>7 DEF C!SignOut
<1>8. CASE C!Revoke(d)
  BY <1>8 DEF C!Revoke
<1> QED
  BY <1>2, <1>3, <1>4, <1>5, <1>6, <1>7, <1>8 DEF SessionStep

\* GitHub goes on accepting the token of who is signed in.
LEMMA SignedInIsValidPreserved ==
    ASSUME SessionsTyped, RequestsMeanIt, RowIsNewest, SignedInIsValid, NEW d \in Devices, SessionStep(d),
           C!Never({"overlap"})'
    PROVE  SignedInIsValid'
<1>1. \A e \in Devices \ {d} : request'[e] = C!NoRequest
  BY OnlyOneIsSent, RequestsChange DEF SessionsTyped
<1> SUFFICES /\ user'.signedIn => user'.token \in valid'
             /\ request'[d].does = "in" /\ request'[d].at = "write" => request'[d].token \in valid'
             /\ request'[d].at = "revoke" => ~user'.signedIn
  BY <1>1 DEF SignedInIsValid, C!NoRequest
<1> USE DEF SignedInIsValid, SessionsTyped, C!Sends, C!NoRequest
<1>2. CASE C!Login(d)
  BY <1>2 DEF C!Login
<1>3. CASE C!Load(d)
  BY <1>3 DEF C!Load
<1>4. CASE C!AskGithub(d)
  <2>1. request[d].does = "in"
    BY <1>4 DEF C!AskGithub, RequestsMeanIt
  <2>2. CASE request[d].token \in valid /\ C!Sends(d, [request[d] EXCEPT !.at = "write"])
    BY <1>4, <2>1, <2>2 DEF C!AskGithub, TypedSession
  <2>3. CASE C!AsksOut(d, request[d].token)
    BY <1>4, <2>3 DEF C!AskGithub, C!AsksOut, C!Accepted
  <2> QED
    BY <1>4, <2>2, <2>3 DEF C!AskGithub
<1>5. CASE C!SignIn(d)
  BY <1>5 DEF C!SignIn
<1>6. CASE C!Logout(d)
  <2>1. holds[d] \in 0..issued
    OBVIOUS
  <2> QED
    BY <1>6, <2>1 DEF C!Logout, C!AsksOut, C!Accepted
<1>7. CASE C!SignOut(d)
  BY <1>7 DEF C!SignOut
<1>8. CASE C!Revoke(d)
  BY <1>8 DEF C!Revoke
<1> QED
  BY <1>2, <1>3, <1>4, <1>5, <1>6, <1>7, <1>8 DEF SessionStep

\* Only a sign-in that GitHub refuses, which it does not do to who is signed in, and
\* the user sign a token out.
LEMMA AskedIsEndedPreserved ==
    ASSUME SessionsTyped, RequestsMeanIt, SignedInIsValid, AskedIsEnded, NEW d \in Devices, SessionStep(d),
           C!Never({"outage", "overlap"})'
    PROVE  AskedIsEnded'
<1>1. asked \subseteq asked' /\ \A e \in Devices \ {d} : request'[e] = request[e]
  BY RequestsChange DEF SessionStep, C!Login, C!Load, C!AskGithub, C!SignIn, C!Logout, C!SignOut, C!Revoke,
     SessionsTyped
<1> SUFFICES ended' \subseteq asked' /\ (request'[d].does = "out" => request'[d].token \in asked')
  BY <1>1 DEF AskedIsEnded
<1> USE DEF AskedIsEnded, SessionsTyped, C!Sends, C!NoRequest
<1>2. CASE C!Login(d)
  BY <1>2 DEF C!Login
<1>3. CASE C!Load(d)
  BY <1>3 DEF C!Load
<1>4. CASE C!AskGithub(d)
  <2>1. CASE request[d].token \in valid /\ C!Sends(d, [request[d] EXCEPT !.at = "write"])
    BY <1>4, <2>1 DEF C!AskGithub, RequestsMeanIt, TypedSession
  <2>2. CASE C!AsksOut(d, request[d].token) /\ request[d].token \notin valid
    BY <1>4, <2>2 DEF C!AskGithub, C!AsksOut, C!Accepted, SignedInIsValid
  <2> QED
    BY <1>4, <2>1, <2>2, OutageIsCounted DEF C!AskGithub
<1>5. CASE C!SignIn(d)
  BY <1>5 DEF C!SignIn
<1>6. CASE C!Logout(d)
  BY <1>6 DEF C!Logout, C!AsksOut
<1>7. CASE C!SignOut(d)
  BY <1>7 DEF C!SignOut
<1>8. CASE C!Revoke(d)
  BY <1>8 DEF C!Revoke
<1> QED
  BY <1>2, <1>3, <1>4, <1>5, <1>6, <1>7, <1>8 DEF SessionStep

-----------------------------------------------------------------------------
(* API keys.                                                               *)

\* A step of a request that is about a key.
KeyStep ==
    \/ \E k \in ApiKeys : C!CreateApiKey(k) \/ C!UpsertApiKey(k) \/ C!RevokeApiKey(k) \/ C!RevokeRow(k)
    \/ \E c \in Callers : C!Touch(c) \/ \E k \in ApiKeys : C!Authenticate(c, k)
    \/ C!ClearApiKeys

\* It keeps the types, and writes no key twice.
LEMMA KeysTypedPreserved ==
    ASSUME KeysTyped, CreatedOnce, KeyStep PROVE KeysTyped' /\ CreatedOnce'
<1> USE DEF KeysTyped, CreatedOnce
<1>1. ASSUME NEW k \in ApiKeys, C!CreateApiKey(k) PROVE KeysTyped' /\ CreatedOnce'
  BY <1>1 DEF C!CreateApiKey
<1>2. ASSUME NEW k \in ApiKeys, C!UpsertApiKey(k) PROVE KeysTyped' /\ CreatedOnce'
  BY <1>2 DEF C!UpsertApiKey
<1>3. ASSUME NEW k \in ApiKeys, C!RevokeApiKey(k) PROVE KeysTyped' /\ CreatedOnce'
  BY <1>3 DEF C!RevokeApiKey
<1>4. ASSUME NEW k \in ApiKeys, C!RevokeRow(k) PROVE KeysTyped' /\ CreatedOnce'
  BY <1>4 DEF C!RevokeRow
<1>5. ASSUME NEW c \in Callers, C!Touch(c) \/ \E k \in ApiKeys : C!Authenticate(c, k)
      PROVE  KeysTyped' /\ CreatedOnce'
  BY <1>5 DEF C!Touch, C!Authenticate
<1>6. CASE C!ClearApiKeys
  BY <1>6 DEF C!ClearApiKeys
<1> QED
  BY <1>1, <1>2, <1>3, <1>4, <1>5, <1>6 DEF KeyStep

\* No handler is about to write a key while the project is deleted.
LEMMA NoKeysLeftPreserved ==
    ASSUME KeysTyped, NoKeysLeft, KeyStep, cUsed \in [C!Kinds -> Nat], C!Never({"overlap"})' PROVE NoKeysLeft'
<1> USE DEF KeysTyped, NoKeysLeft
<1>1. ASSUME NEW k \in ApiKeys, C!CreateApiKey(k) PROVE NoKeysLeft'
  BY <1>1 DEF C!CreateApiKey
<1>2. ASSUME NEW k \in ApiKeys, C!UpsertApiKey(k) PROVE NoKeysLeft'
  BY <1>2 DEF C!UpsertApiKey
<1>3. ASSUME NEW k \in ApiKeys, C!RevokeApiKey(k) PROVE NoKeysLeft'
  BY <1>3 DEF C!RevokeApiKey
<1>4. ASSUME NEW k \in ApiKeys, C!RevokeRow(k) PROVE NoKeysLeft'
  BY <1>4 DEF C!RevokeRow
<1>5. ASSUME NEW c \in Callers, C!Touch(c) \/ \E k \in ApiKeys : C!Authenticate(c, k) PROVE NoKeysLeft'
  BY <1>5 DEF C!Touch, C!Authenticate
<1>6. CASE C!ClearApiKeys
  <2>1. C!QuietKeys
    BY <1>6, TakesTurns DEF C!ClearApiKeys, C!Kinds
  <2> QED
    BY <1>6, <2>1 DEF C!ClearApiKeys, C!QuietKeys
<1> QED
  BY <1>1, <1>2, <1>3, <1>4, <1>5, <1>6 DEF KeyStep

-----------------------------------------------------------------------------
(* Every step keeps the invariant.                                         *)

\* A request is about a session or about a key, and leaves the others alone.
LEMMA SessionsOrKeys ==
    ASSUME C!Next
    PROVE  \/ (\E d \in Devices : SessionStep(d)) /\ UNCHANGED <<project, rows, known, pending>>
           \/ KeyStep /\ UNCHANGED <<issued, valid, holds, user, request, asked, ended, last>>
<1>1. ASSUME NEW d \in Devices, SessionStep(d) PROVE UNCHANGED <<project, rows, known, pending>>
  BY <1>1 DEF SessionStep, C!Login, C!Load, C!AskGithub, C!SignIn, C!Logout, C!SignOut, C!Revoke, C!keys
<1>2. ASSUME KeyStep PROVE UNCHANGED <<issued, valid, holds, user, request, asked, ended, last>>
  BY <1>2 DEF KeyStep, C!CreateApiKey, C!UpsertApiKey, C!RevokeApiKey, C!RevokeRow, C!Touch, C!Authenticate,
              C!ClearApiKeys, C!sessions
<1>3. (\E d \in Devices : SessionStep(d)) \/ KeyStep
  BY DEF C!Next, SessionStep, KeyStep
<1> QED
  BY <1>1, <1>2, <1>3

\* Each part of the invariant is kept on the runs it speaks of.
LEMMA SessionsInvPreserved ==
    SessionsInv /\ [Next]_<<part, dVars, nVars, cVars, pVars>> => SessionsInv'
<1> SUFFICES ASSUME SessionsInv, [Next]_<<part, dVars, nVars, cVars, pVars>> PROVE SessionsInv'
  OBVIOUS
<1>1. CASE C!Next
  <2>1. /\ cUsed \in [C!Kinds -> Nat] /\ cUsed' \in [C!Kinds -> Nat]
        /\ \A K \in SUBSET C!Kinds : C!Never(K)' => C!Never(K)
    BY <1>1, SessionsCount DEF SessionsInv, SessionsTyped
  <2>2. C!Never({"overlap"})' => C!Never({"overlap"})
    BY <2>1 DEF C!Kinds
  <2>3. /\ C!Never({"outage", "overlap"})' => C!Never({"outage", "overlap"})
        /\ C!Never({"outage", "overlap"}) => C!Never({"overlap"})
    <3>1. {"outage", "overlap"} \in SUBSET C!Kinds
      BY DEF C!Kinds
    <3> QED
      BY <2>1, <3>1 DEF C!Never
  <2>4. CASE (\E d \in Devices : SessionStep(d)) /\ UNCHANGED <<project, rows, known, pending>>
    <3>1. PICK d \in Devices : SessionStep(d)
      BY <2>4
    <3>2. SessionsTyped' /\ RequestsMeanIt' /\ EndedIsOut'
      BY <2>1, <3>1, SessionsTypedPreserved, EndedIsOutPreserved DEF SessionsInv
    <3>3. KeysTyped' /\ CreatedOnce' /\ (NoKeysLeft => NoKeysLeft')
      BY <2>4 DEF SessionsInv, KeysTyped, CreatedOnce, NoKeysLeft
    <3>4. ASSUME C!Never({"overlap"})' PROVE RowIsNewest' /\ SignedInIsValid'
      BY <2>2, <3>1, <3>4, RowIsNewestPreserved, SignedInIsValidPreserved DEF SessionsInv
    <3>5. ASSUME C!Never({"outage", "overlap"})' PROVE AskedIsEnded'
      BY <2>3, <3>1, <3>5, AskedIsEndedPreserved DEF SessionsInv
    <3> QED
      BY <2>2, <3>2, <3>3, <3>4, <3>5 DEF SessionsInv
  <2>5. CASE KeyStep /\ UNCHANGED <<issued, valid, holds, user, request, asked, ended, last>>
    <3>1. /\ SessionsTyped' /\ RequestsMeanIt' /\ EndedIsOut'
          /\ (RowIsNewest => RowIsNewest') /\ (SignedInIsValid => SignedInIsValid')
          /\ (AskedIsEnded => AskedIsEnded')
      BY <2>1, <2>5 DEF SessionsInv, SessionsTyped, TypedSession, RequestsMeanIt, EndedIsOut, RowIsNewest,
                        SignedInIsValid, AskedIsEnded, C!Accepted
    <3>2. KeysTyped' /\ CreatedOnce'
      BY <2>5, KeysTypedPreserved DEF SessionsInv
    <3>3. ASSUME C!Never({"overlap"})' PROVE NoKeysLeft'
      BY <2>1, <2>2, <2>5, <3>3, NoKeysLeftPreserved DEF SessionsInv
    <3> QED
      BY <2>2, <2>3, <3>1, <3>2, <3>3 DEF SessionsInv
  <2> QED
    BY <1>1, <2>4, <2>5, SessionsOrKeys
<1>2. CASE UNCHANGED cVars
  <2>1. UNCHANGED <<issued, valid, holds, user, request>> /\ UNCHANGED <<asked, ended, last, cUsed>>
        /\ UNCHANGED <<project, rows, known, pending>>
    BY <1>2 DEF cVars
  <2> QED
    BY <2>1 DEF SessionsInv, SessionsTyped, TypedSession, KeysTyped, RequestsMeanIt, EndedIsOut, CreatedOnce,
                RowIsNewest, SignedInIsValid, AskedIsEnded, NoKeysLeft, C!Accepted, C!Never
<1> QED
  BY <1>1, <1>2 DEF Next

\* Nobody has signed in, and there is no key, in the beginning.
LEMMA SessionsInvInitially == Init => SessionsInv
<1> SUFFICES ASSUME C!Init PROVE SessionsInv
  BY DEF Init
<1>1. SessionsTyped /\ KeysTyped
  BY DEF C!Init, SessionsTyped, TypedSession, KeysTyped, C!NoRequest
<1> QED
  BY <1>1 DEF C!Init, SessionsInv, RequestsMeanIt, EndedIsOut, CreatedOnce, RowIsNewest, SignedInIsValid,
              AskedIsEnded, NoKeysLeft, C!NoRequest, C!Accepted

\* A key is written when there is none.
LEMMA RevokedIsNotWritten ==
    ASSUME SessionsInv, [Next]_<<part, dVars, nVars, cVars, pVars>>, NEW k \in ApiKeys, rows[k] = "revoked"
    PROVE  rows'[k] # "valid"
<1>1. KeysTyped /\ CreatedOnce
  BY DEF SessionsInv
<1>2. CASE UNCHANGED rows
  BY <1>2
<1>3. CASE KeyStep
  BY <1>1, <1>3 DEF KeysTyped, CreatedOnce, KeyStep, C!CreateApiKey, C!UpsertApiKey, C!RevokeApiKey, C!RevokeRow,
                    C!Touch, C!Authenticate, C!ClearApiKeys
<1> QED
  BY <1>2, <1>3, SessionsOrKeys DEF Next, cVars

\* Whoever signs out is out, the newest sign-in has the session and keeps it, a key
\* that is revoked stays so and a deleted project has none (userController.ts:20-58,
\* apiKeyController.ts:50-66, projectController.ts:189).
THEOREM CredentialsDoEnd == Spec => CredentialsEnd
<1>1. SessionsInv => C!TypeOK /\ C!SignedOutIsOut /\ C!KeysDieWithProject
  BY DEF SessionsInv, SessionsTyped, KeysTyped, EndedIsOut, NoKeysLeft, C!TypeOK, C!SignedOutIsOut,
         C!KeysDieWithProject
<1>2. SessionsInv => C!NewestSignInWins /\ C!OnlyAskedAreOut
  BY DEF SessionsInv, SessionsTyped, RowIsNewest, AskedIsEnded, C!NewestSignInWins, C!OnlyAskedAreOut, C!Accepted
<1>3. SessionsInv /\ [Next]_<<part, dVars, nVars, cVars, pVars>>
      => [\A k \in ApiKeys : rows[k] = "revoked" => rows'[k] # "valid"]_C!vars
  BY RevokedIsNotWritten
<1> QED
  BY <1>1, <1>2, <1>3, SessionsInvInitially, SessionsInvPreserved, PTL
     DEF Spec, CredentialsEnd, C!RevokedStaysRevoked

-----------------------------------------------------------------------------
(* Purchases: the strengthening.                                           *)

Buying == {"deny", "approve", "check", "register", "poll", "adopt", "save"}
PurchaseFlow == [pc : P!Steps, req : DomainRequests, team : Teams, account : Accounts \cup {P!NoAccount}]

\* A registration is of a domain that was free, and takes it for good; a flow that
\* waits for one has started it.
PaidOnce ==
    /\ \A r \in DomainRequests : bought[r] = 1 => domain[DomainOf[r]] \in {"registering", "ours", "refused"}
    /\ \A r, q \in DomainRequests : r # q /\ DomainOf[r] = DomainOf[q] => bought[r] = 0 \/ bought[q] = 0
    /\ \A f \in Awaits : flow[f].pc \in {"poll", "adopt", "save"} => bought[flow[f].req] = 1
    /\ \A f \in Awaits : flow[f].pc \in {"adopt", "save"} => domain[DomainOf[flow[f].req]] = "ours"
    /\ \A r \in DomainRequests : status[r] = "purchased" => bought[r] = 1 /\ domain[DomainOf[r]] = "ours"

\* While flows take turns: the request of a flow is as the flow has left it, and has
\* started a registration only if the flow has.
OneAwait == \A f, g \in Awaits : f # g => flow[f] = P!NoFlow \/ flow[g] = P!NoFlow
Turns ==
    /\ OneAwait
    /\ \A f \in Awaits : flow[f].pc \in {"deny", "approve"} => status[flow[f].req] = "pending"
    /\ \A f \in Awaits : flow[f].pc \in Buying \ {"deny", "approve"} => status[flow[f].req] = "purchasing"
    /\ \A f \in Awaits : flow[f].pc \in {"check", "register"} => bought[flow[f].req] = 0
    /\ \A r \in DomainRequests : status[r] \in {"none", "pending"} => bought[r] = 0

\* While flows take turns, a link leads to an account; one that is about to be deleted
\* has no link.
LinksHold ==
    /\ \A t \in Teams : links[t] # P!NoAccount => links[t] \in accounts
    /\ \A f \in Awaits : flow[f].pc = "link" => flow[f].account \in accounts
    /\ \A f \in Awaits : flow[f].pc = "others" => links[flow[f].team] = P!NoAccount
    /\ \A f \in Awaits : flow[f].pc = "delete" =>
          \A t \in Teams : links[t] # P!NoAccount => links[t] # flow[f].account

PurchasesInv ==
    /\ P!TypeOK /\ PaidOnce
    /\ P!Never({"overlap"}) => Turns /\ LinksHold
    /\ P!FailedIsNotOurs

-----------------------------------------------------------------------------
(* Purchases: what a step does.                                            *)

\* Counting events keeps the counts natural numbers, and counts those named.
LEMMA PurchaseEvents ==
    ASSUME pUsed \in [P!Kinds -> Nat], NEW kinds \in SUBSET P!Kinds, P!Uses(kinds)
    PROVE  /\ pUsed' \in [P!Kinds -> Nat]
           /\ \A k \in kinds : pUsed'[k] > 0
           /\ \A K \in SUBSET P!Kinds : P!Never(K)' => P!Never(K)
<1>1. pUsed' = [k \in P!Kinds |-> pUsed[k] + (IF k \in kinds THEN 1 ELSE 0)]
  BY DEF P!Uses
<1>2. \A k \in P!Kinds : pUsed'[k] = pUsed[k] + (IF k \in kinds THEN 1 ELSE 0)
  BY <1>1
<1>3. pUsed' \in [P!Kinds -> Nat]
  BY <1>1
<1>4. \A k \in P!Kinds : pUsed'[k] = 0 => pUsed[k] = 0
  BY <1>2
<1>5. \A K \in SUBSET P!Kinds : P!Never(K)' => P!Never(K)
  BY <1>4 DEF P!Never
<1> QED
  BY <1>2, <1>3, <1>5

\* Every step of the component counts what happens.
LEMMA PurchasesCount ==
    ASSUME pUsed \in [P!Kinds -> Nat], P!Next
    PROVE  /\ pUsed' \in [P!Kinds -> Nat]
           /\ \A K \in SUBSET P!Kinds : P!Never(K)' => P!Never(K)
<1>1. ASSUME UNCHANGED pUsed PROVE \A K \in SUBSET P!Kinds : P!Never(K)' => P!Never(K)
  BY <1>1 DEF P!Never
<1>2. UNCHANGED pUsed \/ \E kinds \in SUBSET P!Kinds : P!Uses(kinds)
  BY DEF P!Next, P!CreateRequest, P!Starts, P!StartDecide, P!StartBuy, P!StartSave, P!StartRemove, P!Begins,
         P!Step, P!Deny, P!Approve, P!Check, P!Register, P!Poll, P!Adopt, P!SavePurchased, P!Link, P!Others,
         P!DeleteAccount, P!Registered, P!Taken, P!Crash, P!Kinds
<1> QED
  BY <1>1, <1>2, PurchaseEvents

\* A flow that begins while another runs is counted.
LEMMA FlowsTakeTurns ==
    ASSUME pUsed \in [P!Kinds -> Nat], NEW f \in Awaits, NEW kinds \in SUBSET P!Kinds, P!Begins(f, kinds),
           P!Never({"overlap"})'
    PROVE  \A g \in Awaits : flow[g] = P!NoFlow
<1>1. ASSUME P!Uses(kinds \cup {"overlap"}) PROVE FALSE
  <2>1. pUsed'["overlap"] > 0
    BY <1>1, PurchaseEvents DEF P!Kinds
  <2> QED
    BY <2>1 DEF P!Never
<1> QED
  BY <1>1 DEF P!Begins

\* What a flow does not count as failed.
LEMMA FailuresAreCounted ==
    ASSUME pUsed \in [P!Kinds -> Nat], NEW k \in {"slow", "lost", "unsynced"}, P!Uses({k})
    PROVE  ~P!Never({"overlap", "slow", "lost", "unsynced"})'
<1>1. pUsed'[k] > 0
  BY PurchaseEvents DEF P!Kinds
<1> QED
  BY <1>1 DEF P!Never

\* The idle flow is of the type of one.
LEMMA NoFlowTyped == P!NoFlow \in PurchaseFlow /\ P!NoFlow.pc = "done"
BY Purchasable DEF PurchaseFlow, P!NoFlow, P!Steps, P!PurchaseAssumption

RowsTyped == status \in [DomainRequests -> P!Statuses] /\ told \in [DomainRequests -> SUBSET P!Settled]
FlowsTyped == /\ flow \in [Awaits -> PurchaseFlow]
              /\ \A f \in Awaits : flow[f].pc \in Buying => flow[f].account \in Accounts

\* A purchase that fails, or goes on, keeps them.
LEMMA PurchaseGoesOn ==
    ASSUME RowsTyped, FlowsTyped, NEW f \in Awaits
    PROVE  /\ P!Fails(f) => RowsTyped' /\ FlowsTyped'
           /\ \A pc \in Buying : flow[f].pc \in Buying /\ P!Goes(f, pc) => FlowsTyped'
<1> USE NoFlowTyped DEF RowsTyped, FlowsTyped, PurchaseFlow, Buying
<1>1. ASSUME P!Fails(f) PROVE RowsTyped'
  BY <1>1 DEF P!Fails, P!Saves, P!Statuses, P!Settled
<1>2. ASSUME P!Fails(f) PROVE FlowsTyped'
  BY <1>2 DEF P!Fails, P!Ends
<1>3. ASSUME NEW pc \in Buying, flow[f].pc \in Buying, P!Goes(f, pc) PROVE FlowsTyped'
  BY <1>3 DEF P!Goes, P!Steps
<1> QED
  BY <1>1, <1>2, <1>3

\* The types hold; in particular an account is chosen before a purchase begins, and
\* a request starts one registration.
LEMMA PurchaseTypesPreserved ==
    ASSUME P!TypeOK, PaidOnce, P!Next PROVE P!TypeOK'
<1>u. pUsed' \in [P!Kinds -> Nat]
  BY PurchasesCount DEF P!TypeOK
<1> USE Purchasable, NoFlowTyped DEF P!TypeOK, P!requests, P!registrar, P!teams, P!Goes, P!Ends, P!At, P!D, P!Statuses, P!Settled, P!Steps, P!PurchaseAssumption, PurchaseFlow
<1>1. ASSUME NEW r \in DomainRequests, P!CreateRequest(r) PROVE P!TypeOK'
  BY <1>1, <1>u DEF P!CreateRequest
<1>2. ASSUME NEW f \in Awaits, NEW r \in DomainRequests, NEW t \in Teams, P!StartBuy(f, r, t) PROVE P!TypeOK'
  BY <1>2, <1>u DEF P!StartBuy, P!Saves, P!Configured, P!NoFlow
<1>3. ASSUME NEW f \in Awaits, NEW r \in DomainRequests, NEW t \in Teams, NEW b \in BOOLEAN, P!StartDecide(f, r, t, b)
      PROVE  P!TypeOK'
  BY <1>3, <1>u DEF P!StartDecide, P!Configured, P!Undecided, P!NoFlow
<1>4. ASSUME NEW f \in Awaits, NEW t \in Teams, P!StartRemove(f, t) PROVE P!TypeOK'
  BY <1>4, <1>u DEF P!StartRemove, P!NoFlow
<1>5. ASSUME NEW f \in Awaits, NEW t \in Teams, NEW a \in Accounts, P!StartSave(f, t, a) PROVE P!TypeOK'
  BY <1>5, <1>u DEF P!StartSave, P!NoFlow
<1>6. ASSUME NEW f \in Awaits, P!Deny(f) PROVE P!TypeOK'
  BY <1>6, <1>u DEF P!Deny, P!Saves
<1>7. ASSUME NEW f \in Awaits, P!Approve(f) PROVE P!TypeOK'
  BY <1>7, <1>u DEF P!Approve, P!Saves
<1>8. ASSUME NEW f \in Awaits, P!Check(f) PROVE P!TypeOK'
  <2>1. RowsTyped /\ FlowsTyped
    BY DEF RowsTyped, FlowsTyped, PurchaseFlow, Buying
  <2>2. RowsTyped' /\ FlowsTyped'
    BY <2>1, <1>8, PurchaseGoesOn DEF P!Check, RowsTyped, Buying
  <2>3. UNCHANGED <<domain, bought, links, accounts>>
    BY <1>8 DEF P!Check
  <2> QED
    BY <2>2, <2>3, <1>u DEF RowsTyped, FlowsTyped, PurchaseFlow, Buying
<1>9. ASSUME NEW f \in Awaits, P!Register(f) PROVE P!TypeOK'
  <2>1. RowsTyped /\ FlowsTyped
    BY DEF RowsTyped, FlowsTyped, PurchaseFlow, Buying
  <2>2. RowsTyped' /\ FlowsTyped'
    BY <2>1, <1>9, PurchaseGoesOn DEF P!Register, RowsTyped, Buying
  <2>3. domain' \in [DomainNames -> {"free", "registering", "ours", "refused", "taken"}]
        /\ bought' \in [DomainRequests -> {0, 1}] /\ UNCHANGED <<links, accounts>>
    BY <1>9 DEF P!Register, PaidOnce
  <2> QED
    BY <2>2, <2>3, <1>u DEF RowsTyped, FlowsTyped, PurchaseFlow, Buying
<1>10. ASSUME NEW f \in Awaits, P!Poll(f) PROVE P!TypeOK'
  <2>1. RowsTyped /\ FlowsTyped
    BY DEF RowsTyped, FlowsTyped, PurchaseFlow, Buying
  <2>2. RowsTyped' /\ FlowsTyped'
    BY <2>1, <1>10, PurchaseGoesOn DEF P!Poll, RowsTyped, Buying
  <2>3. domain' \in [DomainNames -> {"free", "registering", "ours", "refused", "taken"}]
        /\ bought' \in [DomainRequests -> {0, 1}] /\ UNCHANGED <<links, accounts>>
    BY <1>10 DEF P!Poll, PaidOnce
  <2> QED
    BY <2>2, <2>3, <1>u DEF RowsTyped, FlowsTyped, PurchaseFlow, Buying
<1>11. ASSUME NEW f \in Awaits, P!Adopt(f) PROVE P!TypeOK'
  <2>1. RowsTyped /\ FlowsTyped
    BY DEF RowsTyped, FlowsTyped, PurchaseFlow, Buying
  <2>2. RowsTyped' /\ FlowsTyped'
    BY <2>1, <1>11, PurchaseGoesOn DEF P!Adopt, RowsTyped, Buying
  <2>3. domain' \in [DomainNames -> {"free", "registering", "ours", "refused", "taken"}]
        /\ bought' \in [DomainRequests -> {0, 1}] /\ UNCHANGED <<links, accounts>>
    BY <1>11 DEF P!Adopt, PaidOnce
  <2> QED
    BY <2>2, <2>3, <1>u DEF RowsTyped, FlowsTyped, PurchaseFlow, Buying
<1>12. ASSUME NEW f \in Awaits, P!SavePurchased(f) PROVE P!TypeOK'
  BY <1>12, <1>u DEF P!SavePurchased, P!Saves
<1>13. ASSUME NEW f \in Awaits, P!Link(f) PROVE P!TypeOK'
  BY <1>13, <1>u DEF P!Link
<1>14. ASSUME NEW f \in Awaits, P!Others(f) PROVE P!TypeOK'
  BY <1>14, <1>u DEF P!Others, P!OtherTeams
<1>15. ASSUME NEW f \in Awaits, P!DeleteAccount(f) PROVE P!TypeOK'
  BY <1>15, <1>u DEF P!DeleteAccount
<1>16. ASSUME NEW d \in DomainNames, P!Registered(d) PROVE P!TypeOK'
  BY <1>16, <1>u DEF P!Registered
<1>17. ASSUME NEW d \in DomainNames, P!Taken(d) PROVE P!TypeOK'
  BY <1>17, <1>u DEF P!Taken
<1>18. CASE P!Crash
  BY <1>18, <1>u DEF P!Crash
<1> QED
  BY <1>1, <1>2, <1>3, <1>4, <1>5, <1>6, <1>7, <1>8, <1>9, <1>10, <1>11, <1>12,
     <1>13, <1>14, <1>15, <1>16, <1>17, <1>18 DEF P!Next, P!Starts, P!Step

\* What a flow does to its request and to itself when its purchase fails,
LEMMA FlowFails ==
    ASSUME P!TypeOK, NEW f \in Awaits, P!Fails(f)
    PROVE  /\ flow'[f] = P!NoFlow /\ \A g \in Awaits \ {f} : flow'[g] = flow[g]
           /\ status'[flow[f].req] = "failed"
           /\ \A r \in DomainRequests \ {flow[f].req} : status'[r] = status[r]
  BY DEF P!TypeOK, P!Fails, P!Saves, P!Ends

\* and when it goes on.
LEMMA FlowGoes ==
    ASSUME P!TypeOK, NEW f \in Awaits, NEW pc, P!Goes(f, pc)
    PROVE  /\ flow'[f].pc = pc /\ flow'[f].req = flow[f].req
           /\ \A g \in Awaits \ {f} : flow'[g] = flow[g]
  BY DEF P!TypeOK, P!Goes

\* A purchase that fails leaves what is paid.
LEMMA FailsPaidOnce ==
    ASSUME P!TypeOK, PaidOnce, NEW f \in Awaits, P!Fails(f), UNCHANGED <<domain, bought>> PROVE PaidOnce'
<1>1. flow[f].req \in DomainRequests
  BY DEF P!TypeOK
<1> QED
  BY <1>1, FlowFails, NoFlowTyped DEF PaidOnce

\* One that goes on does, if the registrar has done what it goes on with.
LEMMA GoesPaidOnce ==
    ASSUME P!TypeOK, PaidOnce, NEW f \in Awaits, NEW pc, P!Goes(f, pc), UNCHANGED <<status, domain, bought>>,
           pc \in {"poll", "adopt", "save"} => bought[flow[f].req] = 1 /\ domain[DomainOf[flow[f].req]] = "ours"
    PROVE  PaidOnce'
<1>1. flow[f].req \in DomainRequests
  BY DEF P!TypeOK
<1> QED
  BY <1>1, FlowGoes DEF PaidOnce

\* The flow that has its turn may end it,
LEMMA FailsInTurn ==
    ASSUME P!TypeOK, Turns, NEW f \in Awaits, flow[f].pc # "done", P!Fails(f),
           \A r \in DomainRequests \ {flow[f].req} : bought'[r] = bought[r]
    PROVE  Turns'
<1>1. flow[f].req \in DomainRequests /\ flow[f] # P!NoFlow
  BY NoFlowTyped DEF P!TypeOK
<1>2. \A g \in Awaits : flow'[g] = P!NoFlow
  BY <1>1, FlowFails DEF Turns, OneAwait
<1>3. \A r \in DomainRequests : status'[r] \in {"none", "pending"} => bought'[r] = 0
  BY <1>1, FlowFails DEF Turns
<1> QED
  BY <1>2, <1>3, NoFlowTyped DEF Turns, OneAwait, Buying

\* or go on with it.
LEMMA GoesInTurn ==
    ASSUME P!TypeOK, Turns, NEW f \in Awaits, flow[f].pc # "done", NEW pc \in Buying \ {"deny", "approve"},
           P!Goes(f, pc), status'[flow[f].req] = "purchasing",
           \A r \in DomainRequests \ {flow[f].req} : status'[r] = status[r] /\ bought'[r] = bought[r],
           pc \in {"check", "register"} => bought'[flow[f].req] = 0
    PROVE  Turns'
<1>1. flow[f].req \in DomainRequests /\ flow[f] # P!NoFlow
  BY NoFlowTyped DEF P!TypeOK
<1>2. \A g \in Awaits \ {f} : flow'[g] = P!NoFlow
  BY <1>1, FlowGoes DEF Turns, OneAwait
<1>3. \A r \in DomainRequests : status'[r] \in {"none", "pending"} => bought'[r] = 0
  BY <1>1 DEF Turns
<1> QED
  BY <1>1, <1>2, <1>3, FlowGoes, NoFlowTyped DEF Turns, OneAwait, Buying

\* A purchase that fails unpaid, or refused, is not ours.
LEMMA FailsUnpaid ==
    ASSUME P!TypeOK, NEW f \in Awaits, P!Fails(f), UNCHANGED <<domain, bought>>,
           bought[flow[f].req] = 0 \/ domain[DomainOf[flow[f].req]] = "refused",
           \A r \in DomainRequests : status[r] \in {"denied", "failed"} /\ bought[r] > 0 => domain[DomainOf[r]] = "refused"
    PROVE  P!FailedIsNotOurs'
<1>1. flow[f].req \in DomainRequests
  BY DEF P!TypeOK
<1> QED
  BY <1>1, FlowFails DEF P!FailedIsNotOurs

\* Only a registration that finds the domain free is paid for.
LEMMA PaidOncePreserved ==
    ASSUME P!TypeOK, PaidOnce, P!Next PROVE PaidOnce'
<1> USE Purchasable, NoFlowTyped DEF P!TypeOK, P!requests, P!registrar, P!teams, P!Goes, P!Ends, P!At, P!D, P!Statuses, P!Settled, P!Steps, P!PurchaseAssumption, PaidOnce
<1>1. ASSUME NEW r \in DomainRequests, P!CreateRequest(r) PROVE PaidOnce'
  BY <1>1 DEF P!CreateRequest
<1>2. ASSUME NEW f \in Awaits, NEW r \in DomainRequests, NEW t \in Teams, P!StartBuy(f, r, t) PROVE PaidOnce'
  BY <1>2 DEF P!StartBuy, P!Saves, P!Configured
<1>3. ASSUME NEW f \in Awaits, NEW r \in DomainRequests, NEW t \in Teams, NEW b \in BOOLEAN, P!StartDecide(f, r, t, b)
      PROVE  PaidOnce'
  BY <1>3 DEF P!StartDecide, P!Configured, P!Undecided
<1>4. ASSUME NEW f \in Awaits, NEW t \in Teams, P!StartRemove(f, t) PROVE PaidOnce'
  BY <1>4 DEF P!StartRemove
<1>5. ASSUME NEW f \in Awaits, NEW t \in Teams, NEW a \in Accounts, P!StartSave(f, t, a) PROVE PaidOnce'
  BY <1>5 DEF P!StartSave
<1>6. ASSUME NEW f \in Awaits, P!Deny(f) PROVE PaidOnce'
  BY <1>6 DEF P!Deny, P!Saves
<1>7. ASSUME NEW f \in Awaits, P!Approve(f) PROVE PaidOnce'
  BY <1>7 DEF P!Approve, P!Saves
<1>8. ASSUME NEW f \in Awaits, P!Check(f) PROVE PaidOnce'
  BY <1>8, FailsPaidOnce, GoesPaidOnce DEF P!Check
<1>9. ASSUME NEW f \in Awaits, P!Register(f) PROVE PaidOnce'
  <2>1. CASE domain[P!D(f)] = "free"
    <3>1. /\ flow[f].req \in DomainRequests /\ P!D(f) \in DomainNames
          /\ \A r \in DomainRequests : DomainOf[r] = P!D(f) => bought[r] = 0
      BY <2>1
    <3>2. /\ domain'[P!D(f)] = "registering" /\ \A d \in DomainNames \ {P!D(f)} : domain'[d] = domain[d]
          /\ bought'[flow[f].req] = 1
          /\ \A r \in DomainRequests \ {flow[f].req} : bought'[r] = bought[r]
      BY <1>9, <2>1, <3>1 DEF P!Register
    <3>3. /\ \A g \in Awaits \ {f} : flow'[g] = flow[g]
          /\ flow'[f].pc \in {"poll", "done"} /\ (flow'[f].pc = "poll" => flow'[f].req = flow[f].req)
          /\ \A r \in DomainRequests : status'[r] = status[r] \/ status'[r] = "failed"
      BY <1>9, <2>1, FlowFails, FlowGoes DEF P!Register
    <3>4. \A r \in DomainRequests : bought'[r] = 1 => domain'[DomainOf[r]] \in {"registering", "ours", "refused"}
      BY <3>1, <3>2
    <3>5. \A r, q \in DomainRequests : r # q /\ DomainOf[r] = DomainOf[q] => bought'[r] = 0 \/ bought'[q] = 0
      BY <3>1, <3>2
    <3>6. ASSUME NEW g \in Awaits
          PROVE  /\ flow'[g].pc \in {"poll", "adopt", "save"} => bought'[flow'[g].req] = 1
                 /\ flow'[g].pc \in {"adopt", "save"} => domain'[DomainOf[flow'[g].req]] = "ours"
      <4>1. CASE g = f
        BY <3>2, <3>3, <4>1
      <4>2. CASE g # f
        <5>1. flow'[g] = flow[g] /\ flow[g].req \in DomainRequests /\ DomainOf[flow[g].req] \in DomainNames
          BY <3>3, <4>2
        <5> QED
          BY <2>1, <3>1, <3>2, <5>1
      <4> QED
        BY <4>1, <4>2
    <3>7. \A r \in DomainRequests : status'[r] = "purchased" => bought'[r] = 1 /\ domain'[DomainOf[r]] = "ours"
      BY <2>1, <3>1, <3>2, <3>3
    <3> QED
      BY <3>4, <3>5, <3>6, <3>7
  <2>2. CASE domain[P!D(f)] # "free"
    BY <1>9, <2>2, FailsPaidOnce DEF P!Register
  <2> QED
    BY <2>1, <2>2
<1>10. ASSUME NEW f \in Awaits, P!Poll(f) PROVE PaidOnce'
  <2>1. CASE P!Fails(f)
    BY <1>10, <2>1, FailsPaidOnce DEF P!Poll
  <2>2. CASE P!Goes(f, "adopt") /\ UNCHANGED status /\ domain[P!D(f)] = "ours"
    BY <1>10, <2>2, GoesPaidOnce DEF P!Poll
  <2> QED
    BY <1>10, <2>1, <2>2 DEF P!Poll, P!Completed
<1>11. ASSUME NEW f \in Awaits, P!Adopt(f) PROVE PaidOnce'
  <2>1. CASE P!Fails(f)
    BY <1>11, <2>1, FailsPaidOnce DEF P!Adopt
  <2>2. CASE P!Goes(f, "save") /\ UNCHANGED status
    BY <1>11, <2>2, GoesPaidOnce DEF P!Adopt
  <2> QED
    BY <1>11, <2>1, <2>2 DEF P!Adopt, P!Completed
<1>12. ASSUME NEW f \in Awaits, P!SavePurchased(f) PROVE PaidOnce'
  BY <1>12 DEF P!SavePurchased, P!Saves
<1>13. ASSUME NEW f \in Awaits, P!Link(f) PROVE PaidOnce'
  BY <1>13 DEF P!Link
<1>14. ASSUME NEW f \in Awaits, P!Others(f) PROVE PaidOnce'
  <2>1. CASE P!Goes(f, "delete")
    BY <1>14, <2>1, GoesPaidOnce DEF P!Others
  <2>2. CASE P!Ends(f)
    BY <1>14, <2>2 DEF P!Others
  <2> QED
    BY <1>14, <2>1, <2>2 DEF P!Others
<1>15. ASSUME NEW f \in Awaits, P!DeleteAccount(f) PROVE PaidOnce'
  BY <1>15 DEF P!DeleteAccount
<1>16. ASSUME NEW d \in DomainNames, P!Registered(d) PROVE PaidOnce'
  BY <1>16 DEF P!Registered
<1>17. ASSUME NEW d \in DomainNames, P!Taken(d) PROVE PaidOnce'
  BY <1>17 DEF P!Taken
<1>18. CASE P!Crash
  BY <1>18 DEF P!Crash
<1> QED
  BY <1>1, <1>2, <1>3, <1>4, <1>5, <1>6, <1>7, <1>8, <1>9, <1>10, <1>11, <1>12,
     <1>13, <1>14, <1>15, <1>16, <1>17, <1>18 DEF P!Next, P!Starts, P!Step

\* While flows take turns, no other flow runs that could change the request.
LEMMA TurnsPreserved ==
    ASSUME P!TypeOK, PaidOnce, Turns, P!Next, P!Never({"overlap"})' PROVE Turns'
<1>u. pUsed \in [P!Kinds -> Nat]
  BY DEF P!TypeOK
<1> USE Purchasable, NoFlowTyped DEF P!TypeOK, P!requests, P!registrar, P!teams, P!Goes, P!Ends, P!At, P!D, P!Statuses, P!Settled, P!Steps, P!PurchaseAssumption, PaidOnce, Turns, OneAwait, Buying
<1>1. ASSUME NEW r \in DomainRequests, P!CreateRequest(r) PROVE Turns'
  BY <1>1 DEF P!CreateRequest
<1>2. ASSUME NEW f \in Awaits, NEW r \in DomainRequests, NEW t \in Teams, P!StartBuy(f, r, t) PROVE Turns'
  BY <1>2, <1>u, FlowsTakeTurns DEF P!StartBuy, P!Saves, P!Configured, P!Kinds
<1>3. ASSUME NEW f \in Awaits, NEW r \in DomainRequests, NEW t \in Teams, NEW b \in BOOLEAN, P!StartDecide(f, r, t, b)
      PROVE  Turns'
  BY <1>3, <1>u, FlowsTakeTurns DEF P!StartDecide, P!Configured, P!Undecided, P!Kinds
<1>4. ASSUME NEW f \in Awaits, NEW t \in Teams, P!StartRemove(f, t) PROVE Turns'
  BY <1>4, <1>u, FlowsTakeTurns DEF P!StartRemove, P!Kinds
<1>5. ASSUME NEW f \in Awaits, NEW t \in Teams, NEW a \in Accounts, P!StartSave(f, t, a) PROVE Turns'
  BY <1>5, <1>u, FlowsTakeTurns DEF P!StartSave, P!Kinds
<1>6. ASSUME NEW f \in Awaits, P!Deny(f) PROVE Turns'
  BY <1>6 DEF P!Deny, P!Saves
<1>7. ASSUME NEW f \in Awaits, P!Approve(f) PROVE Turns'
  <2>1. /\ status'[flow[f].req] = "purchasing" /\ bought'[flow[f].req] = 0
        /\ \A r \in DomainRequests \ {flow[f].req} : status'[r] = status[r] /\ bought'[r] = bought[r]
    BY <1>7 DEF P!Approve, P!Saves
  <2> QED
    BY <1>7, <2>1, GoesInTurn DEF P!Approve
<1>8. ASSUME NEW f \in Awaits, P!Check(f) PROVE Turns'
  <2>1. CASE P!Fails(f)
    BY <1>8, <2>1, FailsInTurn DEF P!Check
  <2>2. CASE P!Goes(f, "register") /\ UNCHANGED status
    BY <1>8, <2>2, GoesInTurn DEF P!Check
  <2> QED
    BY <1>8, <2>1, <2>2 DEF P!Check, P!Completed
<1>9. ASSUME NEW f \in Awaits, P!Register(f) PROVE Turns'
  <2>1. \A r \in DomainRequests \ {flow[f].req} : bought'[r] = bought[r]
    BY <1>9 DEF P!Register
  <2>2. CASE P!Fails(f)
    BY <1>9, <2>1, <2>2, FailsInTurn DEF P!Register
  <2>3. CASE P!Goes(f, "poll") /\ UNCHANGED status
    BY <1>9, <2>1, <2>3, GoesInTurn DEF P!Register
  <2> QED
    BY <1>9, <2>2, <2>3 DEF P!Register
<1>10. ASSUME NEW f \in Awaits, P!Poll(f) PROVE Turns'
  <2>1. CASE P!Fails(f)
    BY <1>10, <2>1, FailsInTurn DEF P!Poll
  <2>2. CASE P!Goes(f, "adopt") /\ UNCHANGED status
    BY <1>10, <2>2, GoesInTurn DEF P!Poll
  <2> QED
    BY <1>10, <2>1, <2>2 DEF P!Poll, P!Completed
<1>11. ASSUME NEW f \in Awaits, P!Adopt(f) PROVE Turns'
  <2>1. CASE P!Fails(f)
    BY <1>11, <2>1, FailsInTurn DEF P!Adopt
  <2>2. CASE P!Goes(f, "save") /\ UNCHANGED status
    BY <1>11, <2>2, GoesInTurn DEF P!Adopt
  <2> QED
    BY <1>11, <2>1, <2>2 DEF P!Adopt, P!Completed
<1>12. ASSUME NEW f \in Awaits, P!SavePurchased(f) PROVE Turns'
  BY <1>12 DEF P!SavePurchased, P!Saves
<1>13. ASSUME NEW f \in Awaits, P!Link(f) PROVE Turns'
  BY <1>13 DEF P!Link
<1>14. ASSUME NEW f \in Awaits, P!Others(f) PROVE Turns'
  <2>1. UNCHANGED <<status, bought>> /\ \A g \in Awaits \ {f} : flow'[g] = flow[g]
    BY <1>14 DEF P!Others
  <2>2. flow'[f] = P!NoFlow \/ (flow'[f].pc = "delete" /\ flow[f] # P!NoFlow)
    BY <1>14 DEF P!Others
  <2>3. flow'[f].pc \notin Buying
    BY <2>2 DEF P!NoFlow
  <2>4. OneAwait'
    BY <2>1, <2>2 DEF OneAwait
  <2> QED
    BY <2>1, <2>3, <2>4
<1>15. ASSUME NEW f \in Awaits, P!DeleteAccount(f) PROVE Turns'
  BY <1>15 DEF P!DeleteAccount
<1>16. ASSUME NEW d \in DomainNames, P!Registered(d) PROVE Turns'
  BY <1>16 DEF P!Registered
<1>17. ASSUME NEW d \in DomainNames, P!Taken(d) PROVE Turns'
  BY <1>17 DEF P!Taken
<1>18. CASE P!Crash
  BY <1>18 DEF P!Crash
<1> QED
  BY <1>1, <1>2, <1>3, <1>4, <1>5, <1>6, <1>7, <1>8, <1>9, <1>10, <1>11, <1>12,
     <1>13, <1>14, <1>15, <1>16, <1>17, <1>18 DEF P!Next, P!Starts, P!Step

\* Links are kept where nothing is linked.
LEMMA LinksUntouched ==
    ASSUME LinksHold, UNCHANGED <<links, accounts>>,
           \A g \in Awaits : flow'[g] = flow[g] \/ flow'[g].pc \notin {"link", "others", "delete"}
    PROVE  LinksHold'
BY DEF LinksHold

\* While flows take turns, no link comes up beside the deletion of its account.
LEMMA LinksHoldPreserved ==
    ASSUME P!TypeOK, OneAwait, LinksHold, P!Next, P!Never({"overlap"})' PROVE LinksHold'
<1>u. pUsed \in [P!Kinds -> Nat]
  BY DEF P!TypeOK
<1> USE Purchasable, NoFlowTyped DEF P!TypeOK, P!requests, P!registrar, P!teams, P!Goes, P!Ends, P!At, P!D, P!Statuses, P!Settled, P!Steps, P!PurchaseAssumption, LinksHold, OneAwait
<1>1. ASSUME NEW r \in DomainRequests, P!CreateRequest(r) PROVE LinksHold'
  BY <1>1 DEF P!CreateRequest
<1>2. ASSUME NEW f \in Awaits, NEW r \in DomainRequests, NEW t \in Teams, P!StartBuy(f, r, t) PROVE LinksHold'
  BY <1>2, <1>u, FlowsTakeTurns DEF P!StartBuy, P!Saves, P!Configured, P!Kinds
<1>3. ASSUME NEW f \in Awaits, NEW r \in DomainRequests, NEW t \in Teams, NEW b \in BOOLEAN, P!StartDecide(f, r, t, b)
      PROVE  LinksHold'
  BY <1>3, <1>u, FlowsTakeTurns DEF P!StartDecide, P!Configured, P!Undecided, P!Kinds
<1>4. ASSUME NEW f \in Awaits, NEW t \in Teams, P!StartRemove(f, t) PROVE LinksHold'
  BY <1>4, <1>u, FlowsTakeTurns DEF P!StartRemove, P!Kinds
<1>5. ASSUME NEW f \in Awaits, NEW t \in Teams, NEW a \in Accounts, P!StartSave(f, t, a) PROVE LinksHold'
  BY <1>5, <1>u, FlowsTakeTurns DEF P!StartSave, P!Kinds
<1>6. ASSUME NEW f \in Awaits, P!Deny(f) PROVE LinksHold'
  BY <1>6 DEF P!Deny, P!Saves
<1>7. ASSUME NEW f \in Awaits, P!Approve(f) PROVE LinksHold'
  BY <1>7 DEF P!Approve, P!Saves
<1>8. ASSUME NEW f \in Awaits, P!Check(f) PROVE LinksHold'
  BY <1>8 DEF P!Check, P!Fails, P!Saves
<1>9. ASSUME NEW f \in Awaits, P!Register(f) PROVE LinksHold'
  <2>1. UNCHANGED <<links, accounts>>
    BY <1>9 DEF P!Register
  <2>2. \A g \in Awaits : flow'[g] = flow[g] \/ flow'[g].pc \notin {"link", "others", "delete"}
    BY <1>9 DEF P!Register, P!Fails
  <2> QED
    BY <2>1, <2>2, LinksUntouched
<1>10. ASSUME NEW f \in Awaits, P!Poll(f) PROVE LinksHold'
  <2>1. UNCHANGED <<links, accounts>>
    BY <1>10 DEF P!Poll
  <2>2. \A g \in Awaits : flow'[g] = flow[g] \/ flow'[g].pc \notin {"link", "others", "delete"}
    BY <1>10 DEF P!Poll, P!Fails
  <2> QED
    BY <2>1, <2>2, LinksUntouched
<1>11. ASSUME NEW f \in Awaits, P!Adopt(f) PROVE LinksHold'
  <2>1. UNCHANGED <<links, accounts>>
    BY <1>11 DEF P!Adopt
  <2>2. \A g \in Awaits : flow'[g] = flow[g] \/ flow'[g].pc \notin {"link", "others", "delete"}
    BY <1>11 DEF P!Adopt, P!Fails
  <2> QED
    BY <2>1, <2>2, LinksUntouched
<1>12. ASSUME NEW f \in Awaits, P!SavePurchased(f) PROVE LinksHold'
  BY <1>12 DEF P!SavePurchased, P!Saves
<1>13. ASSUME NEW f \in Awaits, P!Link(f) PROVE LinksHold'
  BY <1>13 DEF P!Link
<1>14. ASSUME NEW f \in Awaits, P!Others(f) PROVE LinksHold'
  BY <1>14 DEF P!Others, P!OtherTeams
<1>15. ASSUME NEW f \in Awaits, P!DeleteAccount(f) PROVE LinksHold'
  BY <1>15 DEF P!DeleteAccount
<1>16. ASSUME NEW d \in DomainNames, P!Registered(d) PROVE LinksHold'
  BY <1>16 DEF P!Registered
<1>17. ASSUME NEW d \in DomainNames, P!Taken(d) PROVE LinksHold'
  BY <1>17 DEF P!Taken
<1>18. CASE P!Crash
  BY <1>18 DEF P!Crash
<1> QED
  BY <1>1, <1>2, <1>3, <1>4, <1>5, <1>6, <1>7, <1>8, <1>9, <1>10, <1>11, <1>12,
     <1>13, <1>14, <1>15, <1>16, <1>17, <1>18 DEF P!Next, P!Starts, P!Step

\* Who is refused or denied has not started a registration, or one that was refused.
LEMMA FailedIsNotOursPreserved ==
    ASSUME P!TypeOK, PaidOnce, P!Never({"overlap"}) => Turns, P!FailedIsNotOurs, P!Next PROVE P!FailedIsNotOurs'
<1>u. /\ pUsed \in [P!Kinds -> Nat]
      /\ \A K \in SUBSET P!Kinds : P!Never(K)' => P!Never(K)
  BY PurchasesCount DEF P!TypeOK
<1>n. SUFFICES ASSUME P!Never({"overlap", "slow", "lost", "unsynced"})' PROVE P!FailedIsNotOurs'
  BY DEF P!FailedIsNotOurs
<1>t. /\ Turns
      /\ \A r \in DomainRequests : status[r] \in {"denied", "failed"} /\ bought[r] > 0 => domain[DomainOf[r]] = "refused"
  BY <1>u, <1>n DEF P!FailedIsNotOurs, P!Never, P!Kinds
<1> USE Purchasable, NoFlowTyped DEF P!TypeOK, P!requests, P!registrar, P!teams, P!Goes, P!Ends, P!At, P!D, P!Statuses, P!Settled, P!Steps, P!PurchaseAssumption, PaidOnce, Turns, Buying, P!FailedIsNotOurs
<1>1. ASSUME NEW r \in DomainRequests, P!CreateRequest(r) PROVE P!FailedIsNotOurs'
  BY <1>1, <1>t DEF P!CreateRequest
<1>2. ASSUME NEW f \in Awaits, NEW r \in DomainRequests, NEW t \in Teams, P!StartBuy(f, r, t) PROVE P!FailedIsNotOurs'
  BY <1>2, <1>t DEF P!StartBuy, P!Saves, P!Configured
<1>3. ASSUME NEW f \in Awaits, NEW r \in DomainRequests, NEW t \in Teams, NEW b \in BOOLEAN, P!StartDecide(f, r, t, b)
      PROVE  P!FailedIsNotOurs'
  BY <1>3, <1>t DEF P!StartDecide, P!Configured, P!Undecided
<1>4. ASSUME NEW f \in Awaits, NEW t \in Teams, P!StartRemove(f, t) PROVE P!FailedIsNotOurs'
  BY <1>4, <1>t DEF P!StartRemove
<1>5. ASSUME NEW f \in Awaits, NEW t \in Teams, NEW a \in Accounts, P!StartSave(f, t, a) PROVE P!FailedIsNotOurs'
  BY <1>5, <1>t DEF P!StartSave
<1>6. ASSUME NEW f \in Awaits, P!Deny(f) PROVE P!FailedIsNotOurs'
  BY <1>6, <1>t DEF P!Deny, P!Saves
<1>7. ASSUME NEW f \in Awaits, P!Approve(f) PROVE P!FailedIsNotOurs'
  BY <1>7, <1>t DEF P!Approve, P!Saves
<1>8. ASSUME NEW f \in Awaits, P!Check(f) PROVE P!FailedIsNotOurs'
  BY <1>8, <1>t DEF P!Check, P!Fails, P!Saves
<1>9. ASSUME NEW f \in Awaits, P!Register(f) PROVE P!FailedIsNotOurs'
  <2>1. CASE domain[P!D(f)] = "free"
    <3>1. P!Goes(f, "poll") /\ UNCHANGED status
      BY <1>9, <2>1, <1>u, <1>n, FailuresAreCounted DEF P!Register
    <3>2. /\ status[flow[f].req] = "purchasing" /\ P!D(f) \in DomainNames
          /\ \A r \in DomainRequests \ {flow[f].req} : bought'[r] = bought[r]
          /\ \A d \in DomainNames \ {P!D(f)} : domain'[d] = domain[d]
      BY <1>9, <2>1, <1>t DEF P!Register
    <3> QED
      BY <2>1, <3>1, <3>2, <1>t
  <2>2. CASE domain[P!D(f)] # "free"
    BY <1>9, <2>2, <1>t, FailsUnpaid DEF P!Register
  <2> QED
    BY <2>1, <2>2
<1>10. ASSUME NEW f \in Awaits, P!Poll(f) PROVE P!FailedIsNotOurs'
  BY <1>10, <1>t, <1>u, <1>n, FailsUnpaid, FailuresAreCounted DEF P!Poll
<1>11. ASSUME NEW f \in Awaits, P!Adopt(f) PROVE P!FailedIsNotOurs'
  BY <1>11, <1>t, <1>u, <1>n, FailsUnpaid, FailuresAreCounted DEF P!Adopt
<1>12. ASSUME NEW f \in Awaits, P!SavePurchased(f) PROVE P!FailedIsNotOurs'
  BY <1>12, <1>t DEF P!SavePurchased, P!Saves
<1>13. ASSUME NEW f \in Awaits, P!Link(f) PROVE P!FailedIsNotOurs'
  BY <1>13, <1>t DEF P!Link
<1>14. ASSUME NEW f \in Awaits, P!Others(f) PROVE P!FailedIsNotOurs'
  BY <1>14, <1>t DEF P!Others, P!OtherTeams
<1>15. ASSUME NEW f \in Awaits, P!DeleteAccount(f) PROVE P!FailedIsNotOurs'
  BY <1>15, <1>t DEF P!DeleteAccount
<1>16. ASSUME NEW d \in DomainNames, P!Registered(d) PROVE P!FailedIsNotOurs'
  BY <1>16, <1>t DEF P!Registered
<1>17. ASSUME NEW d \in DomainNames, P!Taken(d) PROVE P!FailedIsNotOurs'
  BY <1>17, <1>t DEF P!Taken
<1>18. CASE P!Crash
  BY <1>18, <1>t DEF P!Crash
<1> QED
  BY <1>1, <1>2, <1>3, <1>4, <1>5, <1>6, <1>7, <1>8, <1>9, <1>10, <1>11, <1>12,
     <1>13, <1>14, <1>15, <1>16, <1>17, <1>18 DEF P!Next, P!Starts, P!Step

\* Whatever moves, the invariant stays.
LEMMA PurchasesInvPreserved ==
    ASSUME PurchasesInv, [Next]_<<part, dVars, nVars, cVars, pVars>> PROVE PurchasesInv'
<1>1. CASE P!Next
  <2>1. P!Never({"overlap"})' => P!Never({"overlap"})
    BY <1>1, PurchasesCount DEF PurchasesInv, P!TypeOK, P!Kinds
  <2>2. P!TypeOK' /\ PaidOnce' /\ P!FailedIsNotOurs'
    BY <1>1, PurchaseTypesPreserved, PaidOncePreserved, FailedIsNotOursPreserved DEF PurchasesInv
  <2>3. ASSUME P!Never({"overlap"})' PROVE Turns' /\ LinksHold'
    BY <1>1, <2>1, <2>3, TurnsPreserved, LinksHoldPreserved DEF PurchasesInv, Turns
  <2> QED
    BY <2>2, <2>3 DEF PurchasesInv
<1>2. CASE UNCHANGED pVars
  <2>1. UNCHANGED <<status, told, domain, bought>> /\ UNCHANGED <<links, accounts, flow, pUsed>>
    BY <1>2 DEF pVars
  <2> QED
    BY <2>1 DEF PurchasesInv, P!TypeOK, PaidOnce, Turns, OneAwait, LinksHold, P!FailedIsNotOurs, P!Never
<1> QED
  BY <1>1, <1>2 DEF Next

\* Nobody has asked for a domain in the beginning, and links are kept.
LEMMA PurchasesInvInitially == Init => PurchasesInv
<1> SUFFICES ASSUME P!Init PROVE PurchasesInv
  BY DEF Init
<1> USE Purchasable, NoFlowTyped DEF P!PurchaseAssumption
<1>1. P!TypeOK
  BY DEF P!Init, P!TypeOK, PurchaseFlow, P!Statuses, P!Settled
<1>2. PaidOnce
  BY DEF P!Init, PaidOnce
<1>3. Turns /\ LinksHold
  BY DEF P!Init, Turns, OneAwait, LinksHold, Buying
<1> QED
  BY <1>1, <1>2, <1>3 DEF P!Init, PurchasesInv, P!FailedIsNotOurs

\* Whoever writes a request while flows take turns writes one that is not settled.
LEMMA SettledStays ==
    ASSUME PurchasesInv, [Next]_<<part, dVars, nVars, cVars, pVars>>, P!Never({"overlap"}),
           NEW r \in DomainRequests, status[r] \in P!Settled
    PROVE  status'[r] = status[r] /\ told'[r] = told[r]
<1> USE DEF P!TypeOK, P!Settled, P!requests
<1>1. P!TypeOK /\ Turns
  BY DEF PurchasesInv
<1>2. ASSUME NEW f \in Awaits, flow[f].pc \in Buying PROVE status[flow[f].req] \notin P!Settled
  BY <1>1, <1>2 DEF Turns, Buying
<1>3. ASSUME NEW f \in Awaits, P!Step(f) PROVE status'[r] = status[r] /\ told'[r] = told[r]
  <2>1. UNCHANGED <<status, told>> \/ (flow[f].pc \in Buying /\ \E s \in P!Statuses : P!Saves(flow[f].req, s))
    BY <1>3 DEF P!Step, P!Deny, P!Approve, P!Check, P!Register, P!Poll, P!Adopt, P!SavePurchased, P!Fails, P!Link,
                P!Others, P!DeleteAccount, P!At, Buying, P!Statuses
  <2>2. CASE UNCHANGED <<status, told>>
    BY <2>2
  <2>3. ASSUME flow[f].pc \in Buying, NEW s \in P!Statuses, P!Saves(flow[f].req, s)
        PROVE  status'[r] = status[r] /\ told'[r] = told[r]
    BY <1>1, <1>2, <2>3 DEF P!Saves
  <2> QED
    BY <2>1, <2>2, <2>3
<1>4. ASSUME NEW q \in DomainRequests, P!CreateRequest(q) PROVE status'[r] = status[r] /\ told'[r] = told[r]
  BY <1>1, <1>4 DEF P!CreateRequest
<1>5. ASSUME NEW f \in Awaits, P!Starts(f) PROVE status'[r] = status[r] /\ told'[r] = told[r]
  BY <1>1, <1>5 DEF P!Starts, P!StartBuy, P!StartDecide, P!StartRemove, P!StartSave, P!Saves
<1>6. CASE \E d \in DomainNames : P!Registered(d) \/ P!Taken(d)
  BY <1>6 DEF P!Registered, P!Taken
<1>7. CASE P!Crash \/ UNCHANGED pVars
  BY <1>7 DEF P!Crash, pVars
<1> QED
  BY <1>3, <1>4, <1>5, <1>6, <1>7 DEF Next, P!Next

\* For any requests, domains, teams and accounts at once, and a registrar that is slow,
\* refuses or is not heard: who is told a domain is theirs has it, and it was paid for
\* once; who is told it is not has not paid for it until flows overlap, the registrar is
\* slow or its answer is lost; an outcome stays and a link leads to an account until flows
\* overlap (domainsController.ts performPurchase, decideRequest; registrarController.ts).
THEOREM PurchasesStayTrue == Spec => PurchasesAreTrue
<1>1. PurchasesInv => P!TypeOK /\ P!PurchasedIsOurs
  <2> SUFFICES ASSUME PurchasesInv PROVE P!PurchasedIsOurs
    BY DEF PurchasesInv
  <2> QED
    BY DEF PurchasesInv, PaidOnce, P!PurchasedIsOurs
<1>2. PurchasesInv => P!FailedIsNotOurs /\ P!LinkedAccountExists
  BY DEF PurchasesInv, LinksHold, P!LinkedAccountExists
<1>3. PurchasesInv /\ [Next]_<<part, dVars, nVars, cVars, pVars>>
      => [P!Never({"overlap"}) =>
            \A r \in DomainRequests : status[r] \in P!Settled => status'[r] = status[r] /\ told'[r] = told[r]]_P!vars
  BY SettledStays
<1> QED
  BY <1>1, <1>2, <1>3, PurchasesInvInitially, PurchasesInvPreserved, PTL
     DEF Spec, PurchasesAreTrue, P!OutcomeIsFinal

-----------------------------------------------------------------------------
(* The way through the pages: tables that are written in parts.            *)

\* Every entry of a joined table is one of a part's.
LEMMA JoinedHasParts ==
    ASSUME NEW parts, NEW x \in UNION {DOMAIN t : t \in parts}
    PROVE  /\ \E t \in parts : x \in DOMAIN t /\ N!Joined(parts)[x] = t[x]
           /\ \E t \in parts : x \in DOMAIN t /\ N!R!Joined(parts)[x] = t[x]
<1>1. /\ N!Joined(parts)[x] = (CHOOSE t \in parts : x \in DOMAIN t)[x]
      /\ N!R!Joined(parts)[x] = (CHOOSE t \in parts : x \in DOMAIN t)[x]
  BY DEF N!Joined, N!R!Joined
<1>2. \E t \in parts : x \in DOMAIN t
  OBVIOUS
<1>3. (CHOOSE t \in parts : x \in DOMAIN t) \in parts /\ x \in DOMAIN (CHOOSE t \in parts : x \in DOMAIN t)
  BY <1>2
<1> QED
  BY <1>1, <1>3

\* The mutations are those of the five tables of hooks.
LEMMA MutationsAreJoined ==
    /\ DOMAIN N!Mutations = UNION {DOMAIN t : t \in {N!ProjectHooks, N!ProjectResourceHooks, N!NodeAndTeamHooks,
                                                     N!DomainHooks, N!Follows}}
    /\ \A h \in DOMAIN N!Mutations :
          \E t \in {N!ProjectHooks, N!ProjectResourceHooks, N!NodeAndTeamHooks, N!DomainHooks, N!Follows} :
              h \in DOMAIN t /\ N!Mutations[h] = t[h]
<1> DEFINE parts == {N!ProjectHooks, N!ProjectResourceHooks, N!NodeAndTeamHooks, N!DomainHooks, N!Follows}
<1>1. N!Mutations = N!Joined(parts)
  BY DEF N!Mutations
<1> HIDE DEF parts
<1>2. DOMAIN N!Mutations = UNION {DOMAIN t : t \in parts}
  BY <1>1 DEF N!Joined
<1>3. \A h \in DOMAIN N!Mutations : \E t \in parts : h \in DOMAIN t /\ N!Mutations[h] = t[h]
  BY <1>1, <1>2, JoinedHasParts
<1> QED
  BY <1>2, <1>3 DEF parts

\* The server's routes are those of the sections of the route table.
LEMMA RoutesAreJoined ==
    \A x \in UNION {DOMAIN s : s \in N!R!Sections} : \E s \in N!R!Sections : x \in DOMAIN s /\ N!R!Table[x] = s[x]
BY JoinedHasParts DEF N!R!Table

-----------------------------------------------------------------------------
(* The routes by what they ask of a user: what passes the checks of each.  *)

\* Rights, whether or not they can be granted together.
RightsRecord == [caps : SUBSET N!Caps, admin : BOOLEAN, super : BOOLEAN, owner : BOOLEAN, installed : BOOLEAN]

\* What a check asks.
Meets(r, c) ==
    /\ c.check = "caps" => c.cap \in r.caps
    /\ c.check = "manage" => r.installed /\ (r.admin \/ r.owner)
    /\ c.check = "member" => r.admin \/ r.owner \/ r.caps # {}
    /\ c.check = "admin" => r.admin
    /\ c.check = "super" => r.super
    /\ c.check = "installed" => r.installed
Passes(r, program) == \A i \in DOMAIN program.checks : Meets(r, program.checks[i])
Manages(r) == r.installed /\ (r.admin \/ r.owner)

\* Routes that ask for a session only, and those that ask for one right each.
FreeRoutes ==
    {"GET_ME", "GET_WORKER_NODES", "GET_CONTROL_PLANE_STATUS", "GET_JOIN_INFO", "GET_NODE_METRICS", "GET_NODE_STORAGE",
     "GET_NODE_STORAGE_SERIES", "POST_NODE_STORAGE_SNAPSHOT", "GET_OBSERVABILITY_METRICS", "GET_GITHUB_REPOS",
     "GET_GITHUB_BRANCHES", "POST_LOG_QUERY", "POST_LOG_FACETS", "POST_PUSH_SUBSCRIBE", "POST_PUSH_UNSUBSCRIBE",
     "POST_PUSH_TEST"}
ViewRoutes ==
    {"GET_TEAM_REGISTRAR", "GET_TEAM_DOMAINS", "GET_TEAM_DOMAIN_REQUESTS", "GET_TEAM_DOMAIN_BILLING",
     "GET_TEAM_DNS_RECORDS", "GET_TEAM_DNS_ANALYTICS", "GET_TEAM_PORT_RESERVATIONS", "GET_PROJECT_DOMAINS",
     "GET_PROJECT_INCIDENTS", "GET_PROJECT_PORT_RESERVATIONS", "GET_PROJECT_DEPLOY_AVERAGE",
     "GET_PROJECT_RESOURCE_USAGE", "GET_PROJECT_HEALTH", "GET_PROJECT_INSTANCE", "GET_PROJECT_NOTIFICATION",
     "POST_SET_PROJECT_NOTIFICATION", "POST_TEAM_DOMAIN_SEARCH"}
ConfigureRoutes ==
    {"GET_PROJECT_API_KEYS", "GET_PROJECT_WEBHOOKS", "GET_PROJECT_FILES", "GET_PROJECT_FILE", "POST_UPDATE_PROJECT",
     "POST_UPDATE_ENV_VAR", "POST_SYNC_TO_REPO", "POST_SET_PROJECT_ASSIGNMENT", "POST_CICD_SETUP", "POST_CICD_REMOVE",
     "POST_RESET_DEPLOYMENT_KEY", "POST_CREATE_API_KEY", "POST_REVOKE_API_KEY", "POST_CREATE_PROJECT_WEBHOOK",
     "POST_UPDATE_PROJECT_WEBHOOK", "POST_DELETE_PROJECT_WEBHOOK", "POST_TEST_PROJECT_WEBHOOK"}
DeployRoutes == {"GET_DEPLOY_WEB", "POST_CANCEL_DEPLOY", "POST_TEARDOWN_PROJECT"}
CreateRoutes == {"POST_CREATE_PROJECT", "POST_TEAM_DOMAIN_REQUEST"}
IncidentRoutes == {"POST_CREATE_INCIDENT", "POST_ADD_INCIDENT_UPDATE", "POST_DELETE_INCIDENT"}
AdminRoutes ==
    {"GET_PUBLIC_IP", "GET_TEAMS", "GET_ADMINS", "GET_NODE_CONFIG", "GET_NODE_PORT_RESERVATIONS",
     "POST_SET_PROJECT_QUOTA", "POST_NODE_CONFIG", "POST_NODE_PORT_RESERVATION", "POST_DELETE_NODE_PORT_RESERVATION",
     "POST_PUBLIC_IP_REFRESH"}
SuperRoutes == {"POST_ADD_ADMIN", "POST_REMOVE_ADMIN"}
ManageRoutes ==
    {"POST_SET_TEAM_DEFAULTS", "POST_SET_TEAM_OVERRIDE", "POST_DELETE_TEAM_OVERRIDE", "POST_TEAM_REGISTRAR",
     "POST_TEAM_REGISTRAR_REMOVE", "POST_TEAM_DOMAIN_BUY", "POST_TEAM_DOMAIN_REQUEST_DECIDE", "POST_TEAM_DOMAIN_SYNC",
     "POST_TEAM_DOMAIN_DELETE", "POST_TEAM_DNS_RECORD_CREATE", "POST_TEAM_DNS_RECORD_UPDATE",
     "POST_TEAM_DNS_RECORD_DELETE"}

\* What the routes that the frontend uses ask of a user.
MayAsk(r, x) ==
    \/ x \in FreeRoutes
    \/ x \in ViewRoutes /\ "view" \in r.caps
    \/ x \in ConfigureRoutes /\ "configure" \in r.caps
    \/ x \in DeployRoutes /\ "deploy" \in r.caps
    \/ x \in CreateRoutes /\ "create_project" \in r.caps
    \/ x \in IncidentRoutes /\ "manage_incidents" \in r.caps
    \/ x = "POST_DELETE_PROJECT" /\ "delete" \in r.caps
    \/ x \in AdminRoutes /\ r.admin
    \/ x \in SuperRoutes /\ r.super
    \/ x \in ManageRoutes /\ Manages(r)
    \/ x = "GET_TEAM" /\ (r.admin \/ r.owner \/ r.caps # {})
Demanded ==
    FreeRoutes \cup ViewRoutes \cup ConfigureRoutes \cup DeployRoutes \cup CreateRoutes \cup IncidentRoutes
    \cup AdminRoutes \cup SuperRoutes \cup ManageRoutes \cup {"POST_DELETE_PROJECT", "GET_TEAM"}

\* Whoever passes the checks that a session adds to passes all of a private route.
LEMMA PrivatePasses ==
    ASSUME NEW r \in RightsRecord, NEW S, NEW s \in Seq(S), \A i \in DOMAIN s : Meets(r, s[i])
    PROVE  \A d : Passes(r, N!R!Private(s, d))
<1>1. Meets(r, N!R!Session)
  BY DEF N!R!Session, Meets, RightsRecord
<1> DEFINE checks == S \cup {N!R!Session}
<1>2. <<N!R!Session>> \in Seq(checks) /\ s \in Seq(checks)
  OBVIOUS
<1> HIDE DEF checks
<1> DEFINE t == <<N!R!Session>> \o s
<1>3. \A i \in DOMAIN t : Meets(r, t[i])
  <2> SUFFICES ASSUME NEW i \in DOMAIN t PROVE Meets(r, t[i])
    OBVIOUS
  <2>1. t[i] = IF i = 1 THEN N!R!Session ELSE s[i - 1]
    BY <1>2
  <2>2. i # 1 => i - 1 \in DOMAIN s
    BY <1>2
  <2> QED
    BY <1>1, <2>1, <2>2
<1>4. \A d : N!R!Private(s, d).checks = t
  BY DEF N!R!Private, N!R!Route
<1> HIDE DEF t
<1> QED
  BY <1>3, <1>4 DEF Passes

\* Which checks of routes a user with given rights passes, the App being installed (authz.ts).
LEMMA RightsPass ==
    ASSUME NEW r \in RightsRecord, r.installed
    PROVE  /\ \A x \in {N!R!Own, N!R!ReadLogs, N!R!ReadMetrics, N!R!ReadHost} : Passes(r, x)
           /\ \A d : Passes(r, N!R!Private(<<>>, d))
           /\ "view" \in r.caps => Passes(r, N!R!See) /\ Passes(r, N!R!SeeTeam)
           /\ "configure" \in r.caps =>
                 /\ Passes(r, N!R!Configure) /\ Passes(r, N!R!SeeSecrets)
                 /\ \A d : Passes(r, N!R!Private(<<N!R!Leader, N!R!Project("configure"), N!R!Installed>>, d))
           /\ "deploy" \in r.caps =>
                 /\ Passes(r, N!R!Deploy)
                 /\ \A d : Passes(r, N!R!Private(<<N!R!Leader, N!R!Project("deploy"), N!R!Installed>>, d))
           /\ "create_project" \in r.caps =>
                 \A d : /\ Passes(r, N!R!Private(<<N!R!Leader, N!R!Create>>, d))
                        /\ Passes(r, N!R!Private(<<N!R!Leader, N!R!Team("create_project")>>, d))
           /\ "manage_incidents" \in r.caps => Passes(r, N!R!Incident)
           /\ "delete" \in r.caps => \A d : Passes(r, N!R!Private(<<N!R!Leader, N!R!Project("delete")>>, d))
           /\ r.admin => Passes(r, N!R!Administer)
           /\ r.super => \A d : Passes(r, N!R!Private(<<N!R!Leader, N!R!Super>>, d))
           /\ Manages(r) =>
                 /\ Passes(r, N!R!Managing)
                 /\ \A d : Passes(r, N!R!Private(<<N!R!Leader, N!R!Manage>>, d))
           /\ r.admin \/ r.owner \/ r.caps # {} => \A d : Passes(r, N!R!Private(<<N!R!Leader, N!R!Member>>, d))
<1>1. Meets(r, N!R!Leader) /\ Meets(r, N!R!Installed)
  BY DEF N!R!Leader, N!R!Installed, Meets, RightsRecord
<1>2. \A cap :
        cap \in r.caps => Meets(r, N!R!Team(cap)) /\ Meets(r, N!R!Project(cap))
  BY DEF N!R!Team, N!R!Project, Meets, RightsRecord
<1>3. /\ "create_project" \in r.caps => Meets(r, N!R!Create)
      /\ Manages(r) => Meets(r, N!R!Manage)
      /\ r.admin \/ r.owner \/ r.caps # {} => Meets(r, N!R!Member)
      /\ r.admin => Meets(r, N!R!Admin)
      /\ r.super => Meets(r, N!R!Super)
  BY DEF N!R!Create, N!R!Manage, N!R!Member, N!R!Admin, N!R!Super, Meets, Manages, RightsRecord
<1>4. \A d : Passes(r, N!R!Private(<<>>, d)) /\ Passes(r, N!R!Private(<<N!R!Leader>>, d))
  <2>1. <<>> \in Seq({}) /\ <<N!R!Leader>> \in Seq({N!R!Leader}) /\ \A i \in DOMAIN <<N!R!Leader>> : Meets(r, <<N!R!Leader>>[i])
    BY <1>1
  <2>2. \A i \in DOMAIN <<>> : Meets(r, <<>>[i])
    OBVIOUS
  <2> QED
    BY <2>1, <2>2, PrivatePasses
<1>5. ASSUME NEW c, Meets(r, c) PROVE \A d : Passes(r, N!R!Private(<<N!R!Leader, c>>, d))
  <2>1. <<N!R!Leader, c>> \in Seq({N!R!Leader, c}) /\ \A i \in DOMAIN <<N!R!Leader, c>> : Meets(r, <<N!R!Leader, c>>[i])
    BY <1>1, <1>5
  <2> QED
    BY <2>1, PrivatePasses
<1>6. ASSUME NEW c, Meets(r, c) PROVE \A d : Passes(r, N!R!Private(<<N!R!Leader, c, N!R!Installed>>, d))
  <2> DEFINE s == <<N!R!Leader, c, N!R!Installed>>
  <2>1. s \in Seq({N!R!Leader, c, N!R!Installed}) /\ \A i \in DOMAIN s : Meets(r, s[i])
    BY <1>1, <1>6
  <2> HIDE DEF s
  <2>2. \A d : Passes(r, N!R!Private(s, d))
    BY <2>1, PrivatePasses
  <2> QED
    BY <2>2 DEF s
<1>7. \A cap : cap \in r.caps =>
        \A d : /\ Passes(r, N!R!Private(<<N!R!Leader, N!R!Team(cap)>>, d))
               /\ Passes(r, N!R!Private(<<N!R!Leader, N!R!Project(cap)>>, d))
               /\ Passes(r, N!R!Private(<<N!R!Leader, N!R!Project(cap), N!R!Installed>>, d))
  BY <1>2, <1>5, <1>6
<1>8. /\ \A x \in {N!R!Own, N!R!ReadLogs, N!R!ReadMetrics, N!R!ReadHost} : Passes(r, x)
      /\ \A d : Passes(r, N!R!Private(<<>>, d))
  BY <1>4 DEF N!R!Own, N!R!ReadLogs, N!R!ReadMetrics, N!R!ReadHost
<1>9. "view" \in r.caps => Passes(r, N!R!See) /\ Passes(r, N!R!SeeTeam)
  BY <1>7 DEF N!R!See, N!R!SeeTeam
<1>10. "configure" \in r.caps => Passes(r, N!R!Configure) /\ Passes(r, N!R!SeeSecrets)
  BY <1>7 DEF N!R!Configure, N!R!SeeSecrets
<1>11. "deploy" \in r.caps => Passes(r, N!R!Deploy)
  BY <1>7 DEF N!R!Deploy
<1>12. "manage_incidents" \in r.caps => Passes(r, N!R!Incident)
  BY <1>7 DEF N!R!Incident
<1>13. r.admin => Passes(r, N!R!Administer)
  BY <1>3, <1>5 DEF N!R!Administer
<1>14. Manages(r) => Passes(r, N!R!Managing)
  BY <1>3, <1>5 DEF N!R!Managing
<1> QED
  BY <1>3, <1>5, <1>7, <1>8, <1>9, <1>10, <1>11, <1>12, <1>13, <1>14

\* In every section of the route table: whoever has the right that a route is filed under
\* passes its checks.
LEMMA SectionsPass ==
    ASSUME NEW r \in RightsRecord, r.installed, NEW s \in N!R!Sections, NEW x \in DOMAIN s, MayAsk(r, x)
    PROVE  Passes(r, s[x])
<1> USE RightsPass DEF MayAsk, FreeRoutes, ViewRoutes, ConfigureRoutes, DeployRoutes, CreateRoutes, IncidentRoutes,
                       AdminRoutes, SuperRoutes, ManageRoutes
<1>1. CASE s = N!R!Public
  BY <1>1 DEF N!R!Public
<1>2. CASE s = N!R!ProjectAndTeamReads
  BY <1>2 DEF N!R!ProjectAndTeamReads
<1>3. CASE s = N!R!Observability
  BY <1>3 DEF N!R!Observability
<1>4. CASE s = N!R!FilesAndQuota
  BY <1>4 DEF N!R!FilesAndQuota
<1>5. CASE s = N!R!LogsAndGithub
  BY <1>5 DEF N!R!LogsAndGithub
<1>6. CASE s = N!R!ProjectWrites
  BY <1>6 DEF N!R!ProjectWrites
<1>7. CASE s = N!R!CdTeamsAndAdmins
  BY <1>7 DEF N!R!CdTeamsAndAdmins
<1>8. CASE s = N!R!Push
  BY <1>8 DEF N!R!Push
<1>9. CASE s = N!R!Registrar
  BY <1>9 DEF N!R!Registrar
<1>10. CASE s = N!R!Domains
  BY <1>10 DEF N!R!Domains
<1>11. CASE s = N!R!DnsRecords
  BY <1>11 DEF N!R!DnsRecords
<1>12. CASE s = N!R!NodesAndPorts
  BY <1>12 DEF N!R!NodesAndPorts
<1>13. CASE s = N!R!IncidentRoutes
  BY <1>13 DEF N!R!IncidentRoutes
<1>14. CASE s = N!R!KeysAndWebhooks
  BY <1>14 DEF N!R!KeysAndWebhooks
<1>15. CASE s = N!R!StatusApi
  BY <1>15 DEF N!R!StatusApi
<1>16. CASE s = N!R!ClusterRoutes
  BY <1>16 DEF N!R!ClusterRoutes
<1>17. CASE s = N!R!NodeRoutes
  BY <1>17 DEF N!R!NodeRoutes
<1>18. CASE s = N!R!UpdateRoutes
  BY <1>18 DEF N!R!UpdateRoutes
<1> QED
  BY <1>1, <1>2, <1>3, <1>4, <1>5, <1>6, <1>7, <1>8, <1>9, <1>10, <1>11, <1>12, <1>13, <1>14, <1>15, <1>16, <1>17, <1>18
     DEF N!R!Sections

\* The routes that the frontend uses are in the table.
LEMMA RoutesExist == Demanded \subseteq UNION {DOMAIN s : s \in N!R!Sections}
<1> DEFINE table == UNION {DOMAIN s : s \in N!R!Sections}
<1>1. \A s \in N!R!Sections : DOMAIN s \subseteq table
  OBVIOUS
<1>2. {N!R!ProjectAndTeamReads, N!R!Observability, N!R!FilesAndQuota, N!R!LogsAndGithub, N!R!ProjectWrites,
       N!R!CdTeamsAndAdmins, N!R!Push, N!R!Registrar, N!R!Domains, N!R!DnsRecords, N!R!NodesAndPorts,
       N!R!IncidentRoutes, N!R!KeysAndWebhooks} \subseteq N!R!Sections
  BY DEF N!R!Sections
<1> HIDE DEF table
<1>3. {"GET_ME", "GET_WORKER_NODES", "GET_CONTROL_PLANE_STATUS", "GET_JOIN_INFO", "GET_TEAM", "GET_TEAMS", "GET_ADMINS",
       "GET_PROJECT_DEPLOY_AVERAGE", "GET_PROJECT_INSTANCE"} \subseteq table
  BY <1>1, <1>2 DEF N!R!ProjectAndTeamReads
<1>4. {"GET_OBSERVABILITY_METRICS", "GET_NODE_METRICS", "GET_NODE_STORAGE", "GET_NODE_STORAGE_SERIES",
       "POST_NODE_STORAGE_SNAPSHOT", "GET_PROJECT_RESOURCE_USAGE", "GET_PROJECT_HEALTH"} \subseteq table
  BY <1>1, <1>2 DEF N!R!Observability
<1>5. {"GET_PROJECT_FILES", "GET_PROJECT_FILE", "POST_SET_PROJECT_QUOTA"} \subseteq table
  BY <1>1, <1>2 DEF N!R!FilesAndQuota
<1>6. {"POST_LOG_QUERY", "POST_LOG_FACETS", "GET_GITHUB_REPOS", "GET_GITHUB_BRANCHES", "GET_DEPLOY_WEB"} \subseteq table
  BY <1>1, <1>2 DEF N!R!LogsAndGithub
<1>7. {"POST_CREATE_PROJECT", "POST_UPDATE_PROJECT", "POST_DELETE_PROJECT", "POST_RESET_DEPLOYMENT_KEY",
       "POST_UPDATE_ENV_VAR", "POST_SYNC_TO_REPO", "POST_TEARDOWN_PROJECT", "POST_CANCEL_DEPLOY",
       "POST_SET_PROJECT_ASSIGNMENT"} \subseteq table
  BY <1>1, <1>2 DEF N!R!ProjectWrites
<1>8. {"POST_CICD_SETUP", "POST_CICD_REMOVE", "POST_SET_TEAM_DEFAULTS", "POST_SET_TEAM_OVERRIDE",
       "POST_DELETE_TEAM_OVERRIDE", "POST_ADD_ADMIN", "POST_REMOVE_ADMIN"} \subseteq table
  BY <1>1, <1>2 DEF N!R!CdTeamsAndAdmins
<1>9. {"POST_PUSH_SUBSCRIBE", "POST_PUSH_UNSUBSCRIBE", "POST_PUSH_TEST", "GET_PROJECT_NOTIFICATION",
       "POST_SET_PROJECT_NOTIFICATION"} \subseteq table
  BY <1>1, <1>2 DEF N!R!Push
<1>10. {"GET_TEAM_REGISTRAR", "POST_TEAM_REGISTRAR", "POST_TEAM_REGISTRAR_REMOVE", "GET_TEAM_DOMAINS",
        "GET_TEAM_DOMAIN_REQUESTS", "GET_TEAM_DOMAIN_BILLING", "POST_TEAM_DOMAIN_SEARCH"} \subseteq table
  BY <1>1, <1>2 DEF N!R!Registrar
<1>11. {"POST_TEAM_DOMAIN_BUY", "POST_TEAM_DOMAIN_REQUEST", "POST_TEAM_DOMAIN_REQUEST_DECIDE", "POST_TEAM_DOMAIN_SYNC",
        "POST_TEAM_DOMAIN_DELETE"} \subseteq table
  BY <1>1, <1>2 DEF N!R!Domains
<1>12. {"GET_TEAM_DNS_RECORDS", "GET_TEAM_DNS_ANALYTICS", "POST_TEAM_DNS_RECORD_CREATE", "POST_TEAM_DNS_RECORD_UPDATE",
        "POST_TEAM_DNS_RECORD_DELETE", "GET_PUBLIC_IP", "POST_PUBLIC_IP_REFRESH"} \subseteq table
  BY <1>1, <1>2 DEF N!R!DnsRecords
<1>13. {"GET_NODE_CONFIG", "POST_NODE_CONFIG", "GET_NODE_PORT_RESERVATIONS", "GET_PROJECT_PORT_RESERVATIONS",
        "GET_TEAM_PORT_RESERVATIONS", "POST_NODE_PORT_RESERVATION", "POST_DELETE_NODE_PORT_RESERVATION",
        "GET_PROJECT_DOMAINS"} \subseteq table
  BY <1>1, <1>2 DEF N!R!NodesAndPorts
<1>14. {"GET_PROJECT_INCIDENTS", "POST_CREATE_INCIDENT", "POST_ADD_INCIDENT_UPDATE", "POST_DELETE_INCIDENT"}
       \subseteq table
  BY <1>1, <1>2 DEF N!R!IncidentRoutes
<1>15. {"GET_PROJECT_API_KEYS", "POST_CREATE_API_KEY", "POST_REVOKE_API_KEY", "GET_PROJECT_WEBHOOKS",
        "POST_CREATE_PROJECT_WEBHOOK", "POST_UPDATE_PROJECT_WEBHOOK", "POST_DELETE_PROJECT_WEBHOOK",
        "POST_TEST_PROJECT_WEBHOOK"} \subseteq table
  BY <1>1, <1>2 DEF N!R!KeysAndWebhooks
<1> HIDE DEF table
<1>16. FreeRoutes \subseteq table
  BY <1>3, <1>4, <1>6, <1>9 DEF FreeRoutes
<1>17. ViewRoutes \subseteq table
  BY <1>3, <1>4, <1>9, <1>10, <1>12, <1>13, <1>14 DEF ViewRoutes
<1>18. ConfigureRoutes \subseteq table
  BY <1>5, <1>7, <1>8, <1>15 DEF ConfigureRoutes
<1>19. DeployRoutes \cup CreateRoutes \cup IncidentRoutes \cup {"POST_DELETE_PROJECT", "GET_TEAM"} \subseteq table
  BY <1>3, <1>6, <1>7, <1>11, <1>14 DEF DeployRoutes, CreateRoutes, IncidentRoutes
<1>20. AdminRoutes \cup SuperRoutes \subseteq table
  BY <1>3, <1>5, <1>8, <1>12, <1>13 DEF AdminRoutes, SuperRoutes
<1>21. ManageRoutes \subseteq table
  BY <1>8, <1>10, <1>11, <1>12 DEF ManageRoutes
<1> QED
  BY <1>16, <1>17, <1>18, <1>19, <1>20, <1>21 DEF Demanded, table

\* Whoever has the right that a route is filed under is answered by the server.
LEMMA AskedIsAllowed ==
    ASSUME NEW r \in RightsRecord, r.installed, NEW x, MayAsk(r, x)
    PROVE  N!Allowed(r, x)
<1>1. x \in Demanded
  BY DEF MayAsk, Demanded
<1>2. PICK s \in N!R!Sections : x \in DOMAIN s /\ N!R!Table[x] = s[x]
  BY <1>1, RoutesExist, RoutesAreJoined
<1>3. Passes(r, N!R!Table[x])
  BY <1>2, SectionsPass
<1> QED
  BY <1>3 DEF Passes, Meets, N!Allowed

-----------------------------------------------------------------------------
(* The queries and mutations of the frontend, by what they ask of a user.  *)

\* What the queries ask for, by the right to it.
FreeQueries ==
    {"me", "workerNodes", "controlPlaneStatus", "nodeMetrics", "nodeStorage", "nodeStorageSeries", "joinInfo",
     "observabilityMetrics", "githubRepos", "githubBranches", "logs", "logFacets"}
ViewQueries ==
    {"teamRegistrar", "teamDomains", "teamDomainRequests", "teamDomainBilling", "teamDnsRecords", "teamDnsAnalytics",
     "teamPortReservations", "projectDomains", "projectIncidents", "projectPortReservations", "projectDeployAverage",
     "projectResourceUsage", "projectHealth", "projectInstance", "pushPreference"}
ConfigureQueries == {"projectApiKeys", "projectWebhooks", "projectFiles", "projectFile"}
AdminQueries == {"publicIp", "teams", "admins", "nodeConfig", "nodePortReservations"}

\* The route of every query hook is filed under the right its query is filed under.
LEMMA QueriesAsk ==
    /\ \A k \in FreeQueries : N!queryKeys[k].route \in FreeRoutes
    /\ \A k \in ViewQueries : N!queryKeys[k].route \in ViewRoutes
    /\ \A k \in ConfigureQueries : N!queryKeys[k].route \in ConfigureRoutes
    /\ \A k \in AdminQueries : N!queryKeys[k].route \in AdminRoutes
    /\ \A k \in {"projects", "projectStatuses"} : N!queryKeys[k].route = "GET_PROJECTS"
    /\ N!queryKeys["team"].route = "GET_TEAM"
<1>1. \A route, reads : /\ N!Query(route, reads).route = route /\ N!Polled(route, reads).route = route
                        /\ N!Live(route, reads).route = route /\ N!Sliding(route, reads).route = route
  BY DEF N!Query, N!Polled, N!Live, N!Sliding
<1>2. \A k \in FreeQueries : N!queryKeys[k].route \in FreeRoutes
  BY <1>1 DEF FreeQueries, FreeRoutes, N!queryKeys, N!useMe, N!workerNodes, N!controlPlaneStatus, N!useNodeMetrics,
     N!useNodeStorage, N!useNodeStorageSeries, N!useJoinInfo, N!useObservabilityMetrics, N!useGithubRepos,
     N!useGithubBranches, N!entriesQuery, N!facetsQuery
<1>3. \A k \in ViewQueries : N!queryKeys[k].route \in ViewRoutes
  BY <1>1 DEF ViewQueries, ViewRoutes, N!queryKeys, N!useTeamRegistrar, N!useTeamDomains, N!useTeamDomainRequests,
     N!useTeamDomainBilling, N!useTeamDnsRecords, N!useTeamDnsAnalytics, N!useTeamPortReservations,
     N!useProjectDomains, N!useProjectIncidents, N!useProjectPortReservations, N!useProjectDeployAverage,
     N!useProjectResourceUsage, N!useProjectHealth, N!useLiveProjectInstance, N!usePushPreference
<1>4. \A k \in ConfigureQueries : N!queryKeys[k].route \in ConfigureRoutes
  BY <1>1 DEF ConfigureQueries, ConfigureRoutes, N!queryKeys, N!useProjectApiKeys, N!useProjectWebhooks,
     N!useProjectFiles, N!useProjectFile
<1>5. \A k \in AdminQueries : N!queryKeys[k].route \in AdminRoutes
  BY <1>1 DEF AdminQueries, AdminRoutes, N!queryKeys, N!usePublicIp, N!useTeams, N!useAdmins, N!useNodeConfig,
     N!useNodePortReservations
<1>6. \A k \in {"projects", "projectStatuses"} : N!queryKeys[k].route = "GET_PROJECTS"
  BY <1>1 DEF N!queryKeys, N!useProjects, N!useProjectStatuses
<1>7. N!queryKeys["team"].route = "GET_TEAM"
  BY <1>1 DEF N!queryKeys, N!useTeam
<1> QED
  BY <1>2, <1>3, <1>4, <1>5, <1>6, <1>7

\* What the mutations ask for, by the right to it.
FreeHooks ==
    {"useEnablePush", "useDisablePush", "useSendTestNotification", "useSnapshotNodeStorage"}
FollowUps == {"usePatchProjectCache", "refreshProjects", "refreshMe", "refetchRecords", "refetchDomains"}
ViewHooks == {"useSetProjectNotification", "useSetAnyProjectNotification", "useTeamDomainSearch"}
ConfigureHooks ==
    {"useUpdateProject", "useUpdateSecrets", "useSyncProjectToRepo", "useSetProjectAssignment", "useSetupCicd",
     "useRemoveCicd", "useResetDeploymentKey", "saveChanges", "useCreateApiKey", "useRevokeApiKey", "useCreateWebhook",
     "useUpdateWebhook", "useDeleteWebhook", "useTestWebhook", "toggleEnabled"}
DeployHooks == {"useDeployWeb", "useCancelDeploy", "useTeardownProject"}
CreateHooks == {"useCreateProject", "useRequestTeamDomain"}
IncidentHooks == {"useCreateIncident", "useAddIncidentUpdate", "useDeleteIncident"}
AdminHooks ==
    {"useSetProjectQuota", "useSaveNodeConfig", "useCreateNodePortReservation", "useDeleteNodePortReservation",
     "usePublicIpRefresh"}
SuperHooks == {"useAddAdmin", "useRemoveAdmin"}
ManageHooks ==
    {"useSetTeamDefaults", "useSetTeamOverride", "useDeleteTeamOverride", "useSaveTeamRegistrar",
     "useRemoveTeamRegistrar", "useBuyTeamDomain", "useDecideTeamDomainRequest", "useTeamCloudflareSync",
     "useCreateDnsRecord", "useUpdateDnsRecord", "useDeleteDnsRecord", "useDeleteDomain"}

\* The right to what a mutation asks for.
MayRun(r, h) ==
    \/ h \in FreeHooks \cup FollowUps
    \/ h \in ViewHooks /\ "view" \in r.caps
    \/ h \in ConfigureHooks /\ "configure" \in r.caps
    \/ h \in DeployHooks /\ "deploy" \in r.caps
    \/ h \in CreateHooks /\ "create_project" \in r.caps
    \/ h \in IncidentHooks /\ "manage_incidents" \in r.caps
    \/ h = "useDeleteProject" /\ "delete" \in r.caps
    \/ h \in AdminHooks /\ r.admin
    \/ h \in SuperHooks /\ r.super
    \/ h \in ManageHooks /\ Manages(r)

\* The mutations named here are those of the table.
LEMMA HooksExist ==
    FreeHooks \cup FollowUps \cup ViewHooks \cup ConfigureHooks \cup DeployHooks \cup CreateHooks \cup IncidentHooks
    \cup {"useDeleteProject"} \cup AdminHooks \cup SuperHooks \cup ManageHooks \subseteq DOMAIN N!Mutations
<1> DEFINE table == DOMAIN N!Mutations
<1>1. /\ DOMAIN N!ProjectHooks \subseteq table /\ DOMAIN N!ProjectResourceHooks \subseteq table
      /\ DOMAIN N!NodeAndTeamHooks \subseteq table /\ DOMAIN N!DomainHooks \subseteq table /\ DOMAIN N!Follows \subseteq table
  BY MutationsAreJoined
<1> HIDE DEF table
<1>2. {"useCreateProject", "useUpdateProject", "useUpdateSecrets", "useSyncProjectToRepo", "useDeleteProject",
       "useSetProjectQuota", "useSetProjectAssignment", "useDeployWeb", "useCancelDeploy", "useTeardownProject",
       "useSetupCicd", "useRemoveCicd", "useResetDeploymentKey", "saveChanges"} \subseteq table
  BY <1>1 DEF N!ProjectHooks
<1>3. {"useCreateApiKey", "useRevokeApiKey", "useCreateWebhook", "useUpdateWebhook", "useDeleteWebhook",
       "useTestWebhook", "toggleEnabled", "useSetProjectNotification", "useSetAnyProjectNotification", "useEnablePush",
       "useDisablePush", "useSendTestNotification"} \cup IncidentHooks \subseteq table
  BY <1>1 DEF N!ProjectResourceHooks, IncidentHooks
<1>4. {"useSnapshotNodeStorage", "useSaveNodeConfig", "useCreateNodePortReservation", "useDeleteNodePortReservation",
       "useAddAdmin", "useRemoveAdmin", "useSetTeamDefaults", "useSetTeamOverride", "useDeleteTeamOverride"}
      \subseteq table
  BY <1>1 DEF N!NodeAndTeamHooks
<1>5. {"useSaveTeamRegistrar", "useRemoveTeamRegistrar", "useTeamDomainSearch", "useBuyTeamDomain",
       "useRequestTeamDomain", "useDecideTeamDomainRequest", "useTeamCloudflareSync", "usePublicIpRefresh",
       "useCreateDnsRecord", "useUpdateDnsRecord", "useDeleteDnsRecord", "useDeleteDomain"} \subseteq table
  BY <1>1 DEF N!DomainHooks
<1>6. FollowUps \subseteq table
  BY <1>1 DEF N!Follows, FollowUps
<1>7. FreeHooks \cup ViewHooks \cup ConfigureHooks \subseteq table
  BY <1>2, <1>3, <1>4, <1>5 DEF FreeHooks, ViewHooks, ConfigureHooks
<1>8. DeployHooks \cup CreateHooks \cup {"useDeleteProject"} \cup AdminHooks \cup SuperHooks \subseteq table
  BY <1>2, <1>4, <1>5 DEF DeployHooks, CreateHooks, AdminHooks, SuperHooks
<1>9. ManageHooks \subseteq table
  BY <1>4, <1>5 DEF ManageHooks
<1> QED
  BY <1>3, <1>6, <1>7, <1>8, <1>9 DEF table

\* What a hook does to the cache leaves its route as it is.
LEMMA HookRoutes ==
    \A route, writes, invalidates, keys :
        /\ N!Hook(route, writes, invalidates).route = route
        /\ N!Checked(N!Hook(route, writes, invalidates)).route = route
        /\ N!Patching(keys, N!Hook(route, writes, invalidates)).route = route
        /\ N!Checked(N!Patching(keys, N!Hook(route, writes, invalidates))).route = route
BY DEF N!Hook, N!Checked, N!Patching

\* Whoever has the right that a mutation is filed under may call its route.
LEMMA HooksAsk ==
    ASSUME NEW r \in RightsRecord, NEW h, MayRun(r, h)
    PROVE  N!Mutations[h].route = "none" \/ MayAsk(r, N!Mutations[h].route)
<1> USE DEF MayRun, FreeHooks, FollowUps, ViewHooks, ConfigureHooks, DeployHooks, CreateHooks, IncidentHooks, AdminHooks,
            SuperHooks, ManageHooks, MayAsk, FreeRoutes, ViewRoutes, ConfigureRoutes, DeployRoutes, CreateRoutes,
            IncidentRoutes, AdminRoutes, SuperRoutes, ManageRoutes, RightsRecord
<1>8. N!toggleEnabled.route = "POST_UPDATE_PROJECT_WEBHOOK" /\ N!saveChanges.route = "POST_UPDATE_PROJECT"
  BY DEF N!toggleEnabled, N!saveChanges, N!useUpdateWebhook, N!useUpdateProject, N!Hook, N!Checked, N!Patching
<1>1. ASSUME h \in DOMAIN N!ProjectHooks
      PROVE  N!ProjectHooks[h].route = "none" \/ MayAsk(r, N!ProjectHooks[h].route)
  BY <1>1, <1>8, HookRoutes DEF N!ProjectHooks, N!useCreateProject, N!useUpdateProject, N!useUpdateSecrets, N!useSyncProjectToRepo,
     N!useDeleteProject, N!useSetProjectQuota, N!useSetProjectAssignment, N!useDeployWeb, N!useCancelDeploy,
     N!useTeardownProject, N!useSetupCicd, N!useRemoveCicd, N!useResetDeploymentKey
<1>2. ASSUME h \in DOMAIN N!ProjectResourceHooks
      PROVE  N!ProjectResourceHooks[h].route = "none" \/ MayAsk(r, N!ProjectResourceHooks[h].route)
  BY <1>2, <1>8, HookRoutes DEF N!ProjectResourceHooks, N!useCreateApiKey, N!useRevokeApiKey, N!useCreateWebhook, N!useUpdateWebhook,
     N!useDeleteWebhook, N!useTestWebhook, N!useCreateIncident, N!useAddIncidentUpdate,
     N!useDeleteIncident, N!useSetProjectNotification, N!useSetAnyProjectNotification, N!useEnablePush,
     N!useDisablePush, N!useSendTestNotification
<1>3. ASSUME h \in DOMAIN N!NodeAndTeamHooks
      PROVE  N!NodeAndTeamHooks[h].route = "none" \/ MayAsk(r, N!NodeAndTeamHooks[h].route)
  BY <1>3, HookRoutes DEF N!NodeAndTeamHooks, N!useSnapshotNodeStorage, N!useSaveNodeConfig, N!useCreateNodePortReservation,
     N!useDeleteNodePortReservation, N!useAddAdmin, N!useRemoveAdmin, N!useSetTeamDefaults, N!useSetTeamOverride,
     N!useDeleteTeamOverride
<1>4. ASSUME h \in DOMAIN N!DomainHooks
      PROVE  N!DomainHooks[h].route = "none" \/ MayAsk(r, N!DomainHooks[h].route)
  BY <1>4, HookRoutes DEF N!DomainHooks, N!useSaveTeamRegistrar, N!useRemoveTeamRegistrar, N!useTeamDomainSearch,
     N!useBuyTeamDomain, N!useRequestTeamDomain, N!useDecideTeamDomainRequest, N!useTeamCloudflareSync,
     N!usePublicIpRefresh, N!useCreateDnsRecord, N!useUpdateDnsRecord, N!useDeleteDnsRecord, N!useDeleteDomain
<1>5. ASSUME h \in DOMAIN N!Follows PROVE N!Follows[h].route = "none"
  BY <1>5, HookRoutes DEF N!Follows, N!Follow, N!usePatchProjectCache, N!refreshProjects, N!refreshMe, N!refetchRecords,
     N!refetchDomains
<1>6. h \in DOMAIN N!Mutations
  BY HooksExist
<1>7. PICK t \in {N!ProjectHooks, N!ProjectResourceHooks, N!NodeAndTeamHooks, N!DomainHooks, N!Follows} :
        h \in DOMAIN t /\ N!Mutations[h] = t[h]
  BY <1>6, MutationsAreJoined
<1> QED
  BY <1>1, <1>2, <1>3, <1>4, <1>5, <1>7

-----------------------------------------------------------------------------
(* Pages, from their queries and handlers.                                 *)

\* What a page asks for is what its user may ask for.
MayQuery(r, k) ==
    \/ k \in FreeQueries \cup {"projects", "projectStatuses"}
    \/ k \in ViewQueries /\ "view" \in r.caps
    \/ k \in ConfigureQueries /\ "configure" \in r.caps
    \/ k \in AdminQueries /\ r.admin
    \/ k = "team" /\ (r.admin \/ r.owner \/ r.caps # {})
\* Queries that are made by those who may, handlers that run, and that run for those they
\* are offered to; a page that is all of that.
Mountable(r, keys) ==
    \A k \in keys : (k \in DOMAIN N!Enabled => N!Satisfies(r, N!Enabled[k])) => MayQuery(r, k)
Run(r, handlers) ==
    \A h \in handlers :
        DOMAIN h = {"steps", "leaves", "asks"} /\ \A i \in DOMAIN h.steps : MayRun(r, h.steps[i])
Offerable(r, handlers) ==
    \A h \in handlers : N!Satisfies(r, h.asks) => \A i \in DOMAIN h.steps : MayRun(r, h.steps[i])
Fine(r, page_) ==
    /\ Mountable(r, page_.mounts) /\ Mountable(r, N!Frames[page_.frame])
    /\ Offerable(r, page_.offers)

\* A page that asks only for what its user has the right to is refused nothing.
LEMMA FineIsAllowed ==
    ASSUME NEW r \in RightsRecord, r.installed, NEW p, Fine(r, N!Pages[p])
    PROVE  \A route \in N!Requests(r, p) \ {"none", "GET_PROJECTS"} : N!Allowed(r, route)
<1>1. ASSUME NEW k, MayQuery(r, k)
      PROVE  N!queryKeys[k].route = "GET_PROJECTS" \/ N!Allowed(r, N!queryKeys[k].route)
  <2>1. N!queryKeys[k].route = "GET_PROJECTS" \/ MayAsk(r, N!queryKeys[k].route)
    BY <1>1, QueriesAsk DEF MayQuery, MayAsk, RightsRecord
  <2> QED
    BY <2>1, AskedIsAllowed
<1>2. ASSUME NEW h, MayRun(r, h)
      PROVE  N!Mutations[h].route = "none" \/ N!Allowed(r, N!Mutations[h].route)
  BY <1>2, HooksAsk, AskedIsAllowed
<1>3. \A k \in N!Mounted(p) : (k \in DOMAIN N!Enabled => N!Satisfies(r, N!Enabled[k])) => MayQuery(r, k)
  BY DEF N!Mounted, Fine, Mountable, MayQuery, FreeQueries
<1>4. ASSUME NEW route \in N!Requests(r, p), route \notin {"none", "GET_PROJECTS"}
      PROVE  N!Allowed(r, route)
  <2>1. CASE \E k \in N!Mounted(p) : (k \in DOMAIN N!Enabled => N!Satisfies(r, N!Enabled[k]))
                                     /\ route = N!queryKeys[k].route
    BY <1>1, <1>3, <1>4, <2>1
  <2>2. CASE \E o \in N!Pages[p].offers : N!Satisfies(r, o.asks) /\ \E i \in DOMAIN o.steps : route = N!Mutations[o.steps[i]].route
    BY <1>2, <1>4, <2>2 DEF Fine, Offerable
  <2> QED
    BY <1>4, <2>1, <2>2 DEF N!Requests
<1> QED
  BY <1>4

\* Handlers run when each of their mutations may: made one per hook, from a list of
\* steps, or put together.
LEMMA HandlersRun ==
    ASSUME NEW r
    PROVE  /\ \A hooks : (\A h \in hooks : MayRun(r, h)) => Run(r, N!Each(hooks))
           /\ \A steps, to : (\A i \in DOMAIN steps : MayRun(r, steps[i])) =>
                 Run(r, {N!Handler(steps)}) /\ Run(r, {N!Leaving(steps, to)})
           /\ \A one, other : Run(r, one) /\ Run(r, other) => Run(r, one \cup other)
<1>1. \A steps : DOMAIN N!Handler(steps) = {"steps", "leaves", "asks"} /\ N!Handler(steps).steps = steps
  BY DEF N!Handler
<1>2. \A steps, to : DOMAIN N!Leaving(steps, to) = {"steps", "leaves", "asks"} /\ N!Leaving(steps, to).steps = steps
  BY DEF N!Handler, N!Leaving
<1>3. \A hooks : (\A h \in hooks : MayRun(r, h)) => Run(r, N!Each(hooks))
  <2> SUFFICES ASSUME NEW hooks, \A h \in hooks : MayRun(r, h), NEW o \in N!Each(hooks)
               PROVE  DOMAIN o = {"steps", "leaves", "asks"} /\ \A i \in DOMAIN o.steps : MayRun(r, o.steps[i])
    BY DEF Run
  <2>1. PICK h \in hooks : o = N!Handler(<<h>>)
    BY DEF N!Each
  <2> QED
    BY <1>1, <2>1
<1> QED
  BY <1>1, <1>2, <1>3 DEF Run

\* Handlers that run may be offered to anybody; those offered to whoever has a right need
\* only run for them.
LEMMA HandlersAreOfferable ==
    ASSUME NEW r
    PROVE  /\ Offerable(r, {})
           /\ \A handlers : Run(r, handlers) => Offerable(r, handlers)
           /\ \A asks, handlers : Run(r, handlers) => Run(r, N!Only(asks, handlers))
           /\ \A asks, handlers :
                 /\ \A h \in handlers : DOMAIN h = {"steps", "leaves", "asks"}
                 /\ N!Satisfies(r, asks) => Run(r, handlers)
                 => Offerable(r, N!Only(asks, handlers))
           /\ \A one, other : Offerable(r, one) /\ Offerable(r, other) => Offerable(r, one \cup other)
<1>1. ASSUME NEW asks, NEW h, DOMAIN h = {"steps", "leaves", "asks"}
      PROVE  LET o == [h EXCEPT !.asks = asks] IN
             DOMAIN o = {"steps", "leaves", "asks"} /\ o.steps = h.steps /\ o.asks = asks
  BY <1>1
<1>2. \A asks, handlers : Run(r, handlers) => Run(r, N!Only(asks, handlers))
  BY <1>1 DEF Run, N!Only
<1>3. ASSUME NEW asks, NEW handlers, \A h \in handlers : DOMAIN h = {"steps", "leaves", "asks"},
             N!Satisfies(r, asks) => Run(r, handlers)
      PROVE  Offerable(r, N!Only(asks, handlers))
  <2> SUFFICES ASSUME NEW o \in N!Only(asks, handlers), N!Satisfies(r, o.asks), NEW i \in DOMAIN o.steps
               PROVE  MayRun(r, o.steps[i])
    BY DEF Offerable
  <2>1. PICK h \in handlers : o = [h EXCEPT !.asks = asks]
    BY DEF N!Only
  <2>2. o.steps = h.steps /\ o.asks = asks
    BY <1>1, <1>3, <2>1
  <2> QED
    BY <1>3, <2>1, <2>2 DEF Run
<1> QED
  BY <1>2, <1>3 DEF Run, Offerable

\* A page is fine when its queries, its frame and its handlers are.
LEMMA PageIsFine ==
    ASSUME NEW r, NEW frame, NEW mounts, NEW seeds, NEW offers,
           Mountable(r, mounts), Mountable(r, N!Frames[frame]), Offerable(r, offers)
    PROVE  Fine(r, N!Page(frame, mounts, seeds, offers))
BY DEF N!Page, Fine

\* The frames ask for nothing, but for the configuration's, which asks to see the project.
LEMMA FramesAreMountable ==
    ASSUME NEW r
    PROVE  /\ Mountable(r, N!Frames["none"]) /\ Mountable(r, N!Frames["root"]) /\ Mountable(r, N!Frames["node"])
           /\ "view" \in r.caps => Mountable(r, N!Frames["config"])
<1>1. /\ N!Frames["none"] = {} /\ N!Frames["root"] = {"projects", "projectStatuses", "workerNodes", "controlPlaneStatus"}
      /\ N!Frames["node"] = {"workerNodes", "controlPlaneStatus"}
      /\ N!Frames["config"] = {"projects", "projectPortReservations", "pushPreference"}
  BY DEF N!Frames, N!ProjectStatusChip, N!cluster, N!ProjectConfigLayout, N!ProjectHeader, N!NodeDetailLayout
<1> QED
  BY <1>1 DEF Mountable, MayQuery, FreeQueries, ViewQueries

\* Projects are created by those who may (the modal of the layout).
LEMMA LayoutIsOfferable == ASSUME NEW r \in RightsRecord PROVE Offerable(r, N!Layout)
<1> DEFINE steps == <<"useCreateProject", "refreshMe">>
           create == {N!Leaving(steps, "ProjectPage")}
<1>1. \A h \in create : DOMAIN h = {"steps", "leaves", "asks"}
  BY DEF N!Leaving, N!Handler
<1>2. ASSUME "create_project" \in r.caps PROVE Run(r, create)
  <2>1. \A i \in DOMAIN steps : MayRun(r, steps[i])
    BY <1>2 DEF MayRun, CreateHooks, FollowUps
  <2> HIDE DEF steps
  <2> QED
    BY <2>1, HandlersRun
<1>3. N!Satisfies(r, "create_project") => "create_project" \in r.caps
  BY DEF N!Satisfies
<1> HIDE DEF create
<1>4. Offerable(r, N!Only("create_project", create))
  BY <1>1, <1>2, <1>3, HandlersAreOfferable
<1> QED
  BY <1>4 DEF N!Layout, create

\* Whoever sees a project may set its notifications.
LEMMA BellRuns == ASSUME NEW r, "view" \in r.caps PROVE Run(r, N!NotificationBell)
<1>1. \A h \in {"useSetProjectNotification"} : MayRun(r, h)
  BY DEF MayRun, ViewHooks
<1> QED
  BY <1>1, HandlersRun DEF N!NotificationBell

-----------------------------------------------------------------------------
(* The pages, by what the sidebar asks before it shows the way to them.    *)

\* The pages of whoever may see.
LEMMA SeenPagesAreFine ==
    ASSUME NEW r \in RightsRecord, "view" \in r.caps
    PROVE  \A p \in {"TeamHomePage", "EmptyTeamPage", "SettingsPage", "ProjectPage", "MonitoringStatusPage",
                     "MonitoringIncidentsPage"} : Fine(r, N!Pages[p])
<1> USE FramesAreMountable
<1>1. Fine(r, N!TeamHomePage) /\ Fine(r, N!EmptyTeamPage)
  <2>1. Mountable(r, {})
    BY DEF Mountable
  <2> QED
    BY <2>1, LayoutIsOfferable, PageIsFine DEF N!TeamHomePage, N!EmptyTeamPage
<1>2. Fine(r, N!SettingsPage)
  <2>1. Mountable(r, {"pushPreference"})
    BY DEF Mountable, MayQuery, ViewQueries
  <2> DEFINE hooks == {"useEnablePush", "useDisablePush", "useSetAnyProjectNotification", "useSendTestNotification"}
  <2>2. \A h \in hooks : MayRun(r, h)
    BY DEF MayRun, FreeHooks, ViewHooks
  <2> HIDE DEF hooks
  <2>3. Offerable(r, N!Each(hooks) \cup N!Layout)
    BY <2>2, LayoutIsOfferable, HandlersRun, HandlersAreOfferable
  <2> QED
    BY <2>1, <2>3, PageIsFine DEF N!SettingsPage, hooks
<1>3. Offerable(r, N!NotificationBell)
  BY BellRuns, HandlersAreOfferable
<1>4. Fine(r, N!ProjectPage)
  <2>1. Mountable(r, {"projects"} \cup N!cluster \cup N!ProjectHeader)
    BY DEF Mountable, MayQuery, FreeQueries, ViewQueries, N!cluster, N!ProjectHeader
  <2> QED
    BY <1>3, <2>1, PageIsFine DEF N!ProjectPage
<1>5. Fine(r, N!MonitoringStatusPage)
  <2>1. Mountable(r, {"projects", "projectHealth"} \cup N!ProjectHeader)
    BY DEF Mountable, MayQuery, FreeQueries, ViewQueries, N!cluster, N!ProjectHeader
  <2> QED
    BY <1>3, <2>1, PageIsFine DEF N!MonitoringStatusPage
<1>6. Fine(r, N!IncidentSection)
  <2>1. Mountable(r, {"projects", "projectIncidents"} \cup N!ProjectHeader)
    BY DEF Mountable, MayQuery, FreeQueries, ViewQueries, N!cluster, N!ProjectHeader
  <2> DEFINE hooks == {"useCreateIncident", "useAddIncidentUpdate", "useDeleteIncident"}
  <2>2. "manage_incidents" \in r.caps => \A h \in hooks : MayRun(r, h)
    BY DEF MayRun, IncidentHooks
  <2>3. N!Satisfies(r, "manage_incidents") => "manage_incidents" \in r.caps
    BY DEF N!Satisfies
  <2> HIDE DEF hooks
  <2>4. N!Satisfies(r, "manage_incidents") => Run(r, N!Each(hooks))
    BY <2>2, <2>3, HandlersRun
  <2>5. \A h \in N!Each(hooks) : DOMAIN h = {"steps", "leaves", "asks"}
    BY DEF N!Each, N!Handler
  <2>6. Offerable(r, N!Only("manage_incidents", N!Each(hooks)) \cup N!NotificationBell)
    BY <1>3, <2>4, <2>5, HandlersAreOfferable
  <2> QED
    BY <2>1, <2>6, PageIsFine DEF N!IncidentSection, hooks
<1> QED
  BY <1>1, <1>2, <1>4, <1>5, <1>6 DEF N!Pages

\* The pages of whoever may deploy.
LEMMA DeployPagesAreFine ==
    ASSUME NEW r \in RightsRecord, "view" \in r.caps, "deploy" \in r.caps
    PROVE  \A p \in {"ProjectDeployPage", "MonitoringLogsPage", "MonitoringMetricsPage"} : Fine(r, N!Pages[p])
<1> USE FramesAreMountable
<1>1. Offerable(r, N!NotificationBell)
  BY BellRuns, HandlersAreOfferable
<1>2. Fine(r, N!ProjectDeployPage)
  <2>1. Mountable(r, {"projects", "projectDeployAverage", "projectInstance"} \cup N!cluster \cup N!ProjectHeader)
    BY DEF Mountable, MayQuery, FreeQueries, ViewQueries, N!cluster, N!ProjectHeader
  <2> DEFINE deploy == <<"useDeployWeb", "usePatchProjectCache", "refreshProjects">>
             teardown == <<"useTeardownProject", "usePatchProjectCache">>
             cancel == <<"useCancelDeploy">>
  <2>2. /\ \A i \in DOMAIN deploy : MayRun(r, deploy[i])
        /\ \A i \in DOMAIN teardown : MayRun(r, teardown[i])
        /\ \A i \in DOMAIN cancel : MayRun(r, cancel[i])
    BY DEF MayRun, DeployHooks, FollowUps
  <2> HIDE DEF deploy, teardown, cancel
  <2>3. Run(r, {N!Handler(deploy)}) /\ Run(r, {N!Handler(teardown)}) /\ Run(r, {N!Handler(cancel)})
    BY <2>2, HandlersRun
  <2>4. Run(r, {N!Handler(deploy), N!Handler(teardown), N!Handler(cancel)})
    BY <2>3 DEF Run
  <2>5. Offerable(r, {N!Handler(deploy), N!Handler(teardown), N!Handler(cancel)} \cup N!NotificationBell)
    BY <1>1, <2>4, HandlersAreOfferable
  <2> QED
    BY <2>1, <2>5, PageIsFine DEF N!ProjectDeployPage, deploy, teardown, cancel
<1>3. Fine(r, N!MonitoringLogsPage)
  <2>1. Mountable(r, {"projects"} \cup N!LogViewer \cup N!cluster \cup N!ProjectHeader)
    BY DEF Mountable, MayQuery, FreeQueries, ViewQueries, N!cluster, N!ProjectHeader, N!LogViewer
  <2> QED
    BY <1>1, <2>1, PageIsFine DEF N!MonitoringLogsPage
<1>4. Fine(r, N!MonitoringMetricsPage)
  <2>1. Mountable(r, {"projects", "observabilityMetrics", "projectResourceUsage"} \cup N!ProjectHeader)
    BY DEF Mountable, MayQuery, FreeQueries, ViewQueries, N!ProjectHeader
  <2> QED
    BY <1>1, <2>1, PageIsFine DEF N!MonitoringMetricsPage
<1> QED
  BY <1>2, <1>3, <1>4 DEF N!Pages

\* The layout of the configuration adds Save and the bell, for whoever may configure.
LEMMA ConfigIsFine ==
    ASSUME NEW r \in RightsRecord, "view" \in r.caps, "configure" \in r.caps,
           NEW mounts, Mountable(r, mounts), NEW offers, Offerable(r, offers)
    PROVE  Fine(r, N!Config(mounts, offers))
<1> DEFINE save == <<"saveChanges", "useUpdateSecrets">>
<1>1. \A i \in DOMAIN save : MayRun(r, save[i])
  BY DEF MayRun, ConfigureHooks
<1> HIDE DEF save
<1>2. Offerable(r, {N!Handler(save)}) /\ Offerable(r, N!NotificationBell)
  BY <1>1, BellRuns, HandlersRun, HandlersAreOfferable
<1>3. Offerable(r, offers \cup {N!Handler(save)} \cup N!NotificationBell)
  BY <1>2, HandlersAreOfferable
<1> QED
  BY <1>3, FramesAreMountable, PageIsFine DEF N!Config, save

\* The pages of whoever may configure: deleting the project, and its quota, are offered
\* to fewer.
LEMMA ConfigurePagesAreFine ==
    ASSUME NEW r \in RightsRecord, "view" \in r.caps, "configure" \in r.caps
    PROVE  \A p \in {"ConfigProjectPage", "ConfigRoutingPage", "ConfigSystemPage", "ConfigResourcesPage",
                     "ConfigKeysPage", "ConfigWebhooksPage", "ConfigContinuousDeploymentPage", "MonitoringFilesPage"} :
               Fine(r, N!Pages[p])
<1> USE FramesAreMountable
<1>1. Mountable(r, {}) /\ Mountable(r, N!cluster) /\ Mountable(r, {"projectDomains"}) /\ Mountable(r, {"projects"})
      /\ Mountable(r, {"projectApiKeys"}) /\ Mountable(r, {"projectWebhooks"}) /\ Mountable(r, {"githubBranches"})
  BY DEF Mountable, MayQuery, FreeQueries, ViewQueries, ConfigureQueries, N!cluster
<1>2. \A hooks : hooks \subseteq ConfigureHooks => Run(r, N!Each(hooks))
  <2>1. \A hooks : hooks \subseteq ConfigureHooks => \A h \in hooks : MayRun(r, h)
    BY DEF MayRun
  <2> QED
    BY <2>1, HandlersRun
<1>3. Offerable(r, {})
  BY HandlersAreOfferable
<1>4. Fine(r, N!ConfigProjectPage)
  <2> DEFINE delete == <<"useDeleteProject">>
             leave == {N!Leaving(delete, "TeamHomePage")}
             assign == N!Each({"useSetProjectAssignment"})
  <2>1. "delete" \in r.caps => \A i \in DOMAIN delete : MayRun(r, delete[i])
    BY DEF MayRun
  <2>2. N!Satisfies(r, "delete") => "delete" \in r.caps
    BY DEF N!Satisfies
  <2> HIDE DEF delete
  <2>3. N!Satisfies(r, "delete") => Run(r, leave)
    BY <2>1, <2>2, HandlersRun
  <2>4. \A h \in leave : DOMAIN h = {"steps", "leaves", "asks"}
    BY DEF N!Leaving, N!Handler
  <2>5. Run(r, assign)
    BY <1>2 DEF ConfigureHooks
  <2> HIDE DEF leave, assign
  <2>6. Offerable(r, assign \cup N!Only("delete", leave))
    BY <2>3, <2>4, <2>5, HandlersAreOfferable
  <2> QED
    BY <1>1, <2>6, ConfigIsFine DEF N!ConfigProjectPage, delete, leave, assign
<1>5. Fine(r, N!ConfigRoutingPage)
  BY <1>1, <1>3, ConfigIsFine DEF N!ConfigRoutingPage
<1>6. Fine(r, N!ConfigSystemPage)
  <2>1. Offerable(r, N!Each({"useSyncProjectToRepo"}))
    BY <1>2, HandlersAreOfferable DEF ConfigureHooks
  <2> QED
    BY <1>1, <2>1, ConfigIsFine DEF N!ConfigSystemPage
<1>7. Fine(r, N!ConfigResourcesPage)
  <2> DEFINE quota == <<"useSetProjectQuota", "refreshProjects">>
             set == {N!Handler(quota)}
  <2>1. r.admin => \A i \in DOMAIN quota : MayRun(r, quota[i])
    BY DEF MayRun, AdminHooks, FollowUps
  <2>2. N!Satisfies(r, "admin") => r.admin
    BY DEF N!Satisfies, RightsRecord, N!Caps
  <2> HIDE DEF quota
  <2>3. N!Satisfies(r, "admin") => Run(r, set)
    BY <2>1, <2>2, HandlersRun
  <2>4. \A h \in set : DOMAIN h = {"steps", "leaves", "asks"}
    BY DEF N!Handler
  <2> HIDE DEF set
  <2>5. Offerable(r, N!Only("admin", set))
    BY <2>3, <2>4, HandlersAreOfferable
  <2> QED
    BY <1>1, <2>5, ConfigIsFine DEF N!ConfigResourcesPage, quota, set
<1>8. Fine(r, N!ConfigKeysPage)
  <2> DEFINE first == N!Each({"useResetDeploymentKey", "useUpdateProject"})
             card == N!Each({"useCreateApiKey", "useRevokeApiKey"})
  <2>1. Run(r, first) /\ Run(r, card)
    BY <1>2 DEF ConfigureHooks
  <2> HIDE DEF first, card
  <2>2. Run(r, N!Only("configure", card))
    BY <2>1, HandlersAreOfferable
  <2>3. Offerable(r, first \cup N!Only("configure", card))
    BY <2>1, <2>2, HandlersAreOfferable
  <2> QED
    BY <1>1, <2>3, ConfigIsFine DEF N!ConfigKeysPage, N!ApiKeysCard, first, card
<1>9. Fine(r, N!WebhooksSection)
  <2>1. Offerable(r, N!Each({"useCreateWebhook", "useUpdateWebhook", "useDeleteWebhook", "useTestWebhook", "toggleEnabled"}))
    BY <1>2, HandlersAreOfferable DEF ConfigureHooks
  <2> QED
    BY <1>1, <2>1, ConfigIsFine DEF N!WebhooksSection
<1>10. Fine(r, N!ConfigContinuousDeploymentPage)
  <2> DEFINE setup == <<"useSetupCicd", "usePatchProjectCache">>
             remove == <<"useRemoveCicd", "usePatchProjectCache">>
  <2>1. (\A i \in DOMAIN setup : MayRun(r, setup[i])) /\ (\A i \in DOMAIN remove : MayRun(r, remove[i]))
    BY DEF MayRun, ConfigureHooks, FollowUps
  <2> HIDE DEF setup, remove
  <2>2. Run(r, {N!Handler(setup)}) /\ Run(r, {N!Handler(remove)})
    BY <2>1, HandlersRun
  <2>3. Run(r, {N!Handler(setup), N!Handler(remove)})
    BY <2>2 DEF Run
  <2>4. Offerable(r, {N!Handler(setup), N!Handler(remove)})
    BY <2>3, HandlersAreOfferable
  <2> QED
    BY <1>1, <2>4, ConfigIsFine DEF N!ConfigContinuousDeploymentPage, setup, remove
<1>11. Fine(r, N!FileExplorer)
  <2>1. Mountable(r, {"projects", "projectFiles", "projectFile"} \cup N!ProjectHeader)
    BY DEF Mountable, MayQuery, ConfigureQueries, ViewQueries, N!ProjectHeader
  <2>2. Offerable(r, N!NotificationBell)
    BY BellRuns, HandlersAreOfferable
  <2> QED
    BY <2>1, <2>2, PageIsFine DEF N!FileExplorer
<1> QED
  BY <1>4, <1>5, <1>6, <1>7, <1>8, <1>9, <1>10, <1>11 DEF N!Pages

\* Admins and owners have every capability; without the App nobody has any
\* (getEffectiveCapabilitiesForTeam).
LEMMA RightsAreRecords ==
    ASSUME NEW r \in N!Rights
    PROVE  /\ r \in RightsRecord
           /\ r.installed /\ (r.admin \/ r.owner) => r.caps = N!Caps
           /\ r.super => r.admin
           /\ ~r.installed => r.caps = {}
BY DEF N!Rights, RightsRecord

\* The settings of a team, for admins and owners.
LEMMA TeamPagesAreFine ==
    ASSUME NEW r \in N!Rights, r.installed, r.admin \/ r.owner
    PROVE  \A p \in {"TeamDetailPage", "TeamDomainsPage", "DomainDetailPage"} : Fine(r, N!Pages[p])
<1> USE FramesAreMountable
<1>1. r \in RightsRecord /\ Manages(r) /\ "view" \in r.caps /\ "create_project" \in r.caps
  BY RightsAreRecords DEF Manages, N!Caps
<1>2. \A hooks : hooks \subseteq ManageHooks => Run(r, N!Each(hooks))
  <2>1. \A hooks : hooks \subseteq ManageHooks => \A h \in hooks : MayRun(r, h)
    BY <1>1 DEF MayRun
  <2> QED
    BY <2>1, HandlersRun
<1>3. Fine(r, N!TeamDetailPage)
  <2>1. Mountable(r, {"team"})
    BY DEF Mountable, MayQuery
  <2> DEFINE teams == N!Each({"useSetTeamDefaults", "useSetTeamOverride", "useDeleteTeamOverride"})
  <2>2. Run(r, teams)
    BY <1>2 DEF ManageHooks
  <2> HIDE DEF teams
  <2>3. Offerable(r, N!Only("manage", teams))
    BY <2>2, HandlersAreOfferable
  <2> QED
    BY <2>1, <2>3, PageIsFine DEF N!TeamDetailPage, teams
<1>4. Fine(r, N!TeamDomains)
  <2>1. Mountable(r, {"teamRegistrar", "teamDomains", "teamDomainRequests", "teamDomainBilling"})
    BY <1>1 DEF Mountable, MayQuery, ViewQueries
  <2> DEFINE search == N!Each({"useTeamDomainSearch"})
             request_ == N!Each({"useRequestTeamDomain"})
             buy == N!Each({"useBuyTeamDomain", "useDecideTeamDomainRequest", "useTeamCloudflareSync"})
             keep == N!Each({"useSaveTeamRegistrar", "useRemoveTeamRegistrar"})
  <2>2. Run(r, search) /\ Run(r, request_)
    <3>1. (\A h \in {"useTeamDomainSearch"} : MayRun(r, h)) /\ (\A h \in {"useRequestTeamDomain"} : MayRun(r, h))
      BY <1>1 DEF MayRun, ViewHooks, CreateHooks
    <3> QED
      BY <3>1, HandlersRun
  <2>3. Run(r, buy) /\ Run(r, keep)
    BY <1>2 DEF ManageHooks
  <2> HIDE DEF search, request_, buy, keep
  <2>4. Run(r, N!Only("create_project", request_)) /\ Run(r, N!Only("manage", buy)) /\ Run(r, N!Only("manage", keep))
    BY <2>2, <2>3, HandlersAreOfferable
  <2>5. Offerable(r, search \cup N!Only("create_project", request_) \cup N!Only("manage", buy) \cup N!Only("manage", keep))
    BY <2>2, <2>4, HandlersAreOfferable
  <2> QED
    BY <2>1, <2>5, PageIsFine DEF N!TeamDomains, N!TeamRegistrarSettings, search, request_, buy, keep
<1>5. Fine(r, N!DomainDetailPage)
  <2>1. Mountable(r, {"teamDomains", "publicIp", "teamDnsRecords", "teamRegistrar", "teamDnsAnalytics",
                      "teamPortReservations"})
    <3>1. N!Satisfies(r, N!Enabled["publicIp"]) => r.admin
      BY <1>1 DEF N!Enabled, N!Satisfies, RightsRecord, N!Caps
    <3>2. "publicIp" \in DOMAIN N!Enabled
      BY DEF N!Enabled
    <3> QED
      BY <1>1, <3>1, <3>2 DEF Mountable, MayQuery, ViewQueries, AdminQueries
  <2> DEFINE save == <<"useDeleteDnsRecord", "useUpdateDnsRecord", "useCreateDnsRecord", "refetchRecords", "refetchDomains">>
             delete == <<"useDeleteDomain", "refetchDomains">>
  <2>2. (\A i \in DOMAIN save : MayRun(r, save[i])) /\ (\A i \in DOMAIN delete : MayRun(r, delete[i]))
    BY <1>1 DEF MayRun, ManageHooks, FollowUps
  <2> HIDE DEF save, delete
  <2>3. Run(r, {N!Handler(save)}) /\ Run(r, {N!Leaving(delete, "TeamDetailPage")})
    BY <2>2, HandlersRun
  <2>4. Run(r, {N!Handler(save), N!Leaving(delete, "TeamDetailPage")})
    BY <2>3 DEF Run
  <2>5. Offerable(r, N!Only("manage", {N!Handler(save), N!Leaving(delete, "TeamDetailPage")}))
    BY <2>4, HandlersAreOfferable
  <2> QED
    BY <2>1, <2>5, PageIsFine DEF N!DomainDetailPage, N!saveAll, save, delete
<1> QED
  BY <1>3, <1>4, <1>5 DEF N!Pages

\* The pages of the cluster, for admins; adding admins is offered to super-admins.
LEMMA ClusterPagesAreFine ==
    ASSUME NEW r \in N!Rights, r.admin
    PROVE  \A p \in DOMAIN N!nsmRootLevel : Fine(r, N!Pages[p])
<1> USE FramesAreMountable
<1>1. r \in RightsRecord
  BY RightsAreRecords
<1>2. \A keys : keys \subseteq FreeQueries \cup AdminQueries \cup {"projects"} => Mountable(r, keys)
  BY DEF Mountable, MayQuery
<1>3. \A hooks : hooks \subseteq AdminHooks \cup FreeHooks => Offerable(r, N!Each(hooks))
  <2>1. \A hooks : hooks \subseteq AdminHooks \cup FreeHooks => \A h \in hooks : MayRun(r, h)
    BY DEF MayRun
  <2> QED
    BY <2>1, HandlersRun, HandlersAreOfferable
<1>4. Offerable(r, {})
  BY HandlersAreOfferable
<1>5. Fine(r, N!NodesPage)
  <2>1. Mountable(r, {"publicIp", "joinInfo"} \cup N!cluster)
    BY <1>2 DEF FreeQueries, AdminQueries, N!cluster
  <2>2. Offerable(r, N!Each({"usePublicIpRefresh"}))
    BY <1>3 DEF AdminHooks
  <2> QED
    BY <2>1, <2>2, PageIsFine DEF N!NodesPage
<1>6. Fine(r, N!NodeOverviewPage)
  <2>1. Mountable(r, {"nodeMetrics"})
    BY <1>2 DEF FreeQueries
  <2> QED
    BY <1>4, <2>1, PageIsFine DEF N!NodeOverviewPage
<1>7. Fine(r, N!NodeStoragePage)
  <2>1. Mountable(r, {"nodeStorage", "nodeStorageSeries"})
    BY <1>2 DEF FreeQueries
  <2>2. Offerable(r, N!Each({"useSnapshotNodeStorage"}))
    BY <1>3 DEF FreeHooks
  <2> QED
    BY <2>1, <2>2, PageIsFine DEF N!NodeStoragePage
<1>8. Fine(r, N!NodeConfigPage)
  <2>1. Mountable(r, {"nodePortReservations", "projects"} \cup N!cluster)
    BY <1>2 DEF FreeQueries, AdminQueries, N!cluster
  <2>2. Offerable(r, N!Each({"useCreateNodePortReservation", "useDeleteNodePortReservation"}))
    BY <1>3 DEF AdminHooks
  <2> QED
    BY <2>1, <2>2, PageIsFine DEF N!NodeConfigPage
<1>9. Fine(r, N!NodeConfigModal)
  <2>1. Mountable(r, {"nodeConfig", "nodePortReservations", "projects"} \cup N!cluster)
    BY <1>2 DEF FreeQueries, AdminQueries, N!cluster
  <2> DEFINE save == <<"useSaveNodeConfig">>
  <2>2. \A i \in DOMAIN save : MayRun(r, save[i])
    BY DEF MayRun, AdminHooks
  <2> HIDE DEF save
  <2>3. Offerable(r, {N!Leaving(save, "NodeConfigPage")})
    BY <2>2, HandlersRun, HandlersAreOfferable
  <2> QED
    BY <2>1, <2>3, PageIsFine DEF N!NodeConfigModal, save
<1>10. Fine(r, N!NsmLogsPage)
  <2>1. Mountable(r, N!LogViewer \cup N!cluster)
    BY <1>2 DEF FreeQueries, N!LogViewer, N!cluster
  <2> QED
    BY <1>4, <2>1, PageIsFine DEF N!NsmLogsPage
<1>11. Fine(r, N!UserManagementPage)
  <2>1. Mountable(r, {"teams", "admins"})
    BY <1>2 DEF AdminQueries
  <2> DEFINE admins == N!Each({"useAddAdmin", "useRemoveAdmin"})
  <2>2. r.super => Run(r, admins)
    <3>1. r.super => \A h \in {"useAddAdmin", "useRemoveAdmin"} : MayRun(r, h)
      BY DEF MayRun, SuperHooks
    <3> QED
      BY <3>1, HandlersRun
  <2>3. N!Satisfies(r, "super") => r.super
    BY <1>1 DEF N!Satisfies, RightsRecord, N!Caps
  <2>4. \A h \in admins : DOMAIN h = {"steps", "leaves", "asks"}
    BY DEF N!Each, N!Handler
  <2> HIDE DEF admins
  <2>5. Offerable(r, N!Only("super", admins))
    BY <2>2, <2>3, <2>4, HandlersAreOfferable
  <2> QED
    BY <2>1, <2>5, PageIsFine DEF N!UserManagementPage, admins
<1> QED
  BY <1>5, <1>6, <1>7, <1>8, <1>9, <1>10, <1>11 DEF N!Pages, N!nsmRootLevel

\* What the sidebar asks for a page is what one of its levels does.
LEMMA SidebarAsks ==
    ASSUME NEW p \in DOMAIN N!deriveSidebarStack
    PROVE  \E t \in {N!projectLevel, N!configLevel, N!monitoringLevel, N!teamRootLevel, N!teamSettingsLevel,
                     N!nsmRootLevel} :
               p \in DOMAIN t /\ N!deriveSidebarStack[p] = t[p]
<1> DEFINE parts == {N!projectLevel, N!configLevel, N!monitoringLevel, N!teamRootLevel, N!teamSettingsLevel,
                     N!nsmRootLevel}
<1>1. N!deriveSidebarStack = N!Joined(parts)
  BY DEF N!deriveSidebarStack
<1> HIDE DEF parts
<1>2. p \in UNION {DOMAIN t : t \in parts}
  BY <1>1 DEF N!Joined
<1>3. \E t \in parts : p \in DOMAIN t /\ N!deriveSidebarStack[p] = t[p]
  BY <1>1, <1>2, JoinedHasParts
<1> QED
  BY <1>3 DEF parts

\* The way to a page is in the sidebar of those for whom the page is fine.
LEMMA SidebarIsFine ==
    ASSUME NEW r \in N!Rights, r.installed, NEW p \in DOMAIN N!deriveSidebarStack, N!InSidebar(r, p)
    PROVE  Fine(r, N!Pages[p])
<1> DEFINE levels == {N!projectLevel, N!configLevel, N!monitoringLevel, N!teamRootLevel, N!teamSettingsLevel, N!nsmRootLevel}
           demand == N!deriveSidebarStack[p]
<1>1. PICK t \in levels : p \in DOMAIN t /\ demand = t[p]
  BY SidebarAsks
<1> HIDE DEF levels, demand
<1>2. N!Satisfies(r, demand)
  BY DEF N!InSidebar, demand
<1>3. /\ r \in RightsRecord
      /\ r.admin \/ r.owner => r.caps = N!Caps
      /\ N!Satisfies(r, "admin") => r.admin
      /\ N!Satisfies(r, "manage") => r.admin \/ r.owner
      /\ N!Satisfies(r, "view") => "view" \in r.caps
      /\ N!Satisfies(r, "deploy") => "deploy" \in r.caps
      /\ N!Satisfies(r, "configure") => "configure" \in r.caps
  BY RightsAreRecords DEF N!Satisfies, RightsRecord, N!Caps
<1>4. t \in {N!projectLevel, N!configLevel, N!monitoringLevel} => "view" \in r.caps
  BY <1>1 DEF N!InSidebar
<1>5. CASE t = N!projectLevel
  BY <1>1, <1>2, <1>3, <1>4, <1>5, SeenPagesAreFine, ConfigurePagesAreFine, DeployPagesAreFine DEF N!projectLevel
<1>6. CASE t = N!configLevel
  BY <1>1, <1>2, <1>3, <1>4, <1>6, ConfigurePagesAreFine DEF N!configLevel, N!projectLevel
<1>7. CASE t = N!monitoringLevel
  BY <1>1, <1>2, <1>3, <1>4, <1>7, SeenPagesAreFine, ConfigurePagesAreFine, DeployPagesAreFine DEF N!monitoringLevel
<1>8. CASE t = N!teamRootLevel
  BY <1>1, <1>2, <1>3, <1>8, SeenPagesAreFine DEF N!teamRootLevel
<1>9. CASE t = N!teamSettingsLevel
  BY <1>1, <1>2, <1>3, <1>9, TeamPagesAreFine DEF N!teamSettingsLevel
<1>10. CASE t = N!nsmRootLevel
  BY <1>1, <1>2, <1>3, <1>10, ClusterPagesAreFine DEF N!nsmRootLevel
<1> QED
  BY <1>5, <1>6, <1>7, <1>8, <1>9, <1>10 DEF levels

-----------------------------------------------------------------------------
(* The strengthening, and the theorem.                                     *)

\* Whoever came by the sidebar was shown the way; the cluster's pages are admins'.
NavigationInv ==
    /\ N!TypeOK
    /\ nUsed \in [N!Kinds -> Nat]
    /\ nPage # "none" /\ N!Never({"link"}) => nPage \in DOMAIN N!deriveSidebarStack /\ N!InSidebar(arrived, nPage)
    /\ N!AdminPagesGo

\* The sidebar and the links lead to pages that exist, and to the cluster's as an admin.
LEMMA StackPages ==
    /\ DOMAIN N!deriveSidebarStack \subseteq DOMAIN N!Pages
    /\ \A p \in DOMAIN N!deriveSidebarStack \cap DOMAIN N!nsmRootLevel : N!deriveSidebarStack[p] = "admin"
    /\ \A link \in N!Links : link[2] \in DOMAIN N!Pages
    /\ "none" \notin DOMAIN N!Pages /\ "none" \notin DOMAIN N!nsmRootLevel
<1>1. ASSUME NEW p \in DOMAIN N!deriveSidebarStack PROVE p \in DOMAIN N!Pages
  BY <1>1, SidebarAsks
     DEF N!projectLevel, N!configLevel, N!monitoringLevel, N!teamRootLevel, N!teamSettingsLevel, N!nsmRootLevel, N!Pages
<1>2. ASSUME NEW p \in DOMAIN N!deriveSidebarStack, p \in DOMAIN N!nsmRootLevel
      PROVE  N!deriveSidebarStack[p] = "admin"
  <2>1. /\ p \notin DOMAIN N!projectLevel /\ p \notin DOMAIN N!configLevel /\ p \notin DOMAIN N!monitoringLevel
        /\ p \notin DOMAIN N!teamRootLevel /\ p \notin DOMAIN N!teamSettingsLevel
    BY <1>2 DEF N!projectLevel, N!configLevel, N!monitoringLevel, N!teamRootLevel, N!teamSettingsLevel, N!nsmRootLevel
  <2>2. N!deriveSidebarStack[p] = N!nsmRootLevel[p]
    BY <2>1, SidebarAsks
  <2> QED
    BY <1>2, <2>2 DEF N!nsmRootLevel
<1>3. \A link \in N!Links : link[2] \in DOMAIN N!Pages
  BY DEF N!Links, N!Pages
<1>4. "none" \notin DOMAIN N!Pages /\ "none" \notin DOMAIN N!nsmRootLevel
  BY DEF N!Pages, N!nsmRootLevel
<1> QED
  BY <1>1, <1>2, <1>3, <1>4

\* Counting events keeps the counts natural numbers, and counts those named.
LEMMA NavigationEvents ==
    ASSUME nUsed \in [N!Kinds -> Nat], NEW kinds \in SUBSET N!Kinds, N!Uses(kinds)
    PROVE  /\ nUsed' \in [N!Kinds -> Nat]
           /\ \A k \in kinds : nUsed'[k] > 0
           /\ \A k \in N!Kinds : nUsed'[k] = 0 => nUsed[k] = 0
<1>1. nUsed' = [k \in N!Kinds |-> nUsed[k] + (IF k \in kinds THEN 1 ELSE 0)]
  BY DEF N!Uses
<1>2. \A k \in N!Kinds : nUsed'[k] = nUsed[k] + (IF k \in kinds THEN 1 ELSE 0)
  BY <1>1
<1> QED
  BY <1>1, <1>2

\* No page is open at first.
LEMMA NavigationInvInitially == Init => NavigationInv
<1> SUFFICES ASSUME N!Init PROVE NavigationInv
  BY DEF Init
<1> QED
  BY StackPages DEF NavigationInv, N!Init, N!TypeOK, N!AdminPagesGo

\* Every step through the pages, and every change of rights, keeps the invariant.
LEMMA NavigationInvPreserved ==
    ASSUME NavigationInv, [Next]_<<part, dVars, nVars, cVars, pVars>>
    PROVE  NavigationInv'
<1>1. /\ N!TypeOK /\ nUsed \in [N!Kinds -> Nat] /\ N!AdminPagesGo
      /\ nPage # "none" /\ N!Never({"link"}) => nPage \in DOMAIN N!deriveSidebarStack /\ N!InSidebar(arrived, nPage)
  BY DEF NavigationInv
<1>2. ASSUME NEW p \in DOMAIN N!deriveSidebarStack, N!Go(p) PROVE NavigationInv'
  <2>1. nPage' = p /\ arrived' = me /\ rights' = rights /\ me' = me /\ nUsed' = nUsed
    BY <1>2 DEF N!Go, N!Show
  <2>2. p \in DOMAIN N!nsmRootLevel => me.admin
    <3> SUFFICES ASSUME p \in DOMAIN N!nsmRootLevel PROVE me.admin
      OBVIOUS
    <3>1. N!Satisfies(me, "admin")
      BY <1>2, StackPages DEF N!Go, N!InSidebar
    <3> QED
      BY <1>1, <3>1, RightsAreRecords DEF N!TypeOK, N!Satisfies, RightsRecord, N!Caps
  <2>3. N!TypeOK' /\ N!AdminPagesGo'
    BY <1>1, <2>1, <2>2, StackPages DEF N!TypeOK, N!AdminPagesGo
  <2>4. N!InSidebar(me, p)
    BY <1>2 DEF N!Go
  <2> QED
    BY <1>1, <2>1, <2>3, <2>4 DEF NavigationInv, N!InSidebar, N!Satisfies
<1>3. CASE N!FollowLink
  <2>1. N!Uses({"link"}) /\ {"link"} \subseteq N!Kinds /\ UNCHANGED <<rights, me>>
    BY <1>3 DEF N!FollowLink, N!Kinds
  <2>2. nUsed' \in [N!Kinds -> Nat] /\ nUsed'["link"] > 0
    BY <1>1, <2>1, NavigationEvents
  <2>3. PICK link \in N!Links : IF N!Router(me, link[2]) THEN N!Show(link[2]) ELSE N!NotFound
    BY <1>3 DEF N!FollowLink
  <2>4. arrived' = me /\ (nPage' = "none" \/ (nPage' = link[2] /\ N!Router(me, link[2])))
    BY <2>3 DEF N!Show, N!NotFound
  <2>5. N!TypeOK' /\ N!AdminPagesGo'
    BY <1>1, <2>1, <2>4, StackPages DEF N!TypeOK, N!AdminPagesGo, N!Router
  <2>6. ~N!Never({"link"})'
    BY <2>2 DEF N!Never
  <2> QED
    BY <2>2, <2>5, <2>6 DEF NavigationInv
<1>4. CASE N!Change
  <2>1. N!Uses({"change"}) /\ {"change"} \subseteq N!Kinds /\ rights' \in Losses /\ UNCHANGED <<me, nPage, arrived>>
    BY <1>4 DEF N!Change, N!Kinds
  <2>2. nUsed' \in [N!Kinds -> Nat] /\ (nUsed'["link"] = 0 => nUsed["link"] = 0)
    BY <1>1, <2>1, NavigationEvents DEF N!Kinds
  <2>3. N!TypeOK' /\ N!AdminPagesGo'
    BY <1>1, <2>1, LossesAssumption DEF N!TypeOK, N!AdminPagesGo
  <2>4. N!Never({"link"})' => N!Never({"link"})
    BY <2>2 DEF N!Never
  <2> QED
    BY <1>1, <2>1, <2>2, <2>3, <2>4 DEF NavigationInv, N!InSidebar, N!Satisfies
<1>5. CASE N!Refresh
  <2>1. me' = rights /\ rights' = rights /\ nUsed' = nUsed
    BY <1>5 DEF N!Refresh
  <2>2. \/ nPage' = "none" /\ arrived' = rights
        \/ nPage' = nPage /\ arrived' = arrived /\ (nPage # "none" => N!Router(rights, nPage))
    BY <1>5 DEF N!Refresh
  <2>3. N!TypeOK' /\ N!AdminPagesGo'
    BY <1>1, <2>1, <2>2, StackPages DEF N!TypeOK, N!AdminPagesGo, N!Router
  <2> QED
    BY <1>1, <2>1, <2>2, <2>3 DEF NavigationInv, N!Never, N!InSidebar, N!Satisfies
<1>6. CASE UNCHANGED nVars
  BY <1>1, <1>6 DEF nVars, NavigationInv, N!TypeOK, N!AdminPagesGo, N!Never, N!InSidebar, N!Satisfies
<1> QED
  BY <1>2, <1>3, <1>4, <1>5, <1>6 DEF Next, N!Next

\* Whatever rights a user has, and whatever they change to: a page reached by the sidebar
\* with the rights that hold asks for and offers only what the server allows, and an admin's
\* page is gone once the tab knows that its user is none (sidebarModel.ts against authz.ts;
\* router.tsx).
THEOREM PagesAreAllowed == Spec => []PagesMatchRights
<1>1. NavigationInv => PagesMatchRights
  <2> SUFFICES ASSUME NavigationInv, nPage # "none", arrived = rights, me = rights, rights.installed, N!Never({"link"})
               PROVE  N!Answered(me)
    BY DEF NavigationInv, PagesMatchRights, N!OfferedIsAllowed
  <2>1. me \in N!Rights /\ nPage \in DOMAIN N!deriveSidebarStack /\ N!InSidebar(me, nPage)
    BY DEF NavigationInv, N!TypeOK
  <2>2. Fine(me, N!Pages[nPage]) /\ me \in RightsRecord
    BY <2>1, SidebarIsFine, RightsAreRecords
  <2> QED
    BY <2>2, FineIsAllowed DEF N!Answered
<1> QED
  BY <1>1, NavigationInvInitially, NavigationInvPreserved, PTL DEF Spec

-----------------------------------------------------------------------------
(* The cache: what the hooks do to the queries.                            *)

HIDE TokensAssumption

\* The queries whose pages are brought up to date by the hooks alone.
Followed(k) == D!queryKeys[k].polled = "never" /\ k \notin {"me", "teamDomainBilling"}

\* Hooks that patch the list of projects; hooks that look at the answer.
PatchHooks ==
    {"useCreateProject", "useUpdateProject", "useUpdateSecrets", "useSyncProjectToRepo", "useDeleteProject",
     "useSetProjectAssignment", "saveChanges", "usePatchProjectCache"}
PatchedBy(h) == IF h \in PatchHooks THEN {"projects"} ELSE IF h = "useSnapshotNodeStorage" THEN {"nodeStorage"} ELSE {}

\* The queries that read what a hook writes, and that it neither patches nor invalidates.
ZoneHooks ==
    {"useSaveTeamRegistrar", "useRemoveTeamRegistrar", "useBuyTeamDomain", "useDecideTeamDomainRequest",
     "useTeamCloudflareSync", "useDeleteDomain"}
RecordHooks == {"useCreateDnsRecord", "useUpdateDnsRecord", "useDeleteDnsRecord"}
Missed(h) ==
    IF h = "useSaveNodeConfig" THEN {"nodeConfig"}
    ELSE IF h \in {"useCreateNodePortReservation", "useDeleteNodePortReservation"}
    THEN {"teamPortReservations", "projectPortReservations"}
    ELSE IF h \in {"useSetTeamDefaults", "useSetTeamOverride", "useDeleteTeamOverride"} THEN {"teams"}
    ELSE IF h \in ZoneHooks THEN {"projectDomains"}
    ELSE IF h \in RecordHooks THEN {"teamDnsRecords"}
    ELSE {}

\* Which queries read what, of those that hooks keep up to date.
LEMMA ReadersOf ==
    ASSUME NEW k \in D!QueryKeys, Followed(k)
    PROVE  LET reads == D!queryKeys[k].reads IN
           /\ reads \cap {"projects", "secrets", "deployments"} # {} => k = "projects"
           /\ "queue" \notin reads /\ "disks" \notin reads /\ "subscriptions" \notin reads
           /\ "apikeys" \in reads => k = "projectApiKeys"
           /\ "webhooks" \in reads => k = "projectWebhooks"
           /\ "incidents" \in reads => k = "projectIncidents"
           /\ "preferences" \in reads => k = "pushPreference"
           /\ "environment" \in reads => k = "nodeConfig"
           /\ "reservations" \in reads =>
                 k \in {"nodePortReservations", "teamPortReservations", "projectPortReservations"}
           /\ "admins" \in reads => k = "admins"
           /\ "teams" \in reads => k \in {"team", "teams"}
           /\ "registrar" \in reads => k = "teamRegistrar"
           /\ "zones" \in reads => k \in {"teamDomains", "projectDomains"}
           /\ "requests" \in reads => k = "teamDomainRequests"
           /\ "address" \in reads => k = "publicIp"
           /\ "records" \in reads => k = "teamDnsRecords"
<1>1. \A route, reads :
          /\ D!Query(route, reads).reads = reads
          /\ D!Polled(route, reads).polled # "never" /\ D!Live(route, reads).polled # "never"
          /\ D!Sliding(route, reads).polled # "never"
  BY DEF D!Query, D!Polled, D!Live, D!Sliding
<1>2. \A j \in {"projectStatuses", "workerNodes", "controlPlaneStatus", "nodeMetrics", "nodeStorage", "nodeStorageSeries",
                "projectResourceUsage", "projectHealth", "observabilityMetrics", "projectInstance", "logs", "logFacets"} :
          D!queryKeys[j].polled # "never"
  BY <1>1 DEF D!queryKeys, D!useProjectStatuses, D!workerNodes, D!controlPlaneStatus, D!useNodeMetrics,
     D!useNodeStorage, D!useNodeStorageSeries, D!useProjectResourceUsage, D!useProjectHealth,
     D!useObservabilityMetrics, D!useLiveProjectInstance, D!entriesQuery, D!facetsQuery
<1>3. /\ \A j \in {"teamDomains", "projectDomains"} : D!queryKeys[j].reads = {"zones"}
      /\ D!queryKeys["teamRegistrar"].reads = {"registrar"} /\ D!queryKeys["teamDomainRequests"].reads = {"requests"}
      /\ D!queryKeys["publicIp"].reads = {"address"} /\ D!queryKeys["teamDnsRecords"].reads = {"records"}
      /\ \A j \in {"teamPortReservations", "nodePortReservations", "projectPortReservations"} :
            D!queryKeys[j].reads = {"reservations"}
      /\ D!queryKeys["nodeConfig"].reads = {"environment"}
  BY <1>1 DEF D!queryKeys, D!useTeamDomains, D!useProjectDomains, D!useTeamRegistrar, D!useTeamDomainRequests,
     D!usePublicIp, D!useTeamDnsRecords, D!useTeamPortReservations, D!useNodePortReservations,
     D!useProjectPortReservations, D!useNodeConfig
<1>4. /\ D!queryKeys["projects"].reads = {"projects", "deployments", "secrets"}
      /\ \A j \in {"teams", "team"} : D!queryKeys[j].reads = {"teams"}
      /\ D!queryKeys["admins"].reads = {"admins"} /\ D!queryKeys["projectApiKeys"].reads = {"apikeys"}
      /\ D!queryKeys["projectIncidents"].reads = {"incidents"} /\ D!queryKeys["projectWebhooks"].reads = {"webhooks"}
      /\ D!queryKeys["pushPreference"].reads = {"preferences"}
  BY <1>1 DEF D!queryKeys, D!useProjects, D!useTeams, D!useTeam, D!useAdmins, D!useProjectApiKeys,
     D!useProjectIncidents, D!useProjectWebhooks, D!usePushPreference
<1>5. \A j \in {"teamDnsAnalytics", "joinInfo", "projectFiles", "projectFile", "projectDeployAverage", "githubRepos",
                "githubBranches"} :
          D!queryKeys[j].reads \subseteq {"traffic", "nodes", "files", "completed", "github"}
  BY <1>1 DEF D!queryKeys, D!useTeamDnsAnalytics, D!useJoinInfo, D!useProjectFiles, D!useProjectFile,
     D!useProjectDeployAverage, D!useGithubRepos, D!useGithubBranches
<1>6. k \in {"projects", "teamRegistrar", "teamDomains", "teamDomainRequests", "publicIp", "teamDnsRecords",
            "teamDnsAnalytics", "teamPortReservations", "teams", "team", "admins", "nodeConfig", "nodePortReservations",
            "joinInfo", "projectApiKeys", "projectIncidents", "projectWebhooks", "projectFiles", "projectFile",
            "projectDomains", "projectPortReservations", "projectDeployAverage", "githubRepos", "githubBranches",
            "pushPreference"}
  <2>1. k \in DOMAIN D!queryKeys
    BY DEF D!QueryKeys
  <2> QED
    BY <1>2, <2>1 DEF D!queryKeys, Followed
<1> HIDE DEF Followed
<1> QED
  BY <1>3, <1>4, <1>5, <1>6

\* Only the list of a project's webhooks reads webhooks.
LEMMA WebhookReaders == \A k \in D!QueryKeys : "webhooks" \in D!queryKeys[k].reads => k = "projectWebhooks"
<1> SUFFICES ASSUME NEW k \in D!QueryKeys, ~Followed(k), "webhooks" \in D!queryKeys[k].reads PROVE FALSE
  BY ReadersOf
<1>1. \A route, reads :
          /\ D!Query(route, reads).reads = reads /\ D!Query(route, reads).polled = "never"
          /\ D!Polled(route, reads).reads = reads /\ D!Live(route, reads).reads = reads
          /\ D!Sliding(route, reads).reads = reads
  BY DEF D!Query, D!Polled, D!Live, D!Sliding
<1>2. k \in {"me", "teamDomainBilling"} => D!queryKeys[k].reads \subseteq {"projects", "teams", "admins", "zones"}
  BY <1>1 DEF D!queryKeys, D!useMe, D!useTeamDomainBilling
<1>3. k \in {"projectStatuses", "workerNodes", "controlPlaneStatus", "nodeMetrics", "nodeStorage", "nodeStorageSeries",
             "projectResourceUsage", "projectHealth", "observabilityMetrics", "projectInstance", "logs", "logFacets"}
      => D!queryKeys[k].reads \subseteq {"projects", "deployments", "nodes", "queue", "samples", "disks", "checks", "logs"}
  BY <1>1 DEF D!queryKeys, D!useProjectStatuses, D!workerNodes, D!controlPlaneStatus, D!useNodeMetrics,
     D!useNodeStorage, D!useNodeStorageSeries, D!useProjectResourceUsage, D!useProjectHealth,
     D!useObservabilityMetrics, D!useLiveProjectInstance, D!entriesQuery, D!facetsQuery
<1>4. k \in {"projects", "teamRegistrar", "teamDomains", "teamDomainRequests", "publicIp", "teamDnsRecords",
             "teamDnsAnalytics", "teamPortReservations", "teams", "team", "admins", "nodeConfig", "nodePortReservations",
             "joinInfo", "projectApiKeys", "projectIncidents", "projectWebhooks", "projectFiles", "projectFile",
             "projectDomains", "projectPortReservations", "projectDeployAverage", "githubRepos", "githubBranches",
             "pushPreference"}
      => D!queryKeys[k].polled = "never"
  BY <1>1 DEF D!queryKeys, D!useProjects, D!useTeamRegistrar, D!useTeamDomains, D!useTeamDomainRequests,
     D!usePublicIp, D!useTeamDnsRecords, D!useTeamDnsAnalytics, D!useTeamPortReservations, D!useTeams, D!useTeam,
     D!useAdmins, D!useNodeConfig, D!useNodePortReservations, D!useJoinInfo, D!useProjectApiKeys,
     D!useProjectIncidents, D!useProjectWebhooks, D!useProjectFiles, D!useProjectFile, D!useProjectDomains,
     D!useProjectPortReservations, D!useProjectDeployAverage, D!useGithubRepos, D!useGithubBranches,
     D!usePushPreference
<1>5. k \in DOMAIN D!queryKeys
  BY DEF D!QueryKeys
<1> QED
  BY <1>2, <1>3, <1>4, <1>5 DEF Followed, D!queryKeys

\* What a hook writes is shown by it, in every query that reads it and that it does not miss.
Covers(h, writes, shown) ==
    \A k \in D!QueryKeys : Followed(k) /\ writes \cap D!queryKeys[k].reads # {} => k \in shown \cup Missed(h)
\* What a hook's entry says: what it patches, whether it flips, whether it asks the server.
Tells(h, m) ==
    /\ m.flips <=> h = "toggleEnabled"
    /\ m.patches = PatchedBy(h)
    /\ m.route = "none" <=> h \in FollowUps
    /\ Covers(h, m.writes, m.invalidates \cup m.patches)
    /\ h = "refetchRecords" => "teamDnsRecords" \in m.invalidates
    /\ h = "useDeleteDnsRecord" => ~m.checked
    /\ h = "toggleEnabled" => m.writes = {"webhooks"} /\ m.invalidates = {"projectWebhooks"}
Special == {"toggleEnabled", "refetchRecords", "useDeleteDnsRecord"}

\* Hooks with and without a patch, as their definitions are written.
LEMMA HooksAsWritten ==
    ASSUME NEW h, h \notin Special, NEW route, NEW writes, NEW invalidates, Covers(h, writes, invalidates \cup PatchedBy(h)),
           route = "none" <=> h \in FollowUps
    PROVE  LET m == D!Hook(route, writes, invalidates) IN
           /\ PatchedBy(h) = {} => Tells(h, m) /\ Tells(h, D!Checked(m))
           /\ Tells(h, D!Patching(PatchedBy(h), m)) /\ Tells(h, D!Checked(D!Patching(PatchedBy(h), m)))
<1> DEFINE m == D!Hook(route, writes, invalidates)
           Reads(o) == o.route = route /\ o.writes = writes /\ o.invalidates = invalidates /\ o.flips = FALSE
<1>1. Reads(m) /\ Reads(D!Checked(m)) /\ m.patches = {} /\ D!Checked(m).patches = {}
  BY DEF D!Hook, D!Checked
<1>2. \A keys : /\ Reads(D!Patching(keys, m)) /\ D!Patching(keys, m).patches = keys
                /\ Reads(D!Checked(D!Patching(keys, m))) /\ D!Checked(D!Patching(keys, m)).patches = keys
  BY DEF D!Hook, D!Checked, D!Patching
<1>3. \A o : Reads(o) /\ o.patches = PatchedBy(h) => Tells(h, o)
  BY DEF Tells, Special
<1> HIDE DEF m, Reads
<1> QED
  BY <1>1, <1>2, <1>3 DEF m

\* The hooks of projects and their deployments,
LEMMA ProjectHooksTell == \A h \in DOMAIN D!ProjectHooks : Tells(h, D!ProjectHooks[h])
<1> USE HooksAsWritten, ReadersOf DEF Covers, PatchedBy, PatchHooks, Missed, ZoneHooks, RecordHooks, FollowUps, Special
<1>1. Tells("useCreateProject", D!useCreateProject)
  <2>1. Covers("useCreateProject", {"projects"}, {"projectStatuses"} \cup PatchedBy("useCreateProject"))
    OBVIOUS
  <2> HIDE DEF Covers
  <2> QED
    BY <2>1 DEF D!useCreateProject
<1>2. Tells("useUpdateProject", D!useUpdateProject)
  <2>1. Covers("useUpdateProject", {"projects"}, {} \cup PatchedBy("useUpdateProject"))
    OBVIOUS
  <2> HIDE DEF Covers
  <2> QED
    BY <2>1 DEF D!useUpdateProject
<1>3. Tells("useUpdateSecrets", D!useUpdateSecrets)
  <2>1. Covers("useUpdateSecrets", {"secrets"}, {} \cup PatchedBy("useUpdateSecrets"))
    OBVIOUS
  <2> HIDE DEF Covers
  <2> QED
    BY <2>1 DEF D!useUpdateSecrets
<1>4. Tells("useSyncProjectToRepo", D!useSyncProjectToRepo)
  <2>1. Covers("useSyncProjectToRepo", {"projects", "secrets"}, {} \cup PatchedBy("useSyncProjectToRepo"))
    OBVIOUS
  <2> HIDE DEF Covers
  <2> QED
    BY <2>1 DEF D!useSyncProjectToRepo
<1>5. Tells("useDeleteProject", D!useDeleteProject)
  <2>1. Covers("useDeleteProject", {"projects", "secrets"}, {"projectStatuses"} \cup PatchedBy("useDeleteProject"))
    OBVIOUS
  <2> HIDE DEF Covers
  <2> QED
    BY <2>1 DEF D!useDeleteProject
<1>6. Tells("useSetProjectQuota", D!useSetProjectQuota)
  <2>1. Covers("useSetProjectQuota", {"projects"}, {"projects"} \cup PatchedBy("useSetProjectQuota"))
    OBVIOUS
  <2> HIDE DEF Covers
  <2> QED
    BY <2>1 DEF D!useSetProjectQuota
<1>7. Tells("useSetProjectAssignment", D!useSetProjectAssignment)
  <2>1. Covers("useSetProjectAssignment", {"projects"}, {} \cup PatchedBy("useSetProjectAssignment"))
    OBVIOUS
  <2> HIDE DEF Covers
  <2> QED
    BY <2>1 DEF D!useSetProjectAssignment
<1>8. Tells("useDeployWeb", D!useDeployWeb)
  <2>1. Covers("useDeployWeb", {"deployments", "queue"}, {"projects"} \cup PatchedBy("useDeployWeb"))
    OBVIOUS
  <2> HIDE DEF Covers
  <2> QED
    BY <2>1 DEF D!useDeployWeb
<1>9. Tells("useCancelDeploy", D!useCancelDeploy)
  <2>1. Covers("useCancelDeploy", {"deployments", "queue"}, {"projects"} \cup PatchedBy("useCancelDeploy"))
    OBVIOUS
  <2> HIDE DEF Covers
  <2> QED
    BY <2>1 DEF D!useCancelDeploy
<1>10. Tells("useTeardownProject", D!useTeardownProject)
  <2>1. Covers("useTeardownProject", {"deployments"}, {"projects"} \cup PatchedBy("useTeardownProject"))
    OBVIOUS
  <2> HIDE DEF Covers
  <2> QED
    BY <2>1 DEF D!useTeardownProject
<1>11. Tells("useSetupCicd", D!useSetupCicd)
  <2>1. Covers("useSetupCicd", {"projects"}, {"projects"} \cup PatchedBy("useSetupCicd"))
    OBVIOUS
  <2> HIDE DEF Covers
  <2> QED
    BY <2>1 DEF D!useSetupCicd
<1>12. Tells("useRemoveCicd", D!useRemoveCicd)
  <2>1. Covers("useRemoveCicd", {"projects"}, {"projects"} \cup PatchedBy("useRemoveCicd"))
    OBVIOUS
  <2> HIDE DEF Covers
  <2> QED
    BY <2>1 DEF D!useRemoveCicd
<1>13. Tells("useResetDeploymentKey", D!useResetDeploymentKey)
  <2>1. Covers("useResetDeploymentKey", {}, {} \cup PatchedBy("useResetDeploymentKey"))
    OBVIOUS
  <2> HIDE DEF Covers
  <2> QED
    BY <2>1 DEF D!useResetDeploymentKey
<1>14. Tells("saveChanges", D!saveChanges)
  BY DEF Tells, D!saveChanges, D!useUpdateProject, D!Hook, D!Patching
<1> HIDE DEF Tells
<1> QED
  BY ONLY <1>1, <1>2, <1>3, <1>4, <1>5, <1>6, <1>7, <1>8, <1>9, <1>10, <1>11, <1>12, <1>13, <1>14 DEF D!ProjectHooks

\* of what belongs to a project,
LEMMA ProjectResourceHooksTell == \A h \in DOMAIN D!ProjectResourceHooks : Tells(h, D!ProjectResourceHooks[h])
<1> USE HooksAsWritten, ReadersOf DEF Covers, PatchedBy, PatchHooks, Missed, ZoneHooks, RecordHooks, FollowUps, Special
<1>1. Tells("useCreateApiKey", D!useCreateApiKey)
  <2>1. Covers("useCreateApiKey", {"apikeys"}, {"projectApiKeys"} \cup PatchedBy("useCreateApiKey"))
    OBVIOUS
  <2> HIDE DEF Covers
  <2> QED
    BY <2>1 DEF D!useCreateApiKey
<1>2. Tells("useRevokeApiKey", D!useRevokeApiKey)
  <2>1. Covers("useRevokeApiKey", {"apikeys"}, {"projectApiKeys"} \cup PatchedBy("useRevokeApiKey"))
    OBVIOUS
  <2> HIDE DEF Covers
  <2> QED
    BY <2>1 DEF D!useRevokeApiKey
<1>3. Tells("useCreateWebhook", D!useCreateWebhook)
  <2>1. Covers("useCreateWebhook", {"webhooks"}, {"projectWebhooks"} \cup PatchedBy("useCreateWebhook"))
    OBVIOUS
  <2> HIDE DEF Covers
  <2> QED
    BY <2>1 DEF D!useCreateWebhook
<1>4. Tells("useUpdateWebhook", D!useUpdateWebhook)
  <2>1. Covers("useUpdateWebhook", {"webhooks"}, {"projectWebhooks"} \cup PatchedBy("useUpdateWebhook"))
    OBVIOUS
  <2> HIDE DEF Covers
  <2> QED
    BY <2>1 DEF D!useUpdateWebhook
<1>5. Tells("useDeleteWebhook", D!useDeleteWebhook)
  <2>1. Covers("useDeleteWebhook", {"webhooks"}, {"projectWebhooks"} \cup PatchedBy("useDeleteWebhook"))
    OBVIOUS
  <2> HIDE DEF Covers
  <2> QED
    BY <2>1 DEF D!useDeleteWebhook
<1>6. Tells("useTestWebhook", D!useTestWebhook)
  <2>1. Covers("useTestWebhook", {}, {} \cup PatchedBy("useTestWebhook"))
    OBVIOUS
  <2> HIDE DEF Covers
  <2> QED
    BY <2>1 DEF D!useTestWebhook
<1>7. Tells("toggleEnabled", D!toggleEnabled)
  BY DEF Tells, D!toggleEnabled, D!useUpdateWebhook, D!Hook, D!Checked, D!Patching
<1>8. Tells("useCreateIncident", D!useCreateIncident)
  <2>1. Covers("useCreateIncident", {"incidents"}, {"projectIncidents"} \cup PatchedBy("useCreateIncident"))
    OBVIOUS
  <2> HIDE DEF Covers
  <2> QED
    BY <2>1 DEF D!useCreateIncident
<1>9. Tells("useAddIncidentUpdate", D!useAddIncidentUpdate)
  <2>1. Covers("useAddIncidentUpdate", {"incidents"}, {"projectIncidents"} \cup PatchedBy("useAddIncidentUpdate"))
    OBVIOUS
  <2> HIDE DEF Covers
  <2> QED
    BY <2>1 DEF D!useAddIncidentUpdate
<1>10. Tells("useDeleteIncident", D!useDeleteIncident)
  <2>1. Covers("useDeleteIncident", {"incidents"}, {"projectIncidents"} \cup PatchedBy("useDeleteIncident"))
    OBVIOUS
  <2> HIDE DEF Covers
  <2> QED
    BY <2>1 DEF D!useDeleteIncident
<1>11. Tells("useSetProjectNotification", D!useSetProjectNotification)
  <2>1. Covers("useSetProjectNotification", {"preferences"}, {"pushPreference"} \cup PatchedBy("useSetProjectNotification"))
    OBVIOUS
  <2> HIDE DEF Covers
  <2> QED
    BY <2>1 DEF D!useSetProjectNotification
<1>12. Tells("useSetAnyProjectNotification", D!useSetAnyProjectNotification)
  <2>1. Covers("useSetAnyProjectNotification", {"preferences"}, {"pushPreference"} \cup PatchedBy("useSetAnyProjectNotification"))
    OBVIOUS
  <2> HIDE DEF Covers
  <2> QED
    BY <2>1 DEF D!useSetAnyProjectNotification
<1>13. Tells("useEnablePush", D!useEnablePush)
  <2>1. Covers("useEnablePush", {"subscriptions"}, {"pushPreference"} \cup PatchedBy("useEnablePush"))
    OBVIOUS
  <2> HIDE DEF Covers
  <2> QED
    BY <2>1 DEF D!useEnablePush
<1>14. Tells("useDisablePush", D!useDisablePush)
  <2>1. Covers("useDisablePush", {"subscriptions"}, {"pushPreference"} \cup PatchedBy("useDisablePush"))
    OBVIOUS
  <2> HIDE DEF Covers
  <2> QED
    BY <2>1 DEF D!useDisablePush
<1>15. Tells("useSendTestNotification", D!useSendTestNotification)
  <2>1. Covers("useSendTestNotification", {}, {} \cup PatchedBy("useSendTestNotification"))
    OBVIOUS
  <2> HIDE DEF Covers
  <2> QED
    BY <2>1 DEF D!useSendTestNotification
<1> HIDE DEF Tells
<1> QED
  BY ONLY <1>1, <1>2, <1>3, <1>4, <1>5, <1>6, <1>7, <1>8, <1>9, <1>10, <1>11, <1>12, <1>13, <1>14, <1>15 DEF D!ProjectResourceHooks

\* of nodes, admins and teams,
LEMMA NodeAndTeamHooksTell == \A h \in DOMAIN D!NodeAndTeamHooks : Tells(h, D!NodeAndTeamHooks[h])
<1> USE HooksAsWritten, ReadersOf DEF Covers, PatchedBy, PatchHooks, Missed, ZoneHooks, RecordHooks, FollowUps, Special
<1>1. Tells("useSnapshotNodeStorage", D!useSnapshotNodeStorage)
  <2>1. Covers("useSnapshotNodeStorage", {"disks"}, {} \cup PatchedBy("useSnapshotNodeStorage"))
    OBVIOUS
  <2> HIDE DEF Covers
  <2> QED
    BY <2>1 DEF D!useSnapshotNodeStorage
<1>2. Tells("useSaveNodeConfig", D!useSaveNodeConfig)
  <2>1. Covers("useSaveNodeConfig", {"environment"}, {} \cup PatchedBy("useSaveNodeConfig"))
    OBVIOUS
  <2> HIDE DEF Covers
  <2> QED
    BY <2>1 DEF D!useSaveNodeConfig
<1>3. Tells("useCreateNodePortReservation", D!useCreateNodePortReservation)
  <2>1. Covers("useCreateNodePortReservation", {"reservations"}, {"nodePortReservations"} \cup PatchedBy("useCreateNodePortReservation"))
    OBVIOUS
  <2> HIDE DEF Covers
  <2> QED
    BY <2>1 DEF D!useCreateNodePortReservation
<1>4. Tells("useDeleteNodePortReservation", D!useDeleteNodePortReservation)
  <2>1. Covers("useDeleteNodePortReservation", {"reservations"}, {"nodePortReservations"} \cup PatchedBy("useDeleteNodePortReservation"))
    OBVIOUS
  <2> HIDE DEF Covers
  <2> QED
    BY <2>1 DEF D!useDeleteNodePortReservation
<1>5. Tells("useAddAdmin", D!useAddAdmin)
  <2>1. Covers("useAddAdmin", {"admins"}, {"admins"} \cup PatchedBy("useAddAdmin"))
    OBVIOUS
  <2> HIDE DEF Covers
  <2> QED
    BY <2>1 DEF D!useAddAdmin
<1>6. Tells("useRemoveAdmin", D!useRemoveAdmin)
  <2>1. Covers("useRemoveAdmin", {"admins"}, {"admins"} \cup PatchedBy("useRemoveAdmin"))
    OBVIOUS
  <2> HIDE DEF Covers
  <2> QED
    BY <2>1 DEF D!useRemoveAdmin
<1>7. Tells("useSetTeamDefaults", D!useSetTeamDefaults)
  <2>1. Covers("useSetTeamDefaults", {"teams"}, {"team"} \cup PatchedBy("useSetTeamDefaults"))
    OBVIOUS
  <2> HIDE DEF Covers
  <2> QED
    BY <2>1 DEF D!useSetTeamDefaults
<1>8. Tells("useSetTeamOverride", D!useSetTeamOverride)
  <2>1. Covers("useSetTeamOverride", {"teams"}, {"team"} \cup PatchedBy("useSetTeamOverride"))
    OBVIOUS
  <2> HIDE DEF Covers
  <2> QED
    BY <2>1 DEF D!useSetTeamOverride
<1>9. Tells("useDeleteTeamOverride", D!useDeleteTeamOverride)
  <2>1. Covers("useDeleteTeamOverride", {"teams"}, {"team"} \cup PatchedBy("useDeleteTeamOverride"))
    OBVIOUS
  <2> HIDE DEF Covers
  <2> QED
    BY <2>1 DEF D!useDeleteTeamOverride
<1> HIDE DEF Tells
<1> QED
  BY ONLY <1>1, <1>2, <1>3, <1>4, <1>5, <1>6, <1>7, <1>8, <1>9 DEF D!NodeAndTeamHooks

\* of domains,
LEMMA DomainHooksTell == \A h \in DOMAIN D!DomainHooks : Tells(h, D!DomainHooks[h])
<1> USE HooksAsWritten, ReadersOf DEF Covers, PatchedBy, PatchHooks, Missed, ZoneHooks, RecordHooks, FollowUps, Special
<1>1. Tells("useSaveTeamRegistrar", D!useSaveTeamRegistrar)
  <2>1. Covers("useSaveTeamRegistrar", {"registrar", "zones"}, {"teamRegistrar", "teamDomains"} \cup PatchedBy("useSaveTeamRegistrar"))
    OBVIOUS
  <2> HIDE DEF Covers
  <2> QED
    BY <2>1 DEF D!useSaveTeamRegistrar
<1>2. Tells("useRemoveTeamRegistrar", D!useRemoveTeamRegistrar)
  <2>1. Covers("useRemoveTeamRegistrar", {"registrar", "zones"}, {"teamRegistrar", "teamDomains"} \cup PatchedBy("useRemoveTeamRegistrar"))
    OBVIOUS
  <2> HIDE DEF Covers
  <2> QED
    BY <2>1 DEF D!useRemoveTeamRegistrar
<1>3. Tells("useTeamDomainSearch", D!useTeamDomainSearch)
  <2>1. Covers("useTeamDomainSearch", {}, {} \cup PatchedBy("useTeamDomainSearch"))
    OBVIOUS
  <2> HIDE DEF Covers
  <2> QED
    BY <2>1 DEF D!useTeamDomainSearch
<1>4. Tells("useBuyTeamDomain", D!useBuyTeamDomain)
  <2>1. Covers("useBuyTeamDomain", {"requests", "zones"}, {"teamDomainRequests", "teamDomains"} \cup PatchedBy("useBuyTeamDomain"))
    OBVIOUS
  <2> HIDE DEF Covers
  <2> QED
    BY <2>1 DEF D!useBuyTeamDomain
<1>5. Tells("useRequestTeamDomain", D!useRequestTeamDomain)
  <2>1. Covers("useRequestTeamDomain", {"requests"}, {"teamDomainRequests"} \cup PatchedBy("useRequestTeamDomain"))
    OBVIOUS
  <2> HIDE DEF Covers
  <2> QED
    BY <2>1 DEF D!useRequestTeamDomain
<1>6. Tells("useDecideTeamDomainRequest", D!useDecideTeamDomainRequest)
  <2>1. Covers("useDecideTeamDomainRequest", {"requests", "zones"}, {"teamDomainRequests", "teamDomains"} \cup PatchedBy("useDecideTeamDomainRequest"))
    OBVIOUS
  <2> HIDE DEF Covers
  <2> QED
    BY <2>1 DEF D!useDecideTeamDomainRequest
<1>7. Tells("useTeamCloudflareSync", D!useTeamCloudflareSync)
  <2>1. Covers("useTeamCloudflareSync", {"zones"}, {"teamDomains"} \cup PatchedBy("useTeamCloudflareSync"))
    OBVIOUS
  <2> HIDE DEF Covers
  <2> QED
    BY <2>1 DEF D!useTeamCloudflareSync
<1>8. Tells("usePublicIpRefresh", D!usePublicIpRefresh)
  <2>1. Covers("usePublicIpRefresh", {"address"}, {"publicIp"} \cup PatchedBy("usePublicIpRefresh"))
    OBVIOUS
  <2> HIDE DEF Covers
  <2> QED
    BY <2>1 DEF D!usePublicIpRefresh
<1>9. Tells("useCreateDnsRecord", D!useCreateDnsRecord)
  <2>1. Covers("useCreateDnsRecord", {"records"}, {} \cup PatchedBy("useCreateDnsRecord"))
    OBVIOUS
  <2> HIDE DEF Covers
  <2> QED
    BY <2>1 DEF D!useCreateDnsRecord
<1>10. Tells("useUpdateDnsRecord", D!useUpdateDnsRecord)
  <2>1. Covers("useUpdateDnsRecord", {"records"}, {} \cup PatchedBy("useUpdateDnsRecord"))
    OBVIOUS
  <2> HIDE DEF Covers
  <2> QED
    BY <2>1 DEF D!useUpdateDnsRecord
<1>11. Tells("useDeleteDnsRecord", D!useDeleteDnsRecord)
  BY DEF Tells, D!useDeleteDnsRecord, D!Hook, D!Checked, D!Patching
<1>12. Tells("useDeleteDomain", D!useDeleteDomain)
  <2>1. Covers("useDeleteDomain", {"zones"}, {"teamDomains"} \cup PatchedBy("useDeleteDomain"))
    OBVIOUS
  <2> HIDE DEF Covers
  <2> QED
    BY <2>1 DEF D!useDeleteDomain
<1> HIDE DEF Tells
<1> QED
  BY ONLY <1>1, <1>2, <1>3, <1>4, <1>5, <1>6, <1>7, <1>8, <1>9, <1>10, <1>11, <1>12 DEF D!DomainHooks

\* and what handlers do without asking the server.
LEMMA FollowsTell == \A h \in DOMAIN D!Follows : Tells(h, D!Follows[h])
<1> USE HooksAsWritten, ReadersOf DEF Covers, PatchedBy, PatchHooks, Missed, ZoneHooks, RecordHooks, FollowUps, Special
<1>1. Tells("usePatchProjectCache", D!usePatchProjectCache)
  <2>1. Covers("usePatchProjectCache", {}, {} \cup PatchedBy("usePatchProjectCache"))
    OBVIOUS
  <2> HIDE DEF Covers
  <2> QED
    BY <2>1 DEF D!usePatchProjectCache, D!Follow
<1>2. Tells("refreshProjects", D!refreshProjects)
  <2>1. Covers("refreshProjects", {}, {"projects", "projectStatuses"} \cup PatchedBy("refreshProjects"))
    OBVIOUS
  <2> HIDE DEF Covers
  <2> QED
    BY <2>1 DEF D!refreshProjects, D!Follow
<1>3. Tells("refreshMe", D!refreshMe)
  <2>1. Covers("refreshMe", {}, {"me"} \cup PatchedBy("refreshMe"))
    OBVIOUS
  <2> HIDE DEF Covers
  <2> QED
    BY <2>1 DEF D!refreshMe, D!Follow
<1>4. Tells("refetchRecords", D!refetchRecords)
  BY DEF Tells, D!refetchRecords, D!Follow, D!Hook, D!Checked, D!Patching
<1>5. Tells("refetchDomains", D!refetchDomains)
  <2>1. Covers("refetchDomains", {}, {"teamDomains"} \cup PatchedBy("refetchDomains"))
    OBVIOUS
  <2> HIDE DEF Covers
  <2> QED
    BY <2>1 DEF D!refetchDomains, D!Follow
<1> HIDE DEF Tells
<1> QED
  BY ONLY <1>1, <1>2, <1>3, <1>4, <1>5 DEF D!Follows

\* Every hook does.
LEMMA HooksTell ==
    /\ DOMAIN D!Mutations = UNION {DOMAIN t : t \in {D!ProjectHooks, D!ProjectResourceHooks, D!NodeAndTeamHooks,
                                                     D!DomainHooks, D!Follows}}
    /\ \A h \in DOMAIN D!Mutations : Tells(h, D!Mutations[h])
<1> DEFINE parts == {D!ProjectHooks, D!ProjectResourceHooks, D!NodeAndTeamHooks, D!DomainHooks, D!Follows}
<1>1. D!Mutations = D!Joined(parts)
  BY DEF D!Mutations
<1>2. \A t \in parts : \A h \in DOMAIN t : Tells(h, t[h])
  BY ProjectHooksTell, ProjectResourceHooksTell, NodeAndTeamHooksTell, DomainHooksTell, FollowsTell
<1> HIDE DEF parts
<1>3. DOMAIN D!Mutations = UNION {DOMAIN t : t \in parts}
  BY <1>1 DEF D!Joined
<1>4. ASSUME NEW h \in DOMAIN D!Mutations PROVE Tells(h, D!Mutations[h])
  <2> DEFINE t == CHOOSE p \in parts : h \in DOMAIN p
  <2>1. D!Mutations[h] = t[h]
    BY <1>1, <1>3 DEF D!Joined
  <2>2. t \in parts /\ h \in DOMAIN t
    BY <1>3
  <2> QED
    BY <1>2, <2>1, <2>2
<1> QED
  BY <1>3, <1>4 DEF parts

-----------------------------------------------------------------------------
(* The cache: what the handlers of the pages do.                           *)

Elems(s) == {s[n] : n \in DOMAIN s}
\* A follow-up that fetches the query again; steps that come to one, whatever the server refuses.
Refetches(h, k) == ~D!Posts(h) /\ k \in D!Mutations[h].invalidates
Owing(hooks, k) == /\ \E h \in hooks : Refetches(h, k)
                   /\ \A h \in hooks : D!Posts(h) => h \in D!Unheeded
\* A hook that shows what it writes. (On the page of a deployment a patch may be overwritten.)
Repairs(h, k, p) ==
    \/ k \in D!Mutations[h].invalidates
    \/ k \in D!Mutations[h].patches /\ p # "ProjectDeployPage"
\* Handlers ask first and follow up then.
PostsFirst(s) == \A m, n \in DOMAIN s : m < n /\ D!Posts(s[n]) => D!Posts(s[m])
\* A handler that goes on after a refusal it has seen patches nothing.
Harmless(hooks) ==
    \A h, g \in hooks : D!Mutations[h].checked /\ h \in D!Unheeded => D!Mutations[g].patches = {}

HandlerTyped(o) ==
    /\ o.steps \in Seq(DOMAIN D!Mutations) /\ Len(o.steps) \in 1..5
    /\ o.leaves \in DOMAIN D!Pages \cup {"none"}
    /\ DOMAIN o = {"steps", "leaves", "asks"}
GoodHandler(o, p) ==
    /\ HandlerTyped(o) /\ PostsFirst(o.steps) /\ Harmless(Elems(o.steps))
    \* what is flipped, or patched by a later step, is on the page
    /\ \A k \in D!QueryKeys, h \in Elems(o.steps) :
          /\ D!Mutations[h].flips /\ D!Concerns(h, k) => k \in D!Mounted(p)
          /\ k \in D!Mutations[h].patches =>
                h = o.steps[1] \/ (k \in D!Mounted(p) /\ "useCreateProject" \notin Elems(o.steps))
    \* what is written is shown, or fetched later on, or the page is left
    /\ \A k \in D!Mounted(p) \cap D!QueryKeys, h \in Elems(o.steps) :
          Followed(k) /\ D!Posts(h) /\ D!Touches(h, k) =>
              \/ Repairs(h, k, p)
              \/ Len(o.steps) = 1 /\ o.leaves # "none"
              \/ Owing(Elems(o.steps), k)

\* A hook that does so wherever it is used but on the pages that show what it misses.
Mends(h, p) ==
    D!Posts(h) => Missed(h) \cap D!Mounted(p) = {} /\ (p = "ProjectDeployPage" => PatchedBy(h) = {})
Plain(h) == h \in DOMAIN D!Mutations \ {"toggleEnabled", "useCreateDnsRecord", "useUpdateDnsRecord"}

\* Hooks that look at the answer end their handler, but for two of the domain's page.
LEMMA HeedfulHooks ==
    \A h \in DOMAIN D!Mutations : D!Mutations[h].checked /\ h \in D!Unheeded => h \in {"useCreateDnsRecord", "useUpdateDnsRecord"}
BY DEF D!Unheeded

\* A hook that mends repairs.
LEMMA MendingRepairs ==
    ASSUME NEW h \in DOMAIN D!Mutations, NEW p, Mends(h, p), D!Posts(h), NEW k \in D!Mounted(p) \cap D!QueryKeys,
           Followed(k), D!Touches(h, k)
    PROVE  Repairs(h, k, p)
<1>1. Tells(h, D!Mutations[h])
  BY HooksTell
<1>2. k \in D!Mutations[h].invalidates \cup D!Mutations[h].patches \cup Missed(h)
  BY <1>1 DEF Tells, Covers, D!Touches
<1>3. D!Mutations[h].patches = PatchedBy(h)
  BY <1>1 DEF Tells
<1> QED
  BY <1>2, <1>3 DEF Mends, Repairs

\* Handlers of plain hooks that mend are good when a later step patches only what is on the page.
LEMMA PlainHandlers ==
    ASSUME NEW o, HandlerTyped(o), NEW p, PostsFirst(o.steps),
           \A h \in Elems(o.steps) : Plain(h) /\ Mends(h, p),
           \A h \in Elems(o.steps) : \/ h = o.steps[1]
                                     \/ PatchedBy(h) \subseteq D!Mounted(p) /\ "useCreateProject" \notin Elems(o.steps)
    PROVE  GoodHandler(o, p)
<1>1. \A h \in Elems(o.steps) : ~D!Mutations[h].flips /\ D!Mutations[h].patches = PatchedBy(h)
  BY HooksTell DEF Tells, Plain
<1>2. Harmless(Elems(o.steps))
  BY HeedfulHooks DEF Harmless, Plain
<1>3. \A k \in D!Mounted(p) \cap D!QueryKeys, h \in Elems(o.steps) :
          Followed(k) /\ D!Posts(h) /\ D!Touches(h, k) => Repairs(h, k, p)
  BY MendingRepairs DEF Plain
<1> QED
  BY <1>1, <1>2, <1>3 DEF GoodHandler

Good(handlers, p) == \A o \in handlers : GoodHandler(o, p)

\* What a handler is made of.
LEMMA HandlerFields ==
    \A steps, to :
        /\ D!Handler(steps).steps = steps /\ D!Handler(steps).leaves = "none"
        /\ D!Leaving(steps, to).steps = steps /\ D!Leaving(steps, to).leaves = to
        /\ DOMAIN D!Handler(steps) = {"steps", "leaves", "asks"} /\ DOMAIN D!Leaving(steps, to) = {"steps", "leaves", "asks"}
BY DEF D!Handler, D!Leaving

\* Handlers of one hook are.
LEMMA OneHook ==
    ASSUME NEW p, NEW h, Plain(h), Mends(h, p), NEW o, o.steps = <<h>>, o.leaves \in DOMAIN D!Pages \cup {"none"},
           DOMAIN o = {"steps", "leaves", "asks"}
    PROVE  GoodHandler(o, p)
<1>1. HandlerTyped(o) /\ PostsFirst(o.steps) /\ Elems(o.steps) = {h} /\ o.steps[1] = h
  BY DEF HandlerTyped, PostsFirst, Elems, Plain
<1> QED
  BY <1>1, PlainHandlers

\* And of two, if the second patches what is on the page.
LEMMA TwoHooks ==
    ASSUME NEW p, NEW g, Plain(g), Mends(g, p), NEW h, Plain(h), Mends(h, p), D!Posts(g),
           PatchedBy(h) = {} \/ (PatchedBy(h) \subseteq D!Mounted(p) /\ "useCreateProject" \notin {g, h}),
           NEW o, o.steps = <<g, h>>, o.leaves \in DOMAIN D!Pages \cup {"none"},
           DOMAIN o = {"steps", "leaves", "asks"}
    PROVE  GoodHandler(o, p)
<1>1. HandlerTyped(o) /\ Elems(o.steps) = {g, h} /\ o.steps[1] = g
  BY DEF HandlerTyped, Elems, Plain
<1>2. PostsFirst(o.steps)
  BY DEF PostsFirst
<1>3. \A e \in {g, h} : ~D!Mutations[e].flips /\ D!Mutations[e].patches = PatchedBy(e)
  BY HooksTell DEF Tells, Plain
<1>4. Harmless({g, h})
  BY HeedfulHooks DEF Harmless, Plain
<1>5. \A k \in D!Mounted(p) \cap D!QueryKeys, e \in {g, h} :
          Followed(k) /\ D!Posts(e) /\ D!Touches(e, k) => Repairs(e, k, p)
  BY MendingRepairs DEF Plain
<1>6. \A k \in D!QueryKeys, e \in {g, h} :
          k \in D!Mutations[e].patches => e = g \/ (k \in D!Mounted(p) /\ "useCreateProject" \notin {g, h})
  BY <1>3
<1> QED
  BY <1>1, <1>2, <1>3, <1>4, <1>5, <1>6 DEF GoodHandler

\* Good handlers put together, or offered to some only.
LEMMA GoodTogether ==
    ASSUME NEW p
    PROVE  /\ Good({}, p)
           /\ \A one, other : Good(one, p) /\ Good(other, p) => Good(one \cup other, p)
           /\ \A asks, handlers : Good(handlers, p) => Good(D!Only(asks, handlers), p)
           /\ \A hooks : (\A h \in hooks : Plain(h) /\ Mends(h, p)) => Good(D!Each(hooks), p)
<1>1. ASSUME NEW asks, NEW o, GoodHandler(o, p) PROVE GoodHandler([o EXCEPT !.asks = asks], p)
  <2> DEFINE e == [o EXCEPT !.asks = asks]
  <2>1. DOMAIN o = {"steps", "leaves", "asks"}
    BY <1>1 DEF GoodHandler, HandlerTyped
  <2>2. e.steps = o.steps /\ e.leaves = o.leaves /\ DOMAIN e = DOMAIN o
    BY <2>1
  <2> HIDE DEF e
  <2> QED
    BY <1>1, <2>2 DEF GoodHandler, HandlerTyped
<1>2. \A asks, handlers : Good(handlers, p) => Good(D!Only(asks, handlers), p)
  BY <1>1 DEF Good, D!Only
<1>3. ASSUME NEW h, Plain(h), Mends(h, p) PROVE GoodHandler(D!Handler(<<h>>), p)
  BY <1>3, HandlerFields, OneHook
<1>4. \A hooks : (\A h \in hooks : Plain(h) /\ Mends(h, p)) => Good(D!Each(hooks), p)
  BY <1>3 DEF Good, D!Each
<1> QED
  BY <1>2, <1>4 DEF Good

-----------------------------------------------------------------------------
(* The cache: the handlers of every page are good.                         *)

SimpleHooks ==
    {"useSetProjectQuota", "useDeployWeb", "useCancelDeploy", "useTeardownProject", "useSetupCicd", "useRemoveCicd",
     "useResetDeploymentKey", "useCreateApiKey", "useRevokeApiKey", "useCreateWebhook", "useUpdateWebhook",
     "useDeleteWebhook", "useTestWebhook", "useCreateIncident", "useAddIncidentUpdate", "useDeleteIncident",
     "useSetProjectNotification", "useSetAnyProjectNotification", "useEnablePush", "useDisablePush",
     "useSendTestNotification", "useAddAdmin", "useRemoveAdmin", "useTeamDomainSearch", "useRequestTeamDomain",
     "usePublicIpRefresh"}
PlainHooks ==
    SimpleHooks \cup PatchHooks \cup FollowUps \cup ZoneHooks
    \cup {"useSnapshotNodeStorage", "useSaveNodeConfig", "useCreateNodePortReservation", "useDeleteNodePortReservation",
          "useSetTeamDefaults", "useSetTeamOverride", "useDeleteTeamOverride", "useDeleteDnsRecord"}

\* The hooks named so far are those of the table.
LEMMA HookNames == PlainHooks \cup {"toggleEnabled"} \cup RecordHooks \subseteq DOMAIN D!Mutations
<1> DEFINE table == DOMAIN D!Mutations
<1>1. /\ DOMAIN D!ProjectHooks \subseteq table /\ DOMAIN D!ProjectResourceHooks \subseteq table
      /\ DOMAIN D!NodeAndTeamHooks \subseteq table /\ DOMAIN D!DomainHooks \subseteq table /\ DOMAIN D!Follows \subseteq table
  BY HooksTell
<1> HIDE DEF table
<1>2. (PatchHooks \ {"usePatchProjectCache"})
      \cup {"useSetProjectQuota", "useDeployWeb", "useCancelDeploy", "useTeardownProject", "useSetupCicd", "useRemoveCicd",
            "useResetDeploymentKey"} \subseteq table
  BY <1>1 DEF D!ProjectHooks, PatchHooks
<1>3. {"useCreateApiKey", "useRevokeApiKey", "useCreateWebhook", "useUpdateWebhook", "useDeleteWebhook",
       "useTestWebhook", "toggleEnabled", "useCreateIncident", "useAddIncidentUpdate", "useDeleteIncident",
       "useSetProjectNotification", "useSetAnyProjectNotification", "useEnablePush", "useDisablePush",
       "useSendTestNotification"} \subseteq table
  BY <1>1 DEF D!ProjectResourceHooks
<1>4. {"useSnapshotNodeStorage", "useSaveNodeConfig", "useCreateNodePortReservation", "useDeleteNodePortReservation",
       "useAddAdmin", "useRemoveAdmin", "useSetTeamDefaults", "useSetTeamOverride", "useDeleteTeamOverride"}
      \subseteq table
  BY <1>1 DEF D!NodeAndTeamHooks
<1>5. ZoneHooks \cup RecordHooks \cup {"useTeamDomainSearch", "useRequestTeamDomain", "usePublicIpRefresh"} \subseteq table
  BY <1>1 DEF D!DomainHooks, ZoneHooks, RecordHooks
<1>6. FollowUps \subseteq table
  BY <1>1 DEF D!Follows, FollowUps
<1>7. SimpleHooks \subseteq table
  BY <1>2, <1>3, <1>4, <1>5 DEF SimpleHooks
<1>8. PatchHooks \subseteq table
  BY <1>2, <1>6 DEF PatchHooks, FollowUps
<1>9. PlainHooks \subseteq table
  BY <1>4, <1>5, <1>6, <1>7, <1>8 DEF PlainHooks, RecordHooks
<1> QED
  BY <1>3, <1>5, <1>9 DEF table

\* Which hooks ask, and which mend, and where.
LEMMA HooksMend ==
    /\ \A h \in DOMAIN D!Mutations : D!Posts(h) <=> h \notin FollowUps
    /\ \A h \in PlainHooks : Plain(h)
    /\ \A p : \A h \in SimpleHooks \cup FollowUps : Plain(h) /\ Mends(h, p)
    /\ \A h \in SimpleHooks : h \notin FollowUps
    /\ \A p : \A h \in PatchHooks \cup {"useSnapshotNodeStorage"} : p # "ProjectDeployPage" => Plain(h) /\ Mends(h, p)
    /\ \A p : \A h \in PlainHooks : Missed(h) \cap D!Mounted(p) = {} /\ p # "ProjectDeployPage" => Plain(h) /\ Mends(h, p)
<1>1. \A h \in DOMAIN D!Mutations : D!Posts(h) <=> h \notin FollowUps
  BY HooksTell DEF Tells, D!Posts
<1>2. \A h \in PlainHooks : Plain(h)
  <2>1. PlainHooks \subseteq DOMAIN D!Mutations
    BY HookNames
  <2>2. {"toggleEnabled", "useCreateDnsRecord", "useUpdateDnsRecord"} \cap PlainHooks = {}
    BY DEF PlainHooks, SimpleHooks, PatchHooks, FollowUps, ZoneHooks
  <2> QED
    BY <2>1, <2>2 DEF Plain
<1>3. \A h \in SimpleHooks : Missed(h) = {} /\ PatchedBy(h) = {} /\ h \notin FollowUps
  BY DEF SimpleHooks, Missed, PatchedBy, PatchHooks, ZoneHooks, RecordHooks, FollowUps
<1>4. \A h \in PatchHooks \cup {"useSnapshotNodeStorage"} : Missed(h) = {}
  BY DEF Missed, PatchHooks, ZoneHooks, RecordHooks
<1>5. SimpleHooks \cup FollowUps \cup PatchHooks \cup {"useSnapshotNodeStorage"} \subseteq PlainHooks
  BY DEF PlainHooks
<1>6. PlainHooks \subseteq DOMAIN D!Mutations
  BY HookNames
<1> QED
  BY <1>1, <1>2, <1>3, <1>4, <1>5, <1>6 DEF Mends

\* The offers of a page.
LEMMA PageFields ==
    \A frame, mounts, seeds, offers :
        LET p == D!Page(frame, mounts, seeds, offers) IN
        p.frame = frame /\ p.mounts = mounts /\ p.seeds = seeds /\ p.offers = offers
BY DEF D!Page

\* Handlers of simple hooks are good anywhere; the bell is.
LEMMA SimpleIsGood ==
    ASSUME NEW p
    PROVE  /\ \A hooks \in SUBSET SimpleHooks : Good(D!Each(hooks), p)
           /\ Good(D!NotificationBell, p)
<1>1. \A hooks \in SUBSET SimpleHooks : Good(D!Each(hooks), p)
  <2>1. \A hooks \in SUBSET SimpleHooks : \A h \in hooks : Plain(h) /\ Mends(h, p)
    BY HooksMend
  <2> QED
    BY <2>1, GoodTogether
<1>2. {"useSetProjectNotification"} \in SUBSET SimpleHooks
  BY DEF SimpleHooks
<1> QED
  BY <1>1, <1>2 DEF D!NotificationBell

\* A project is created from pages where its list is patched.
LEMMA LayoutIsGood ==
    ASSUME NEW p, p # "ProjectDeployPage" PROVE Good(D!Layout, p)
<1> DEFINE o == D!Leaving(<<"useCreateProject", "refreshMe">>, "ProjectPage")
<1>1. {"useCreateProject", "refreshMe"} \subseteq DOMAIN D!Mutations /\ D!Posts("useCreateProject")
      /\ Plain("useCreateProject") /\ Plain("refreshMe") /\ Mends("useCreateProject", p) /\ Mends("refreshMe", p)
  <2>1. "useCreateProject" \in PatchHooks \cap PlainHooks /\ "refreshMe" \in FollowUps \cap PlainHooks
        /\ "useCreateProject" \notin FollowUps
    BY DEF PatchHooks, FollowUps, PlainHooks
  <2>2. PlainHooks \subseteq DOMAIN D!Mutations
    BY HookNames
  <2> QED
    BY <2>1, <2>2, HooksMend
<1>2. PatchedBy("refreshMe") = {}
  BY DEF PatchedBy, PatchHooks
<1>3. "ProjectPage" \in DOMAIN D!Pages
  BY DEF D!Pages
<1>4. GoodHandler(o, p)
  BY <1>1, <1>2, <1>3, TwoHooks, HandlerFields
<1> HIDE DEF o
<1>5. Good({o}, p)
  BY <1>4 DEF Good
<1> QED
  BY <1>5, GoodTogether DEF D!Layout, o

\* Pages whose handlers are simple, or create projects.
LEMMA SimplePagesAreGood ==
    \A p \in {"TeamHomePage", "EmptyTeamPage", "SettingsPage", "ProjectPage", "MonitoringLogsPage", "MonitoringMetricsPage",
              "MonitoringStatusPage", "MonitoringIncidentsPage", "MonitoringFilesPage", "NodesPage", "NodeOverviewPage",
              "NsmLogsPage", "UserManagementPage"} : Good(D!Pages[p].offers, p)
<1>1. \A p \in {"ProjectPage", "MonitoringLogsPage", "MonitoringMetricsPage", "MonitoringStatusPage", "MonitoringFilesPage"} :
          D!Pages[p].offers = D!NotificationBell
  BY PageFields DEF D!Pages, D!ProjectPage, D!MonitoringLogsPage, D!MonitoringMetricsPage, D!MonitoringStatusPage,
     D!FileExplorer
<1>2. \A p \in {"NodeOverviewPage", "NsmLogsPage"} : D!Pages[p].offers = {}
  BY PageFields DEF D!Pages, D!NodeOverviewPage, D!NsmLogsPage
<1>3. \A p \in {"TeamHomePage", "EmptyTeamPage"} : D!Pages[p].offers = D!Layout
  BY PageFields DEF D!Pages, D!TeamHomePage, D!EmptyTeamPage
<1>4. Good(D!Pages["SettingsPage"].offers, "SettingsPage")
  <2> DEFINE hooks == {"useEnablePush", "useDisablePush", "useSetAnyProjectNotification", "useSendTestNotification"}
  <2>1. hooks \in SUBSET SimpleHooks
    BY DEF SimpleHooks
  <2>2. D!Pages["SettingsPage"].offers = D!Each(hooks) \cup D!Layout
    BY PageFields DEF D!Pages, D!SettingsPage
  <2> HIDE DEF hooks
  <2>3. Good(D!Each(hooks), "SettingsPage") /\ Good(D!Layout, "SettingsPage")
    BY <2>1, SimpleIsGood, LayoutIsGood
  <2> QED
    BY <2>2, <2>3, GoodTogether
<1>5. Good(D!Pages["MonitoringIncidentsPage"].offers, "MonitoringIncidentsPage")
  <2> DEFINE hooks == {"useCreateIncident", "useAddIncidentUpdate", "useDeleteIncident"}
  <2>1. hooks \in SUBSET SimpleHooks
    BY DEF SimpleHooks
  <2>2. D!Pages["MonitoringIncidentsPage"].offers = D!Only("manage_incidents", D!Each(hooks)) \cup D!NotificationBell
    BY PageFields DEF D!Pages, D!IncidentSection
  <2> HIDE DEF hooks
  <2>3. Good(D!Each(hooks), "MonitoringIncidentsPage")
    BY <2>1, SimpleIsGood
  <2>4. Good(D!Only("manage_incidents", D!Each(hooks)), "MonitoringIncidentsPage")
    BY <2>3, GoodTogether
  <2>5. Good(D!NotificationBell, "MonitoringIncidentsPage")
    BY SimpleIsGood
  <2> QED
    BY <2>2, <2>4, <2>5, GoodTogether
<1>6. Good(D!Pages["NodesPage"].offers, "NodesPage")
  <2>1. {"usePublicIpRefresh"} \in SUBSET SimpleHooks
    BY DEF SimpleHooks
  <2>2. D!Pages["NodesPage"].offers = D!Each({"usePublicIpRefresh"})
    BY PageFields DEF D!Pages, D!NodesPage
  <2> QED
    BY <2>1, <2>2, SimpleIsGood
<1>7. Good(D!Pages["UserManagementPage"].offers, "UserManagementPage")
  <2> DEFINE hooks == {"useAddAdmin", "useRemoveAdmin"}
  <2>1. hooks \in SUBSET SimpleHooks
    BY DEF SimpleHooks
  <2>2. D!Pages["UserManagementPage"].offers = D!Only("super", D!Each(hooks))
    BY PageFields DEF D!Pages, D!UserManagementPage
  <2> HIDE DEF hooks
  <2>3. Good(D!Each(hooks), "UserManagementPage")
    BY <2>1, SimpleIsGood
  <2>4. Good(D!Only("super", D!Each(hooks)), "UserManagementPage")
    BY <2>3, GoodTogether
  <2> QED
    BY <2>2, <2>4
<1>8. \A p \in {"ProjectPage", "MonitoringLogsPage", "MonitoringMetricsPage", "MonitoringStatusPage", "MonitoringFilesPage"} :
          Good(D!Pages[p].offers, p)
  BY <1>1, SimpleIsGood
<1>9. \A p \in {"NodeOverviewPage", "NsmLogsPage"} : Good(D!Pages[p].offers, p)
  BY <1>2 DEF Good
<1>10. \A p \in {"TeamHomePage", "EmptyTeamPage"} : Good(D!Pages[p].offers, p)
  BY <1>3, LayoutIsGood
<1> QED
  BY <1>4, <1>5, <1>6, <1>7, <1>8, <1>9, <1>10

\* The page of a deployment, where every hook fetches the list again.
LEMMA DeployPageIsGood == Good(D!Pages["ProjectDeployPage"].offers, "ProjectDeployPage")
<1> DEFINE page_ == "ProjectDeployPage"
           deploy == D!Handler(<<"useDeployWeb", "usePatchProjectCache", "refreshProjects">>)
           teardown == D!Handler(<<"useTeardownProject", "usePatchProjectCache">>)
           cancel == D!Handler(<<"useCancelDeploy">>)
<1>1. D!Pages[page_].offers = {deploy, teardown, cancel} \cup D!NotificationBell /\ "projects" \in D!Mounted(page_)
  BY PageFields DEF D!Pages, D!ProjectDeployPage, D!Mounted
<1>2. /\ {"useDeployWeb", "useTeardownProject", "useCancelDeploy"} \subseteq SimpleHooks
      /\ {"usePatchProjectCache", "refreshProjects"} \subseteq FollowUps
  BY DEF SimpleHooks, FollowUps
<1>3. SimpleHooks \cup FollowUps \subseteq DOMAIN D!Mutations
  BY HookNames DEF PlainHooks
<1>4. PatchedBy("usePatchProjectCache") = {"projects"} /\ PatchedBy("refreshProjects") = {} /\ PatchedBy("useDeployWeb") = {}
  BY DEF PatchedBy, PatchHooks
<1>5. \A h \in {"useDeployWeb", "useTeardownProject", "useCancelDeploy", "usePatchProjectCache", "refreshProjects"} :
          Plain(h) /\ Mends(h, page_)
  BY <1>2, HooksMend
<1>6. D!Posts("useDeployWeb") /\ D!Posts("useTeardownProject") /\ ~D!Posts("usePatchProjectCache") /\ ~D!Posts("refreshProjects")
  BY <1>2, <1>3, HooksMend
<1> HIDE DEF page_
<1>7. GoodHandler(deploy, page_)
  <2>1. deploy.steps = <<"useDeployWeb", "usePatchProjectCache", "refreshProjects">> /\ deploy.leaves = "none"
        /\ DOMAIN deploy = {"steps", "leaves", "asks"}
    BY HandlerFields
  <2> HIDE DEF deploy
  <2>2. HandlerTyped(deploy)
    BY <1>2, <1>3, <2>1 DEF HandlerTyped
  <2>3. PostsFirst(deploy.steps)
    BY <1>6, <2>1 DEF PostsFirst
  <2>4. Elems(deploy.steps) = {"useDeployWeb", "usePatchProjectCache", "refreshProjects"} /\ deploy.steps[1] = "useDeployWeb"
    BY <2>1 DEF Elems
  <2> QED
    BY <1>1, <1>4, <1>5, <2>2, <2>3, <2>4, PlainHandlers
<1>8. GoodHandler(teardown, page_)
  BY <1>1, <1>4, <1>5, <1>6, HandlerFields, TwoHooks
<1>9. GoodHandler(cancel, page_)
  BY <1>5, HandlerFields, OneHook
<1> HIDE DEF deploy, teardown, cancel
<1>10. Good({deploy, teardown, cancel}, page_)
  BY <1>7, <1>8, <1>9 DEF Good
<1>11. Good(D!NotificationBell, page_)
  BY SimpleIsGood
<1> QED
  BY <1>1, <1>10, <1>11, GoodTogether DEF page_

ConfigPages ==
    {"ConfigProjectPage", "ConfigRoutingPage", "ConfigSystemPage", "ConfigResourcesPage", "ConfigKeysPage",
     "ConfigWebhooksPage", "ConfigContinuousDeploymentPage"}

\* A page of the configuration is good when what it adds to the layout's Save is.
LEMMA ConfigIsGood ==
    ASSUME NEW p, p # "ProjectDeployPage", NEW mounts, NEW offers, D!Pages[p] = D!Config(mounts, offers)
    PROVE  /\ "projects" \in D!Mounted(p) /\ mounts \subseteq D!Mounted(p)
           /\ Good(offers, p) => Good(D!Pages[p].offers, p)
<1> DEFINE save == D!Handler(<<"saveChanges", "useUpdateSecrets">>)
<1>1. /\ D!Pages[p].frame = "config" /\ D!Pages[p].mounts = mounts
      /\ D!Pages[p].offers = offers \cup {save} \cup D!NotificationBell
  BY PageFields DEF D!Config
<1>2. "projects" \in D!Frames["config"]
  BY DEF D!Frames, D!ProjectConfigLayout
<1>3. "projects" \in D!Mounted(p) /\ mounts \subseteq D!Mounted(p)
  BY <1>1, <1>2 DEF D!Mounted
<1>4. /\ {"saveChanges", "useUpdateSecrets"} \subseteq PatchHooks \cap PlainHooks /\ "saveChanges" \notin FollowUps
      /\ PatchedBy("useUpdateSecrets") = {"projects"}
  BY DEF PatchHooks, PlainHooks, FollowUps, PatchedBy
<1>5. \A h \in {"saveChanges", "useUpdateSecrets"} : Plain(h) /\ Mends(h, p)
  BY <1>4, HooksMend
<1>6. D!Posts("saveChanges")
  BY <1>4, HookNames, HooksMend
<1>7. GoodHandler(save, p)
  BY <1>3, <1>4, <1>5, <1>6, HandlerFields, TwoHooks
<1> HIDE DEF save
<1>8. Good({save}, p) /\ Good(D!NotificationBell, p)
  BY <1>7, SimpleIsGood DEF Good
<1>9. ASSUME Good(offers, p) PROVE Good(D!Pages[p].offers, p)
  <2>1. Good(offers \cup {save}, p)
    BY <1>8, <1>9, GoodTogether
  <2> QED
    BY <1>1, <1>8, <2>1, GoodTogether
<1> QED
  BY <1>3, <1>9

\* What the pages of the configuration add is.
LEMMA ConfigPagesAreGood == \A p \in ConfigPages : Good(D!Pages[p].offers, p)
<1>0. \A p \in ConfigPages : p # "ProjectDeployPage"
  BY DEF ConfigPages
<1>1. \A h \in PatchHooks : \A p \in ConfigPages : Plain(h) /\ Mends(h, p)
  BY <1>0, HooksMend
<1>2. \A p \in ConfigPages : \A hooks \in SUBSET PatchHooks : Good(D!Each(hooks), p)
  BY <1>1, GoodTogether
<1>3. Good(D!Pages["ConfigProjectPage"].offers, "ConfigProjectPage")
  <2> DEFINE page_ == "ConfigProjectPage"
             delete == D!Leaving(<<"useDeleteProject">>, "TeamHomePage")
             offers == D!Each({"useSetProjectAssignment"}) \cup D!Only("delete", {delete})
  <2>1. {"useSetProjectAssignment"} \in SUBSET PatchHooks /\ "useDeleteProject" \in PatchHooks /\ page_ \in ConfigPages
        /\ "TeamHomePage" \in DOMAIN D!Pages
    BY DEF PatchHooks, ConfigPages, D!Pages
  <2>2. D!Pages[page_] = D!Config(D!cluster, offers)
    BY DEF D!Pages, D!ConfigProjectPage
  <2> HIDE DEF page_
  <2>3. Good(D!Each({"useSetProjectAssignment"}), page_)
    BY <1>2, <2>1
  <2>4. GoodHandler(delete, page_)
    BY <1>1, <2>1, HandlerFields, OneHook
  <2> HIDE DEF delete
  <2>5. Good({delete}, page_)
    BY <2>4 DEF Good
  <2>6. Good(D!Only("delete", {delete}), page_)
    BY <2>5, GoodTogether
  <2>7. Good(offers, page_)
    BY <2>3, <2>6, GoodTogether
  <2> HIDE DEF offers
  <2> QED
    BY <1>0, <2>1, <2>2, <2>7, ConfigIsGood DEF page_
<1>4. Good(D!Pages["ConfigRoutingPage"].offers, "ConfigRoutingPage")
  <2>1. D!Pages["ConfigRoutingPage"] = D!Config({"projectDomains"}, {})
    BY DEF D!Pages, D!ConfigRoutingPage
  <2> QED
    BY <2>1, ConfigIsGood, GoodTogether
<1>5. Good(D!Pages["ConfigSystemPage"].offers, "ConfigSystemPage")
  <2>1. D!Pages["ConfigSystemPage"] = D!Config({}, D!Each({"useSyncProjectToRepo"}))
    BY DEF D!Pages, D!ConfigSystemPage
  <2>2. {"useSyncProjectToRepo"} \in SUBSET PatchHooks /\ "ConfigSystemPage" \in ConfigPages
    BY DEF PatchHooks, ConfigPages
  <2> QED
    BY <1>0, <1>2, <2>1, <2>2, ConfigIsGood
<1>6. Good(D!Pages["ConfigResourcesPage"].offers, "ConfigResourcesPage")
  <2> DEFINE page_ == "ConfigResourcesPage"
             quota == D!Handler(<<"useSetProjectQuota", "refreshProjects">>)
  <2>1. D!Pages[page_] = D!Config({"projects"}, D!Only("admin", {quota})) /\ page_ \in ConfigPages
    BY DEF D!Pages, D!ConfigResourcesPage, ConfigPages
  <2>2. /\ "useSetProjectQuota" \in SimpleHooks /\ "refreshProjects" \in FollowUps
        /\ "useSetProjectQuota" \in PlainHooks /\ "refreshProjects" \in PlainHooks
        /\ PatchedBy("refreshProjects") = {}
    BY DEF SimpleHooks, FollowUps, PlainHooks, PatchedBy, PatchHooks
  <2> HIDE DEF page_
  <2>3. /\ Plain("useSetProjectQuota") /\ Mends("useSetProjectQuota", page_) /\ D!Posts("useSetProjectQuota")
        /\ Plain("refreshProjects") /\ Mends("refreshProjects", page_)
    BY <2>2, HooksMend, HookNames
  <2>4. GoodHandler(quota, page_)
    BY <2>2, <2>3, HandlerFields, TwoHooks
  <2> HIDE DEF quota
  <2>5. Good({quota}, page_)
    BY <2>4 DEF Good
  <2>6. Good(D!Only("admin", {quota}), page_)
    BY <2>5, GoodTogether
  <2> QED
    BY <1>0, <2>1, <2>6, ConfigIsGood DEF page_
<1>7. Good(D!Pages["ConfigKeysPage"].offers, "ConfigKeysPage")
  <2> DEFINE page_ == "ConfigKeysPage"
             first == D!Each({"useResetDeploymentKey", "useUpdateProject"})
             card == D!Each({"useCreateApiKey", "useRevokeApiKey"})
  <2>1. D!Pages[page_] = D!Config({"projectApiKeys"}, first \cup D!Only("configure", card)) /\ page_ \in ConfigPages
    BY DEF D!Pages, D!ConfigKeysPage, D!ApiKeysCard, ConfigPages
  <2>2. "useResetDeploymentKey" \in SimpleHooks /\ {"useCreateApiKey", "useRevokeApiKey"} \in SUBSET SimpleHooks
        /\ "useUpdateProject" \in PatchHooks
    BY DEF SimpleHooks, PatchHooks
  <2> HIDE DEF page_
  <2>3. \A h \in {"useResetDeploymentKey", "useUpdateProject"} : Plain(h) /\ Mends(h, page_)
    BY <1>1, <2>1, <2>2, HooksMend
  <2>4. Good(first, page_)
    BY <2>3, GoodTogether
  <2>5. Good(card, page_)
    BY <2>2, SimpleIsGood
  <2> HIDE DEF first, card
  <2>6. Good(D!Only("configure", card), page_)
    BY <2>5, GoodTogether
  <2>7. Good(first \cup D!Only("configure", card), page_)
    BY <2>4, <2>6, GoodTogether
  <2> QED
    BY <1>0, <2>1, <2>7, ConfigIsGood DEF page_
<1>8. Good(D!Pages["ConfigWebhooksPage"].offers, "ConfigWebhooksPage")
  <2> DEFINE page_ == "ConfigWebhooksPage"
             hooks == {"useCreateWebhook", "useUpdateWebhook", "useDeleteWebhook", "useTestWebhook"}
             flip == D!Handler(<<"toggleEnabled">>)
  <2>1. D!Pages[page_] = D!Config({"projectWebhooks"}, D!Each(hooks \cup {"toggleEnabled"})) /\ page_ \in ConfigPages
    BY DEF D!Pages, D!WebhooksSection, ConfigPages
  <2>2. hooks \in SUBSET SimpleHooks
    BY DEF SimpleHooks
  <2> HIDE DEF page_, hooks
  <2>3. Good(D!Each(hooks), page_)
    BY <2>2, SimpleIsGood
  <2>4. "projectWebhooks" \in D!Mounted(page_)
    BY <1>0, <2>1, ConfigIsGood
  <2>5. GoodHandler(flip, page_)
    <3> DEFINE m == D!Mutations["toggleEnabled"]
    <3>1. "toggleEnabled" \in DOMAIN D!Mutations
      BY HookNames
    <3>2. flip.steps = <<"toggleEnabled">> /\ flip.leaves = "none" /\ DOMAIN flip = {"steps", "leaves", "asks"}
      BY HandlerFields
    <3> HIDE DEF flip
    <3>3. HandlerTyped(flip) /\ PostsFirst(flip.steps) /\ Elems(flip.steps) = {"toggleEnabled"}
          /\ flip.steps[1] = "toggleEnabled"
      BY <3>1, <3>2 DEF HandlerTyped, PostsFirst, Elems
    <3>4. m.patches = {} /\ m.writes = {"webhooks"} /\ m.invalidates = {"projectWebhooks"}
      BY <3>1, HooksTell DEF Tells, PatchedBy, PatchHooks
    <3>5. Harmless({"toggleEnabled"})
      BY <3>4 DEF Harmless
    <3>6. \A k \in D!QueryKeys : D!Concerns("toggleEnabled", k) => k = "projectWebhooks"
      BY <3>4, WebhookReaders DEF D!Concerns, D!Touches
    <3>7. \A k \in D!QueryKeys : D!Touches("toggleEnabled", k) => Repairs("toggleEnabled", k, page_)
      BY <3>4, <3>6 DEF D!Concerns, Repairs
    <3> HIDE DEF m
    <3> QED
      BY <2>4, <3>3, <3>4, <3>5, <3>6, <3>7 DEF GoodHandler, m
  <2> HIDE DEF flip
  <2>6. D!Each(hooks \cup {"toggleEnabled"}) = D!Each(hooks) \cup {flip}
    BY DEF D!Each, flip
  <2>7. Good({flip}, page_)
    BY <2>5 DEF Good
  <2>8. Good(D!Each(hooks) \cup {flip}, page_)
    BY <2>3, <2>7, GoodTogether
  <2> QED
    BY <1>0, <2>1, <2>6, <2>8, ConfigIsGood DEF page_
<1>9. Good(D!Pages["ConfigContinuousDeploymentPage"].offers, "ConfigContinuousDeploymentPage")
  <2> DEFINE page_ == "ConfigContinuousDeploymentPage"
             setup == D!Handler(<<"useSetupCicd", "usePatchProjectCache">>)
             remove == D!Handler(<<"useRemoveCicd", "usePatchProjectCache">>)
  <2>1. D!Pages[page_] = D!Config({"githubBranches"}, {setup, remove}) /\ page_ \in ConfigPages
    BY DEF D!Pages, D!ConfigContinuousDeploymentPage, ConfigPages
  <2>2. /\ {"useSetupCicd", "useRemoveCicd"} \subseteq SimpleHooks \cap PlainHooks
        /\ "usePatchProjectCache" \in FollowUps \cap PlainHooks /\ PatchedBy("usePatchProjectCache") = {"projects"}
    BY DEF SimpleHooks, PlainHooks, FollowUps, PatchedBy, PatchHooks
  <2> HIDE DEF page_
  <2>3. "projects" \in D!Mounted(page_)
    BY <1>0, <2>1, ConfigIsGood
  <2>4. \A h \in {"useSetupCicd", "useRemoveCicd", "usePatchProjectCache"} : Plain(h) /\ Mends(h, page_)
    BY <2>2, HooksMend
  <2>5. D!Posts("useSetupCicd") /\ D!Posts("useRemoveCicd")
    BY <2>2, HooksMend, HookNames
  <2>6. GoodHandler(setup, page_) /\ GoodHandler(remove, page_)
    BY <2>2, <2>3, <2>4, <2>5, HandlerFields, TwoHooks
  <2> HIDE DEF setup, remove
  <2>7. Good({setup, remove}, page_)
    BY <2>6 DEF Good
  <2> QED
    BY <1>0, <2>1, <2>7, ConfigIsGood DEF page_
<1> QED
  BY <1>3, <1>4, <1>5, <1>6, <1>7, <1>8, <1>9 DEF ConfigPages


\* The pages of nodes: the editor of a node's environment closes when it has saved.
LEMMA NodePagesAreGood ==
    \A p \in {"NodeStoragePage", "NodeConfigPage", "NodeConfigModal"} : Good(D!Pages[p].offers, p)
<1>1. Good(D!Pages["NodeStoragePage"].offers, "NodeStoragePage")
  <2>1. D!Pages["NodeStoragePage"].offers = D!Each({"useSnapshotNodeStorage"})
    BY PageFields DEF D!Pages, D!NodeStoragePage
  <2>2. \A h \in {"useSnapshotNodeStorage"} : Plain(h) /\ Mends(h, "NodeStoragePage")
    BY HooksMend
  <2> QED
    BY <2>1, <2>2, GoodTogether
<1>2. Good(D!Pages["NodeConfigPage"].offers, "NodeConfigPage")
  <2> DEFINE hooks == {"useCreateNodePortReservation", "useDeleteNodePortReservation"}
  <2>1. D!Pages["NodeConfigPage"].offers = D!Each(hooks)
    BY PageFields DEF D!Pages, D!NodeConfigPage
  <2>2. D!Mounted("NodeConfigPage") = {"nodePortReservations", "projects", "workerNodes", "controlPlaneStatus", "me"}
    BY PageFields DEF D!Mounted, D!Pages, D!NodeConfigPage, D!cluster, D!Frames, D!NodeDetailLayout
  <2>3. hooks \subseteq PlainHooks /\ \A h \in hooks : Missed(h) = {"teamPortReservations", "projectPortReservations"}
    BY DEF PlainHooks, Missed
  <2>4. \A h \in hooks : Missed(h) \cap D!Mounted("NodeConfigPage") = {}
    BY <2>2, <2>3
  <2> HIDE DEF hooks
  <2>5. \A h \in hooks : Plain(h) /\ Mends(h, "NodeConfigPage")
    BY <2>3, <2>4, HooksMend
  <2> QED
    BY <2>1, <2>5, GoodTogether
<1>3. Good(D!Pages["NodeConfigModal"].offers, "NodeConfigModal")
  <2> DEFINE h == "useSaveNodeConfig"
             save == D!Leaving(<<h>>, "NodeConfigPage")
  <2>1. D!Pages["NodeConfigModal"].offers = {save}
    BY PageFields DEF D!Pages, D!NodeConfigModal
  <2>2. /\ save.steps = <<h>> /\ save.leaves = "NodeConfigPage"
        /\ DOMAIN save = {"steps", "leaves", "asks"}
    BY HandlerFields
  <2>3. h \in PlainHooks /\ PatchedBy(h) = {} /\ "NodeConfigPage" \in DOMAIN D!Pages
    BY DEF PlainHooks, PatchedBy, PatchHooks, D!Pages
  <2> HIDE DEF save, h
  <2>4. h \in DOMAIN D!Mutations /\ Plain(h)
    BY <2>3, HookNames, HooksMend
  <2>5. /\ HandlerTyped(save) /\ PostsFirst(save.steps) /\ Elems(save.steps) = {h} /\ save.steps[1] = h
        /\ Len(save.steps) = 1 /\ save.leaves # "none"
    <3>1. "NodeConfigPage" # "none"
      OBVIOUS
    <3> QED
      BY <2>2, <2>3, <2>4, <3>1 DEF HandlerTyped, PostsFirst, Elems
  <2>6. ~D!Mutations[h].flips /\ D!Mutations[h].patches = {}
    BY <2>3, <2>4, HooksTell DEF Tells, Plain
  <2>7. Harmless({h})
    BY <2>6 DEF Harmless
  <2>8. GoodHandler(save, "NodeConfigModal")
    BY <2>5, <2>6, <2>7 DEF GoodHandler
  <2> QED
    BY <2>1, <2>8 DEF Good
<1> QED
  BY <1>1, <1>2, <1>3

\* The pages of a team and its domains, where no domain of a project is shown.
LEMMA TeamPagesAreGood ==
    \A p \in {"TeamDetailPage", "TeamDomainsPage"} : Good(D!Pages[p].offers, p)
<1>1. Good(D!Pages["TeamDetailPage"].offers, "TeamDetailPage")
  <2> DEFINE page_ == "TeamDetailPage"
             hooks == {"useSetTeamDefaults", "useSetTeamOverride", "useDeleteTeamOverride"}
  <2>1. D!Pages[page_].offers = D!Only("manage", D!Each(hooks))
    BY PageFields DEF D!Pages, D!TeamDetailPage
  <2>2. D!Mounted(page_) = {"team", "me"}
    BY PageFields DEF D!Mounted, D!Pages, D!TeamDetailPage, D!Frames
  <2>3. hooks \subseteq PlainHooks /\ (\A h \in hooks : Missed(h) = {"teams"}) /\ page_ # "ProjectDeployPage"
    BY DEF PlainHooks, Missed
  <2>4. \A h \in hooks : Missed(h) \cap D!Mounted(page_) = {}
    BY <2>2, <2>3
  <2> HIDE DEF hooks, page_
  <2>5. \A h \in hooks : Plain(h) /\ Mends(h, page_)
    BY <2>3, <2>4, HooksMend
  <2>6. Good(D!Each(hooks), page_)
    BY <2>5, GoodTogether
  <2>7. Good(D!Only("manage", D!Each(hooks)), page_)
    BY <2>6, GoodTogether
  <2> QED
    BY <2>1, <2>7 DEF page_
<1>2. Good(D!Pages["TeamDomainsPage"].offers, "TeamDomainsPage")
  <2> DEFINE page_ == "TeamDomainsPage"
             zones == {"useBuyTeamDomain", "useDecideTeamDomainRequest", "useTeamCloudflareSync"}
             settings == {"useSaveTeamRegistrar", "useRemoveTeamRegistrar"}
             search == {"useTeamDomainSearch"}
             ask == {"useRequestTeamDomain"}
  <2>1. D!Pages[page_].offers = D!Each(search) \cup D!Only("create_project", D!Each(ask))
                                \cup D!Only("manage", D!Each(zones)) \cup D!Only("manage", D!Each(settings))
    BY PageFields DEF D!Pages, D!TeamDomains, D!TeamRegistrarSettings
  <2>2. "projectDomains" \notin D!Mounted(page_)
    BY PageFields DEF D!Mounted, D!Pages, D!TeamDomains, D!Frames
  <2>3. /\ zones \cup settings \subseteq PlainHooks /\ (\A h \in zones \cup settings : Missed(h) = {"projectDomains"})
        /\ search \in SUBSET SimpleHooks /\ ask \in SUBSET SimpleHooks /\ page_ # "ProjectDeployPage"
    BY DEF PlainHooks, Missed, ZoneHooks, SimpleHooks
  <2> HIDE DEF zones, settings, search, ask, page_
  <2>4. \A h \in zones \cup settings : Plain(h) /\ Mends(h, page_)
    BY <2>2, <2>3, HooksMend
  <2>5. Good(D!Each(zones), page_) /\ Good(D!Each(settings), page_)
    BY <2>4, GoodTogether
  <2>6. Good(D!Each(search), page_) /\ Good(D!Each(ask), page_)
    BY <2>3, SimpleIsGood
  <2>7. /\ Good(D!Only("create_project", D!Each(ask)), page_) /\ Good(D!Only("manage", D!Each(zones)), page_)
        /\ Good(D!Only("manage", D!Each(settings)), page_)
    BY <2>5, <2>6, GoodTogether
  <2>8. Good(D!Each(search) \cup D!Only("create_project", D!Each(ask)), page_)
    BY <2>6, <2>7, GoodTogether
  <2>9. Good(D!Each(search) \cup D!Only("create_project", D!Each(ask)) \cup D!Only("manage", D!Each(zones)), page_)
    BY <2>7, <2>8, GoodTogether
  <2>10. Good(D!Pages[page_].offers, page_)
    BY <2>1, <2>7, <2>9, GoodTogether
  <2> QED
    BY <2>10 DEF page_
<1> QED
  BY <1>1, <1>2

\* The page of a domain: what saveAll writes is fetched when it has written it all.
LEMMA DomainPageIsGood == Good(D!Pages["DomainDetailPage"].offers, "DomainDetailPage")
<1> DEFINE page_ == "DomainDetailPage"
           all == <<"useDeleteDnsRecord", "useUpdateDnsRecord", "useCreateDnsRecord", "refetchRecords", "refetchDomains">>
           delete == D!Leaving(<<"useDeleteDomain", "refetchDomains">>, "TeamDetailPage")
<1>1. D!saveAll.steps = all /\ D!saveAll.leaves = "none" /\ DOMAIN D!saveAll = {"steps", "leaves", "asks"}
  BY HandlerFields DEF D!saveAll
<1>2. D!Pages[page_].offers = D!Only("manage", {D!saveAll, delete})
  BY PageFields DEF D!Pages, D!DomainDetailPage
<1>3. "projectDomains" \notin D!Mounted(page_)
  BY PageFields DEF D!Mounted, D!Pages, D!DomainDetailPage, D!Frames
<1>4. /\ {"useDeleteDomain", "refetchDomains"} \subseteq PlainHooks /\ "useDeleteDomain" \notin FollowUps
      /\ Missed("useDeleteDomain") = {"projectDomains"} /\ Missed("refetchDomains") = {}
      /\ PatchedBy("refetchDomains") = {} /\ "TeamDetailPage" \in DOMAIN D!Pages /\ page_ # "ProjectDeployPage"
  BY DEF PlainHooks, FollowUps, Missed, ZoneHooks, RecordHooks, PatchedBy, PatchHooks, D!Pages
<1>5. GoodHandler(delete, page_)
  <2>1. \A h \in {"useDeleteDomain", "refetchDomains"} : Plain(h) /\ Mends(h, page_)
    BY <1>3, <1>4, HooksMend
  <2>2. D!Posts("useDeleteDomain")
    BY <1>4, HookNames, HooksMend
  <2> HIDE DEF page_
  <2> QED
    BY <1>4, <2>1, <2>2, HandlerFields, TwoHooks
<1>6. /\ RecordHooks \cup {"refetchRecords", "refetchDomains"} \subseteq DOMAIN D!Mutations
      /\ \A h \in RecordHooks : D!Posts(h) /\ h \in D!Unheeded
      /\ ~D!Posts("refetchRecords") /\ ~D!Posts("refetchDomains")
  <2>1. {"refetchRecords", "refetchDomains"} \subseteq FollowUps \cap PlainHooks /\ RecordHooks \cap FollowUps = {}
    BY DEF FollowUps, PlainHooks, RecordHooks
  <2>2. RecordHooks \cup {"refetchRecords", "refetchDomains"} \subseteq DOMAIN D!Mutations
    BY <2>1, HookNames
  <2>3. "useDeleteDnsRecord" \in DOMAIN D!Mutations /\ ~D!Mutations["useDeleteDnsRecord"].checked
    BY <2>2, HooksTell DEF Tells, RecordHooks
  <2>4. RecordHooks \subseteq D!Unheeded
    BY <2>3 DEF D!Unheeded, RecordHooks
  <2> QED
    BY <2>1, <2>2, <2>4, HooksMend
<1>7. Elems(all) = RecordHooks \cup {"refetchRecords", "refetchDomains"}
  BY DEF Elems, RecordHooks
<1>8. all \in Seq(DOMAIN D!Mutations) /\ Len(all) = 5 /\ PostsFirst(all)
  <2>1. all \in Seq(DOMAIN D!Mutations) /\ Len(all) = 5
    BY <1>6 DEF RecordHooks
  <2>2. \A n \in DOMAIN all : D!Posts(all[n]) <=> n <= 3
    BY <1>6 DEF RecordHooks
  <2> HIDE DEF all
  <2>3. PostsFirst(all)
    BY <2>1, <2>2 DEF PostsFirst
  <2> QED
    BY <2>1, <2>3
<1>9. \A h \in Elems(all) : D!Mutations[h].patches = {} /\ ~D!Mutations[h].flips
  <2>1. \A h \in Elems(all) : PatchedBy(h) = {} /\ h # "toggleEnabled"
    BY <1>7 DEF PatchedBy, PatchHooks, RecordHooks
  <2> DEFINE hooks == Elems(all)
  <2>2. hooks \subseteq DOMAIN D!Mutations
    BY <1>6, <1>7
  <2> HIDE DEF hooks
  <2>3. \A h \in hooks : D!Mutations[h].patches = PatchedBy(h) /\ (D!Mutations[h].flips => h = "toggleEnabled")
    BY <2>2, HooksTell DEF Tells
  <2> QED
    BY <2>1, <2>3 DEF hooks
<1>10. \A k \in D!QueryKeys, h \in RecordHooks : Followed(k) /\ D!Touches(h, k) => k = "teamDnsRecords" \/ k \in D!Mutations[h].invalidates
  <2>1. \A h \in RecordHooks : PatchedBy(h) = {} /\ Missed(h) = {"teamDnsRecords"}
    BY DEF RecordHooks, PatchedBy, PatchHooks, Missed, ZoneHooks
  <2> QED
    BY <1>6, <2>1, HooksTell DEF Tells, Covers, D!Touches
<1>11. Owing(Elems(all), "teamDnsRecords")
  <2>1. Refetches("refetchRecords", "teamDnsRecords")
    BY <1>6, HooksTell DEF Tells, Refetches
  <2> QED
    BY <1>6, <1>7, <2>1 DEF Owing
<1> HIDE DEF all, page_, delete
<1>12. Harmless(Elems(all))
  BY <1>9 DEF Harmless
<1>13. HandlerTyped(D!saveAll)
  BY <1>1, <1>8 DEF HandlerTyped
<1>14. GoodHandler(D!saveAll, page_)
  <2>1. \A k \in D!Mounted(page_) \cap D!QueryKeys, h \in Elems(all) :
            Followed(k) /\ D!Posts(h) /\ D!Touches(h, k) => Repairs(h, k, page_) \/ Owing(Elems(all), k)
    BY <1>6, <1>7, <1>10, <1>11 DEF Repairs
  <2> QED
    BY <1>1, <1>8, <1>9, <1>12, <1>13, <2>1 DEF GoodHandler
<1>15. Good({D!saveAll, delete}, page_)
  BY <1>5, <1>14 DEF Good
<1>16. Good(D!Only("manage", {D!saveAll, delete}), page_)
  BY <1>15, GoodTogether
<1> QED
  BY <1>2, <1>16 DEF page_

\* The handlers of all pages are.
LEMMA PagesAreGood == \A p \in DOMAIN D!Pages : Good(D!Pages[p].offers, p)
<1>1. DOMAIN D!Pages =
        {"TeamHomePage", "EmptyTeamPage", "SettingsPage", "ProjectPage", "MonitoringLogsPage", "MonitoringMetricsPage",
         "MonitoringStatusPage", "MonitoringIncidentsPage", "MonitoringFilesPage", "NodesPage", "NodeOverviewPage",
         "NsmLogsPage", "UserManagementPage"} \cup {"ProjectDeployPage", "DomainDetailPage"} \cup ConfigPages
        \cup {"NodeStoragePage", "NodeConfigPage", "NodeConfigModal"} \cup {"TeamDetailPage", "TeamDomainsPage"}
  BY DEF D!Pages, ConfigPages
<1> QED
  BY <1>1, SimplePagesAreGood, DeployPageIsGood, DomainPageIsGood, ConfigPagesAreGood, NodePagesAreGood, TeamPagesAreGood

\* No editor is seeded from a query that is polled, and the page of a deployment has none.
LEMMA SeedsAreNotPolled ==
    /\ \A p \in DOMAIN D!Pages : D!Pages[p].seeds # "none" => D!queryKeys[D!Pages[p].seeds].polled = "never"
    /\ D!Pages["ProjectDeployPage"].seeds = "none"
    /\ "none" \notin D!QueryKeys
<1>1. \A k \in {"projects", "nodeConfig", "team", "teamRegistrar", "teamDnsRecords"} : D!queryKeys[k].polled = "never"
  BY DEF D!queryKeys, D!useProjects, D!useNodeConfig, D!useTeam, D!useTeamRegistrar, D!useTeamDnsRecords, D!Query
<1>2. \A p \in {"TeamHomePage", "EmptyTeamPage", "SettingsPage", "ProjectPage", "MonitoringLogsPage", "MonitoringMetricsPage",
                "MonitoringStatusPage", "MonitoringIncidentsPage", "MonitoringFilesPage", "NodesPage", "NodeOverviewPage",
                "NsmLogsPage", "UserManagementPage", "ProjectDeployPage", "NodeStoragePage", "NodeConfigPage"} :
          D!Pages[p].seeds = "none"
  BY PageFields DEF D!Pages, D!TeamHomePage, D!EmptyTeamPage, D!SettingsPage, D!ProjectPage, D!MonitoringLogsPage,
     D!MonitoringMetricsPage, D!MonitoringStatusPage, D!IncidentSection, D!FileExplorer, D!NodesPage,
     D!NodeOverviewPage, D!NsmLogsPage, D!UserManagementPage, D!ProjectDeployPage, D!NodeStoragePage, D!NodeConfigPage
<1>3. \A mounts, offers : D!Config(mounts, offers).seeds = "projects"
  BY PageFields DEF D!Config
<1>4. \A p \in ConfigPages : D!Pages[p].seeds = "projects"
  BY <1>3 DEF ConfigPages, D!Pages, D!ConfigProjectPage, D!ConfigRoutingPage, D!ConfigSystemPage, D!ConfigResourcesPage,
     D!ConfigKeysPage, D!WebhooksSection, D!ConfigContinuousDeploymentPage
<1>5. /\ D!Pages["NodeConfigModal"].seeds = "nodeConfig" /\ D!Pages["TeamDetailPage"].seeds = "team"
      /\ D!Pages["TeamDomainsPage"].seeds = "teamRegistrar" /\ D!Pages["DomainDetailPage"].seeds = "teamDnsRecords"
  BY PageFields DEF D!Pages, D!NodeConfigModal, D!TeamDetailPage, D!TeamDomains, D!DomainDetailPage
<1>6. "none" \notin D!QueryKeys
  BY DEF D!QueryKeys, D!queryKeys
<1>7. DOMAIN D!Pages =
        {"TeamHomePage", "EmptyTeamPage", "SettingsPage", "ProjectPage", "MonitoringLogsPage", "MonitoringMetricsPage",
         "MonitoringStatusPage", "MonitoringIncidentsPage", "MonitoringFilesPage", "NodesPage", "NodeOverviewPage",
         "NsmLogsPage", "UserManagementPage", "ProjectDeployPage", "NodeStoragePage", "NodeConfigPage"}
        \cup ConfigPages \cup {"NodeConfigModal", "TeamDetailPage", "TeamDomainsPage", "DomainDetailPage"}
  BY DEF D!Pages, ConfigPages
<1> QED
  BY <1>1, <1>2, <1>4, <1>5, <1>6, <1>7

-----------------------------------------------------------------------------
(* The cache: what is left of a handler.                                   *)

Steps == {s \in Seq(DOMAIN D!Mutations) : Len(s) <= 5}

\* There is a first step that matters, or none.
LEMMA FirstMatters ==
    ASSUME NEW s \in Steps, NEW k
    PROVE  \E n \in 0..Len(s) : /\ \A m \in 1..n : ~D!Concerns(s[m], k)
                                /\ n < Len(s) => D!Concerns(s[n + 1], k)
<1> DEFINE Matters(m) == m \in 1..Len(s) /\ D!Concerns(s[m], k)
           First(n) == n \in 0..Len(s) /\ (\A m \in 1..n : ~D!Concerns(s[m], k)) /\ (n < Len(s) => D!Concerns(s[n + 1], k))
<1>1. Len(s) \in 0..5
  <2> DEFINE l == Len(s)
  <2>1. l \in Nat /\ l <= 5
    BY DEF Steps
  <2> HIDE DEF l
  <2>2. l \in 0..5
    BY <2>1
  <2> QED
    BY <2>2 DEF l
<1>2. CASE Matters(1)
  <2>1. First(0)
    BY <1>1, <1>2
  <2> QED
    BY <2>1
<1>3. CASE ~Matters(1) /\ Matters(2)
  <2>1. First(1)
    BY <1>1, <1>3
  <2> QED
    BY <2>1
<1>4. CASE ~Matters(1) /\ ~Matters(2) /\ Matters(3)
  <2>1. First(2)
    BY <1>1, <1>4
  <2> QED
    BY <2>1
<1>5. CASE ~Matters(1) /\ ~Matters(2) /\ ~Matters(3) /\ Matters(4)
  <2>1. First(3)
    BY <1>1, <1>5
  <2> QED
    BY <2>1
<1>6. CASE ~Matters(1) /\ ~Matters(2) /\ ~Matters(3) /\ ~Matters(4) /\ Matters(5)
  <2>1. First(4)
    BY <1>1, <1>6
  <2> QED
    BY <2>1
<1>7. CASE ~Matters(1) /\ ~Matters(2) /\ ~Matters(3) /\ ~Matters(4) /\ ~Matters(5)
  <2>1. First(Len(s))
    BY <1>1, <1>7
  <2> QED
    BY <2>1
<1> QED
  BY <1>2, <1>3, <1>4, <1>5, <1>6, <1>7

\* What is left are the last steps, and all of those that matter.
LEMMA AheadKeeps ==
    ASSUME NEW s \in Steps, NEW k
    PROVE  LET t == D!Ahead(s, k) IN
           /\ t \in Steps /\ Len(t) <= Len(s)
           /\ Elems(t) \subseteq Elems(s)
           /\ \A h \in Elems(s) : D!Concerns(h, k) => h \in Elems(t)
           /\ PostsFirst(s) => PostsFirst(t)
           /\ Len(t) = Len(s) => t = s
           /\ s # <<>> /\ D!Concerns(s[1], k) => t = s
           /\ t # <<>> => D!Concerns(t[1], k)
<1> DEFINE First(n) == (\A m \in 1..n : ~D!Concerns(s[m], k)) /\ (n < Len(s) => D!Concerns(s[n + 1], k))
           d == CHOOSE n \in 0..Len(s) : First(n)
           t == SubSeq(s, d + 1, Len(s))
<1>1. d \in 0..Len(s) /\ First(d)
  BY FirstMatters
<1>2. D!Ahead(s, k) = t
  BY DEF D!Ahead
<1>3. s \in Seq(DOMAIN D!Mutations) /\ Len(s) \in Nat /\ Len(s) <= 5
  BY DEF Steps
<1> HIDE DEF d
<1>4. /\ t \in Seq(DOMAIN D!Mutations) /\ Len(t) = Len(s) - d
      /\ \A n \in 1..(Len(s) - d) : t[n] = s[n + d]
  BY <1>1, <1>3
<1> HIDE DEF t, First
<1>5. t \in Steps /\ Len(t) <= Len(s)
  BY <1>1, <1>3, <1>4 DEF Steps
<1>6. Elems(t) \subseteq Elems(s)
  BY <1>1, <1>3, <1>4 DEF Elems
<1>7. ASSUME NEW n \in DOMAIN s, D!Concerns(s[n], k) PROVE s[n] \in Elems(t)
  <2>1. n \in 1..Len(s) /\ n > d
    BY <1>1, <1>3, <1>7 DEF First
  <2>2. n - d \in 1..(Len(s) - d) /\ (n - d) + d = n
    BY <1>1, <1>3, <2>1
  <2>3. t[n - d] = s[n] /\ n - d \in DOMAIN t
    BY <1>4, <2>2
  <2> QED
    BY <2>3 DEF Elems
<1>8. ASSUME PostsFirst(s) PROVE PostsFirst(t)
  <2> SUFFICES ASSUME NEW m \in 1..(Len(s) - d), NEW n \in 1..(Len(s) - d), m < n, D!Posts(t[n])
               PROVE  D!Posts(t[m])
    BY <1>3, <1>4 DEF PostsFirst
  <2>1. m + d \in DOMAIN s /\ n + d \in DOMAIN s /\ m + d < n + d
    BY <1>1, <1>3
  <2>2. t[m] = s[m + d] /\ t[n] = s[n + d]
    BY <1>4
  <2> QED
    BY <1>8, <2>1, <2>2 DEF PostsFirst
<1>9. d = 0 => t = s
  BY <1>3, <1>4
<1>10. Len(t) = Len(s) => d = 0
  BY <1>1, <1>3, <1>4
<1>11. s # <<>> /\ D!Concerns(s[1], k) => d = 0
  BY <1>1, <1>3 DEF First
<1>12. t # <<>> => D!Concerns(t[1], k)
  <2>1. t # <<>> => d < Len(s)
    BY <1>1, <1>3, <1>4
  <2>2. d < Len(s) => D!Concerns(s[d + 1], k) /\ t[1] = s[1 + d]
    BY <1>1, <1>3, <1>4 DEF First
  <2> QED
    BY <1>1, <2>1, <2>2
<1> QED
  BY <1>2, <1>5, <1>6, <1>7, <1>8, <1>9, <1>10, <1>11, <1>12 DEF Elems

\* The steps after the first.
LEMMA TailKeeps ==
    ASSUME NEW s \in Steps, s # <<>>
    PROVE  /\ Tail(s) \in Steps /\ s[1] \in Elems(s) /\ (\A h : h \in Elems(s) <=> h = s[1] \/ h \in Elems(Tail(s)))
           /\ Elems(s) \subseteq DOMAIN D!Mutations
           /\ PostsFirst(s) => PostsFirst(Tail(s)) /\ (~D!Posts(s[1]) => \A h \in Elems(s) : ~D!Posts(h))
           /\ Len(Tail(s)) = Len(s) - 1
<1>1. s \in Seq(DOMAIN D!Mutations) /\ Len(s) \in 1..5
  <2> DEFINE l == Len(s)
  <2>1. s \in Seq(DOMAIN D!Mutations) /\ l \in Nat /\ l <= 5
    BY DEF Steps
  <2>2. l # 0
    BY <2>1
  <2> HIDE DEF l
  <2>3. l \in 1..5
    BY <2>1, <2>2
  <2> QED
    BY <2>1, <2>3 DEF l
<1> DEFINE t == Tail(s)
<1>2. t \in Seq(DOMAIN D!Mutations) /\ Len(t) = Len(s) - 1 /\ \A n \in 1..(Len(s) - 1) : t[n] = s[n + 1]
  BY <1>1
<1> HIDE DEF t
<1>3. \A n \in 2..Len(s) : n - 1 \in 1..(Len(s) - 1) /\ s[n] = t[n - 1]
  BY <1>1, <1>2
<1>4. \A h : h \in Elems(s) <=> h = s[1] \/ h \in Elems(t)
  <2>1. \A n \in DOMAIN s : s[n] \in {s[1]} \cup Elems(t)
    BY <1>1, <1>2, <1>3 DEF Elems
  <2>2. \A n \in DOMAIN t : t[n] \in Elems(s)
    BY <1>1, <1>2 DEF Elems
  <2>3. s[1] \in Elems(s)
    BY <1>1 DEF Elems
  <2>4. Elems(s) \subseteq {s[1]} \cup Elems(t)
    BY <2>1 DEF Elems
  <2>5. Elems(t) \subseteq Elems(s)
    BY <2>2 DEF Elems
  <2> QED
    BY <2>3, <2>4, <2>5
<1>5. PostsFirst(s) => PostsFirst(t)
  BY <1>1, <1>2 DEF PostsFirst
<1>6. PostsFirst(s) /\ ~D!Posts(s[1]) => \A h \in Elems(s) : ~D!Posts(h)
  BY <1>1 DEF PostsFirst, Elems
<1>7. t \in Steps
  BY <1>1, <1>2 DEF Steps
<1>8. s[1] \in Elems(s)
  BY <1>4
<1>9. Elems(s) \subseteq DOMAIN D!Mutations
  BY <1>1 DEF Elems
<1>10. PostsFirst(s) => PostsFirst(t) /\ (~D!Posts(s[1]) => \A h \in Elems(s) : ~D!Posts(h))
  BY <1>5, <1>6
<1>11. Len(t) = Len(s) - 1
  BY <1>2
<1> QED
  BY <1>4, <1>7, <1>8, <1>9, <1>10, <1>11 DEF t

-----------------------------------------------------------------------------
(* The cache: the strengthening.                                           *)

Post == [hook : DOMAIN D!Mutations, rest : Steps, leaves : DOMAIN D!Pages \cup {"none"},
         at : {"sent", "answered", "settled", "done"}, got : {"none", "ok", "nothing", "refused"},
         here : BOOLEAN, base : SUBSET Nat, awaits : BOOLEAN]
\* The cache's entry after that many mutations, and the editor's draft.
Entry(n) == [has : BOOLEAN, shows : SUBSET (0..n), old : BOOLEAN, reply : SUBSET (0..n), fetch : {"idle", "sent", "read"}]
Draft == [dirty : BOOLEAN, base : SUBSET Nat, lost : BOOLEAN]

CacheTyped ==
    /\ key \in D!QueryKeys /\ page \in DOMAIN D!Pages
    /\ posts \in Seq(Post) /\ served \subseteq 1..Len(posts)
    /\ query \in Entry(Len(posts)) /\ draft \in Draft
    /\ used \in [D!Kinds -> Nat]

Active(p) == p.at # "done"
\* What is left of a handler keeps what makes the handler good.
PostSound(p) ==
    /\ PostsFirst(p.rest) /\ Harmless({p.hook} \cup Elems(p.rest))
    /\ p.at = "sent" => p.got = "none"
    /\ p.at = "settled" => (p.got = "ok" \/ p.hook \in D!Unheeded) /\ (p.rest = <<>> => p.leaves # "none")
\* What it has written, or will write, is shown, or fetched by a later step, or the page is left.
PostMends(p, k, pg) ==
    /\ \A h \in Elems(p.rest) :
          D!Posts(h) /\ D!Touches(h, k) => Repairs(h, k, pg) \/ Owing(Elems(p.rest), k)
    /\ p.at \in {"sent", "answered"} /\ D!Touches(p.hook, k) =>
          \/ Repairs(p.hook, k, pg)
          \/ p.rest = <<>> /\ p.leaves # "none"
          \/ p.hook \in D!Unheeded /\ Owing(Elems(p.rest), k)
HandlersSound ==
    \A i \in 1..Len(posts) : Active(posts[i]) =>
        /\ PostSound(posts[i])
        /\ posts[i].here /\ Followed(key) /\ D!Shown => PostMends(posts[i], key, page)

\* What is not asked, or refused to a hook that looks, is nowhere.
Nowhere(i) == i \notin query.shows /\ i \notin query.reply
RefusedIsNowhere ==
    /\ \A i \in 1..Len(posts) : posts[i].at = "sent" => i \notin served
    /\ D!Never({"flip"}) =>
          \A i \in 1..Len(posts) :
              \/ posts[i].at = "sent"
              \/ posts[i].got = "refused" /\ D!Mutations[posts[i].hook].checked
              => Nowhere(i) /\ i \notin served

\* Before anything is patched the list has arrived.
ListIsThere ==
    D!Never({"early", "unanswered"}) =>
        /\ query.has => 0 \in query.shows
        /\ query.fetch = "read" => 0 \in query.reply
        /\ \A i \in 1..Len(posts) : Active(posts[i]) =>
              \A h \in {posts[i].hook} \cup Elems(posts[i].rest) : key \in D!Mutations[h].patches => query.has

\* A page waits for what it has not got.
FirstIsFetched == D!Never({"unanswered"}) => (D!Shown /\ ~query.has => query.fetch # "idle")

\* While the user only edits, nothing is fetched that an editor shows.
DraftIsKept ==
    D!Never({"submit", "navigate", "unanswered"}) =>
        /\ ~draft.lost /\ \A i \in 1..Len(posts) : ~Active(posts[i])
        /\ D!Editor /\ query.has => query.fetch = "idle"
        /\ draft.dirty => query.has
        /\ ~query.has => query.shows = {}

\* While handlers take turns there is one, and what it follows up on has arrived before.
OneHandler ==
    D!Never({"overlap"}) => \A i, j \in 1..Len(posts) : Active(posts[i]) /\ Active(posts[j]) => i = j
HandlerAlone ==
    D!Never({"overlap", "unanswered"}) /\ D!Shown =>
        \A i \in 1..Len(posts) : Active(posts[i]) /\ posts[i].here =>
            /\ query.has
            /\ Followed(key) /\ page # "ProjectDeployPage" =>
                  query.fetch = "idle" \/ (posts[i].at = "settled" /\ posts[i].awaits)

\* A write is on the page, or in the answer that is on its way, or will be asked for; or
\* its answer will patch it, or a later step of the handler fetch it, or the page be left.
InHand(i) ==
    \/ query.fetch = "sent"
    \/ query.fetch = "read" /\ i \in query.reply
    \/ query.fetch = "idle" /\ i \in query.shows
Owed(p) == Active(p) /\ p.here /\ Owing(Elems(p.rest), key) /\ (p.at # "settled" => p.hook \in D!Unheeded)
OnTheWay(p) ==
    \/ p.at = "answered" /\ p.got = "ok" /\ Repairs(p.hook, key, page)
    \/ p.at \in {"answered", "settled"} /\ p.got = "ok" /\ p.rest = <<>> /\ p.leaves # "none"
WritesArrive ==
    Followed(key) /\ D!Shown /\ D!Never({"overlap", "unanswered", "unheard"}) =>
        \A i \in served : posts[i].here =>
            InHand(i) \/ OnTheWay(posts[i]) \/ \E j \in 1..Len(posts) : Owed(posts[j])

CacheInv ==
    /\ CacheTyped /\ HandlersSound /\ RefusedIsNowhere /\ ListIsThere /\ FirstIsFetched /\ DraftIsKept
    /\ OneHandler /\ HandlerAlone /\ WritesArrive

-----------------------------------------------------------------------------
(* The cache: what steps do.                                               *)

\* Counting events keeps the counts natural numbers, and counts those named.
LEMMA CacheEvents ==
    ASSUME used \in [D!Kinds -> Nat], NEW kinds \in SUBSET D!Kinds, D!Uses(kinds)
    PROVE  /\ used' \in [D!Kinds -> Nat]
           /\ \A k \in kinds : used'[k] > 0
           /\ \A K \in SUBSET D!Kinds : D!Never(K)' => D!Never(K) /\ K \cap kinds = {}
<1>1. used' = [k \in D!Kinds |-> used[k] + (IF k \in kinds THEN 1 ELSE 0)]
  BY DEF D!Uses
<1>2. \A k \in D!Kinds : used'[k] = used[k] + (IF k \in kinds THEN 1 ELSE 0)
  BY <1>1
<1>3. used' \in [D!Kinds -> Nat]
  BY <1>1
<1>4. \A k \in D!Kinds : used'[k] = 0 => used[k] = 0 /\ k \notin kinds
  BY <1>2
<1>5. \A K \in SUBSET D!Kinds : D!Never(K)' => D!Never(K) /\ K \cap kinds = {}
  BY <1>4 DEF D!Never
<1> QED
  BY <1>2, <1>3, <1>5

\* Changing one post, and adding one.
LEMMA PostsChange ==
    ASSUME NEW ps \in Seq(Post), NEW p \in Post
    PROVE  /\ \A i \in 1..Len(ps) :
                 LET qs == [ps EXCEPT ![i] = p] IN
                 /\ qs \in Seq(Post) /\ Len(qs) = Len(ps) /\ qs[i] = p
                 /\ \A j \in 1..Len(ps) : j # i => qs[j] = ps[j]
           /\ LET qs == Append(ps, p) IN
              /\ qs \in Seq(Post) /\ Len(qs) = Len(ps) + 1 /\ qs[Len(ps) + 1] = p
              /\ \A j \in 1..Len(ps) : qs[j] = ps[j]
OBVIOUS

\* What a hook, or a follow-up, does to the entry.
LEMMA EffectsDo ==
    ASSUME CacheTyped, NEW h \in DOMAIN D!Mutations, NEW i \in 1..Len(posts), NEW q, q = D!Effects(query, h, i)
    PROVE  /\ q \in Entry(Len(posts))
           /\ q.has <=> query.has \/ key \in D!Mutations[h].patches
           /\ key \in D!Mutations[h].patches => q.shows = query.shows \cup {i}
           /\ key \notin D!Mutations[h].patches => q.shows = query.shows
           /\ \/ q.fetch = query.fetch /\ q.reply = query.reply
              \/ q.fetch = "sent" /\ q.reply = {} /\ key \in D!Mutations[h].invalidates
           /\ key \in D!Mutations[h].invalidates /\ D!Shown => q.fetch # "idle" /\ (q.has => q.fetch = "sent")
<1> DEFINE n == Len(posts)
           m == D!Mutations[h]
           p == IF key \in m.patches THEN D!Patched(query, i) ELSE query
<1>1. n \in Nat /\ i \in 0..n /\ query \in Entry(n)
  BY DEF CacheTyped
<1>2. q = IF key \in m.invalidates THEN D!Invalidated(p) ELSE p
  BY DEF D!Effects
<1> HIDE DEF n, m
<1>3. /\ p \in Entry(n) /\ (p.has <=> query.has \/ key \in m.patches)
      /\ key \in m.patches => p.shows = query.shows \cup {i}
      /\ key \notin m.patches => p.shows = query.shows
      /\ p.fetch = query.fetch /\ p.reply = query.reply
  <2>1. CASE key \in m.patches
    <3>1. p = D!Patched(query, i)
      BY <2>1
    <3> HIDE DEF p
    <3> QED
      BY <1>1, <2>1, <3>1 DEF D!Patched, Entry
  <2>2. CASE key \notin m.patches
    BY <1>1, <2>2
  <2> QED
    BY <2>1, <2>2
<1> HIDE DEF p
<1>4. ASSUME key \in m.invalidates
      PROVE  /\ q \in Entry(n) /\ q.has = p.has /\ q.shows = p.shows
             /\ \/ q.fetch = p.fetch /\ q.reply = p.reply
                \/ q.fetch = "sent" /\ q.reply = {}
             /\ D!Shown => q.fetch # "idle" /\ (q.has => q.fetch = "sent")
  <2> DEFINE o == [p EXCEPT !.old = TRUE]
  <2>1. /\ o \in Entry(n) /\ o.has = p.has /\ o.shows = p.shows /\ o.fetch = p.fetch /\ o.reply = p.reply
        /\ q = IF ~D!Shown \/ (~p.has /\ p.fetch # "idle") THEN o ELSE D!Fetching(o)
    BY <1>2, <1>3, <1>4 DEF D!Invalidated, Entry
  <2> HIDE DEF o
  <2>2. /\ D!Fetching(o) \in Entry(n) /\ D!Fetching(o).has = o.has /\ D!Fetching(o).shows = o.shows
        /\ D!Fetching(o).fetch = "sent" /\ D!Fetching(o).reply = {}
    BY <2>1 DEF D!Fetching, Entry
  <2> QED
    BY <2>1, <2>2
<1>5. key \notin m.invalidates => q = p
  BY <1>2
<1> QED
  BY <1>3, <1>4, <1>5 DEF n, m

\* What storing new data does to the draft.
LEMMA ReseededDoes ==
    ASSUME CacheTyped, NEW n \in Nat, query' \in Entry(n), draft' = D!Reseeded(query')
    PROVE  /\ draft' \in Draft
           /\ ~D!Editor \/ (query'.has = query.has /\ query'.shows = query.shows) => draft' = draft
           /\ draft'.lost => draft.lost \/ draft.dirty
           /\ draft'.dirty => draft.dirty
<1>1. query'.shows \in SUBSET Nat
  BY DEF Entry
<1> QED
  BY <1>1 DEF D!Reseeded, CacheTyped, Draft

-----------------------------------------------------------------------------
(* The cache: fetches and edits keep the strengthening.                    *)

\* Events only add up.
CountsUp == used' \in [D!Kinds -> Nat] /\ \A K \in SUBSET D!Kinds : D!Never(K)' => D!Never(K)

\* Every step counts what happens.
LEMMA CacheCounts == ASSUME CacheTyped, D!Next PROVE CountsUp
<1>1. used \in [D!Kinds -> Nat]
  BY DEF CacheTyped
<1>2. ASSUME UNCHANGED used PROVE CountsUp
  BY <1>1, <1>2 DEF D!Never, CountsUp
<1>3. ASSUME NEW kinds \in SUBSET D!Kinds, D!Uses(kinds) PROVE CountsUp
  BY <1>1, <1>3, CacheEvents DEF CountsUp
<1>4. ASSUME NEW h, D!Submit(h) PROVE \E kinds \in SUBSET D!Kinds : D!Uses(kinds)
  BY <1>4 DEF D!Submit, D!Kinds, D!If
<1>5. ASSUME NEW i, D!Serve(i) PROVE UNCHANGED used \/ \E kinds \in SUBSET D!Kinds : D!Uses(kinds)
  BY <1>5 DEF D!Serve, D!Kinds
<1>6. ASSUME D!Unanswered \/ D!Wait \/ D!Edit \/ D!Other \/ \E p \in D!Relevant[key] : D!Navigate(p)
      PROVE  \E kinds \in SUBSET D!Kinds : D!Uses(kinds)
  BY <1>6 DEF D!Unanswered, D!Wait, D!Edit, D!Other, D!Navigate, D!Kinds
<1>7. ASSUME NEW i, D!Settle(i) \/ D!FollowUp(i) \/ D!NextPost(i) \/ D!Leave(i) PROVE UNCHANGED used
  BY <1>7 DEF D!Settle, D!FollowUp, D!NextPost, D!Leave
<1>8. ASSUME D!Poll \/ D!ListRefresh \/ D!Read \/ D!Arrive PROVE UNCHANGED used
  BY <1>8 DEF D!Poll, D!ListRefresh, D!Read, D!Arrive
<1> QED
  BY <1>2, <1>3, <1>4, <1>5, <1>6, <1>7, <1>8 DEF D!Next

\* What happens has happened.
LEMMA CacheCounted ==
    ASSUME CacheTyped, NEW kinds \in SUBSET D!Kinds, D!Uses(kinds)
    PROVE  \A K : K \cap kinds # {} => ~D!Never(K)'
<1>1. \A k \in kinds : used'[k] > 0
  BY CacheEvents DEF CacheTyped
<1> QED
  BY <1>1 DEF D!Never

\* A step that leaves the posts alone keeps what is said of them, and shows nothing that
\* the server has not said.
LEMMA PostsStay ==
    ASSUME CacheInv, UNCHANGED <<key, page, served, posts>>, CountsUp,
           query' \in Entry(Len(posts)), draft' \in Draft,
           query'.shows \subseteq query.shows \cup query.reply,
           query'.reply \subseteq query.reply \cup {0} \cup served
    PROVE  CacheTyped' /\ HandlersSound' /\ RefusedIsNowhere' /\ OneHandler'
<1>1. CacheTyped'
  BY DEF CacheInv, CacheTyped, CountsUp
<1>2. HandlersSound'
  BY DEF CacheInv, HandlersSound, D!Shown
<1>3. RefusedIsNowhere'
  <2>1. D!Never({"flip"})' => D!Never({"flip"})
    BY DEF CountsUp, D!Kinds
  <2>2. \A i \in 1..Len(posts) : Nowhere(i) /\ i \notin served => Nowhere(i)'
    BY DEF Nowhere
  <2> QED
    BY <2>1, <2>2 DEF CacheInv, RefusedIsNowhere
<1>4. OneHandler'
  <2>1. D!Never({"overlap"})' => D!Never({"overlap"})
    BY DEF CountsUp, D!Kinds
  <2> QED
    BY <2>1 DEF CacheInv, OneHandler
<1> QED
  BY <1>1, <1>2, <1>3, <1>4

\* What has not happened has not happened before.
LEMMA NeverBefore ==
    ASSUME CountsUp
    PROVE  /\ D!Never({"early", "unanswered"})' => D!Never({"early", "unanswered"})
           /\ D!Never({"unanswered"})' => D!Never({"unanswered"})
           /\ D!Never({"submit", "navigate", "unanswered"})' => D!Never({"submit", "navigate", "unanswered"})
           /\ D!Never({"overlap", "unanswered"})' => D!Never({"overlap", "unanswered"})
           /\ D!Never({"overlap", "unanswered", "unheard"})' => D!Never({"overlap", "unanswered", "unheard"})
           /\ D!Never({"overlap"})' => D!Never({"overlap"}) /\ (D!Never({"flip"})' => D!Never({"flip"}))
           /\ D!Never({"flip"})' => D!Never({"flip"})
BY DEF CountsUp, D!Kinds

\* The data arrives, or has arrived, and what is at hand stays so.
LEMMA FetchKeeps ==
    ASSUME CacheInv, UNCHANGED <<key, page, served, posts>>, CountsUp,
           query.has => query'.has,
           D!Never({"unanswered"})' =>
              /\ query'.has => (query.has /\ query'.shows = query.shows) \/ (query.fetch = "read" /\ query'.shows = query.reply)
              /\ query'.fetch = "read" => (query.fetch = "read" /\ query'.reply = query.reply) \/ 0 \in query'.reply
              /\ query'.fetch = "idle" => query'.has \/ query.fetch = "idle"
              /\ Followed(key) /\ page # "ProjectDeployPage" => query'.fetch = "idle" \/ query.fetch # "idle"
              /\ Followed(key) /\ D!Shown => \A i \in served : InHand(i) => InHand(i)'
    PROVE  ListIsThere' /\ FirstIsFetched' /\ HandlerAlone' /\ WritesArrive'
<1>1. /\ D!Never({"early", "unanswered"})' => D!Never({"unanswered"})'
      /\ D!Never({"overlap", "unanswered"})' => D!Never({"unanswered"})'
      /\ D!Never({"overlap", "unanswered", "unheard"})' => D!Never({"unanswered"})'
  BY DEF D!Never
<1>2. ListIsThere'
  <2>1. D!Never({"early", "unanswered"})' => D!Never({"early", "unanswered"})
    BY NeverBefore
  <2> QED
    BY <1>1, <2>1 DEF CacheInv, ListIsThere
<1>3. FirstIsFetched'
  <2>1. D!Never({"unanswered"})' => D!Never({"unanswered"})
    BY NeverBefore
  <2> QED
    BY <2>1 DEF CacheInv, FirstIsFetched, D!Shown
<1>4. HandlerAlone'
  <2>1. D!Never({"overlap", "unanswered"})' => D!Never({"overlap", "unanswered"})
    BY NeverBefore
  <2> QED
    BY <1>1, <2>1 DEF CacheInv, HandlerAlone, D!Shown
<1>5. WritesArrive'
  <2>1. D!Never({"overlap", "unanswered", "unheard"})' => D!Never({"overlap", "unanswered", "unheard"})
    BY NeverBefore
  <2>2. \A i : OnTheWay(posts[i])' = OnTheWay(posts[i]) /\ Owed(posts[i])' = Owed(posts[i])
    BY DEF OnTheWay, Owed
  <2> QED
    BY <1>1, <2>1, <2>2 DEF CacheInv, WritesArrive, D!Shown
<1> QED
  BY <1>2, <1>3, <1>4, <1>5

\* A fetch that begins because of a timer or a deployment.
LEMMA RefreshKeeps == ASSUME CacheInv, D!Poll \/ D!ListRefresh PROVE CacheInv'
<1>1. UNCHANGED <<key, page, served, posts, draft, used>> /\ D!Next
  BY DEF D!Poll, D!ListRefresh, D!Next
<1>2. CacheTyped /\ CountsUp
  BY <1>1, CacheCounts DEF CacheInv
<1>3. /\ query' \in Entry(Len(posts)) /\ query'.has = query.has /\ query'.shows = query.shows
      /\ \/ query'.fetch = query.fetch /\ query'.reply = query.reply
         \/ query'.fetch = "sent" /\ query'.reply = {}
      /\ D!Shown => query'.fetch = "sent"
  BY <1>2 DEF D!Poll, D!ListRefresh, D!Invalidated, D!Fetching, CacheTyped, Entry
<1>4. ~Followed(key) \/ page = "ProjectDeployPage"
  BY DEF D!Poll, D!Polls, D!ListRefresh, Followed
<1>5. ~D!Editor
  BY <1>2, SeedsAreNotPolled DEF D!Poll, D!Polls, D!ListRefresh, D!Editor, CacheTyped
<1>6. CacheTyped' /\ HandlersSound' /\ RefusedIsNowhere' /\ OneHandler'
  BY <1>1, <1>2, <1>3, PostsStay DEF CacheTyped
<1>7. ListIsThere' /\ FirstIsFetched' /\ HandlerAlone' /\ WritesArrive'
  <2>1. D!Shown => \A i \in served : InHand(i)'
    BY <1>3 DEF InHand
  <2>2. query'.fetch = "idle" => query.fetch = "idle"
    BY <1>3
  <2>3. query'.fetch = "read" => query.fetch = "read" /\ query'.reply = query.reply
    BY <1>3
  <2> QED
    BY <1>1, <1>2, <1>3, <1>4, <2>1, <2>2, <2>3, FetchKeeps
<1>8. DraftIsKept'
  <2>1. D!Never({"submit", "navigate", "unanswered"})' => D!Never({"submit", "navigate", "unanswered"})
    BY <1>2, NeverBefore
  <2>2. ~D!Editor'
    BY <1>1, <1>5 DEF D!Editor
  <2> QED
    BY <1>1, <1>3, <2>1, <2>2 DEF CacheInv, DraftIsKept
<1> QED
  BY <1>6, <1>7, <1>8 DEF CacheInv

\* The server answers a query, or data becomes old, or the user edits.
LEMMA ReadKeeps == ASSUME CacheInv, D!Read \/ D!Wait \/ D!Edit PROVE CacheInv'
<1>1. UNCHANGED <<key, page, served, posts>> /\ D!Next
  BY DEF D!Read, D!Wait, D!Edit, D!Next
<1>2. CacheTyped /\ CountsUp
  BY <1>1, CacheCounts DEF CacheInv
<1>3. /\ query' \in Entry(Len(posts)) /\ query'.has = query.has /\ query'.shows = query.shows
      /\ \/ query'.fetch = query.fetch /\ query'.reply = query.reply
         \/ query.fetch = "sent" /\ query'.fetch = "read" /\ query'.reply = {0} \cup served
  <2>1. CASE D!Edit
    BY <1>2, <2>1 DEF D!Edit, CacheTyped
  <2>2. CASE D!Wait
    BY <1>2, <2>2 DEF D!Wait, CacheTyped, Entry
  <2>3. CASE D!Read
    <3>1. {0} \cup served \in SUBSET (0..Len(posts))
      BY <1>2 DEF CacheTyped
    <3> QED
      BY <1>2, <2>3, <3>1 DEF D!Read, CacheTyped, Entry
  <2> QED
    BY <2>1, <2>2, <2>3
<1>4. /\ draft' \in Draft /\ draft'.lost = draft.lost
      /\ draft'.dirty => draft.dirty \/ 0 \in query.shows
  BY <1>2 DEF D!Read, D!Wait, D!Edit, CacheTyped, Draft
<1>5. CacheTyped' /\ HandlersSound' /\ RefusedIsNowhere' /\ OneHandler'
  BY <1>1, <1>2, <1>3, <1>4, PostsStay
<1>6. ListIsThere' /\ FirstIsFetched' /\ HandlerAlone' /\ WritesArrive'
  <2>1. \A i \in served : InHand(i) => InHand(i)'
    BY <1>3 DEF InHand
  <2> QED
    BY <1>1, <1>2, <1>3, <2>1, FetchKeeps
<1>7. DraftIsKept'
  <2>1. D!Never({"submit", "navigate", "unanswered"})' => D!Never({"submit", "navigate", "unanswered"})
    BY <1>2, NeverBefore
  <2>2. D!Editor' = D!Editor
    BY <1>1 DEF D!Editor
  <2> QED
    BY <1>1, <1>3, <1>4, <2>1, <2>2 DEF CacheInv, DraftIsKept
<1> QED
  BY <1>5, <1>6, <1>7 DEF CacheInv

\* An answer arrives, or none.
LEMMA ArriveKeeps == ASSUME CacheInv, D!Arrive \/ D!Unanswered PROVE CacheInv'
<1>1. UNCHANGED <<key, page, served, posts>> /\ D!Next
  BY DEF D!Arrive, D!Unanswered, D!Next
<1>2. CacheTyped /\ CountsUp
  BY <1>1, CacheCounts DEF CacheInv
<1>3. D!Unanswered => ~D!Never({"unanswered"})'
  <2>1. {"unanswered"} \in SUBSET D!Kinds
    BY DEF D!Kinds
  <2> QED
    BY <1>2, <2>1, CacheCounted DEF D!Unanswered, CacheTyped
<1>4. /\ query' \in Entry(Len(posts)) /\ (query.has => query'.has)
      /\ query'.shows \subseteq query.shows \cup query.reply /\ query'.reply \subseteq query.reply
      /\ query'.fetch = "idle"
      /\ D!Arrive => query'.has /\ query'.shows = query.reply /\ query.fetch = "read"
  BY <1>2 DEF D!Arrive, D!Unanswered, D!Stores, D!Holding, CacheTyped, Entry
<1>5. draft' = D!Reseeded(query')
  BY DEF D!Arrive, D!Unanswered, D!Stores
<1>6. /\ draft' \in Draft
      /\ ~D!Editor => draft' = draft
      /\ draft'.lost => draft.lost \/ draft.dirty
      /\ draft'.dirty => draft.dirty
  <2>1. Len(posts) \in Nat
    BY <1>2 DEF CacheTyped
  <2> QED
    BY <1>2, <1>4, <1>5, <2>1, ReseededDoes
<1>7. CacheTyped' /\ HandlersSound' /\ RefusedIsNowhere' /\ OneHandler'
  <2>1. query'.reply \subseteq query.reply \cup {0} \cup served
    BY <1>4
  <2>2. query' \in Entry(Len(posts)) /\ draft' \in Draft /\ query'.shows \subseteq query.shows \cup query.reply
    BY <1>4, <1>6
  <2> QED
    BY <1>1, <1>2, <2>1, <2>2, PostsStay
<1>8. ListIsThere' /\ FirstIsFetched' /\ HandlerAlone' /\ WritesArrive'
  <2>1. D!Arrive => \A i \in served : InHand(i) => InHand(i)'
    BY <1>4 DEF InHand
  <2>2. D!Never({"unanswered"})' => D!Arrive
    BY <1>3
  <2>3. query'.fetch = "idle" /\ (query.has => query'.has)
    BY <1>4
  <2>4. D!Arrive => query'.has /\ query'.shows = query.reply /\ query.fetch = "read"
    BY <1>4
  <2> QED
    BY <1>1, <1>2, <2>1, <2>2, <2>3, <2>4, FetchKeeps
<1>9. DraftIsKept'
  <2>1. D!Never({"submit", "navigate", "unanswered"})' => D!Never({"submit", "navigate", "unanswered"}) /\ D!Never({"unanswered"})'
    BY <1>2, NeverBefore DEF D!Never
  <2>2. D!Editor' = D!Editor
    BY <1>1 DEF D!Editor
  <2> QED
    BY <1>1, <1>3, <1>4, <1>6, <2>1, <2>2 DEF CacheInv, DraftIsKept
<1> QED
  BY <1>7, <1>8, <1>9 DEF CacheInv

-----------------------------------------------------------------------------
(* The cache: what handlers do keeps the strengthening.                    *)

\* Data is old or not, and the posts are many: either way the entry is one.
LEMMA EntryGrows == ASSUME NEW n \in Nat, NEW q \in Entry(n) PROVE q \in Entry(n + 1) /\ n + 1 \notin q.shows /\ n + 1 \notin q.reply
<1>1. 0..n \subseteq 0..(n + 1) /\ n + 1 \notin 0..n
  OBVIOUS
<1> QED
  BY <1>1 DEF Entry

\* Somebody else writes.
LEMMA OtherKeeps == ASSUME CacheInv, D!Other PROVE CacheInv'
<1> DEFINE n == Len(posts)
           p == [D!Begun("refreshMe", <<>>, "none") EXCEPT !.at = "done", !.here = FALSE]
<1>1. UNCHANGED <<key, page, query, draft>> /\ D!Next /\ posts' = Append(posts, p) /\ served' = served \cup {n + 1}
  BY DEF D!Other, D!Next
<1>2. CacheTyped /\ CountsUp /\ n \in Nat /\ posts \in Seq(Post) /\ served \subseteq 1..n
  BY <1>1, CacheCounts DEF CacheInv, CacheTyped
<1>3. p \in Post /\ ~Active(p) /\ ~p.here /\ p.got = "none" /\ p.at = "done"
  <2>1. "refreshMe" \in DOMAIN D!Mutations
    BY HookNames DEF FollowUps, PlainHooks
  <2>2. <<>> \in Steps
    BY DEF Steps
  <2>3. draft.base \in SUBSET Nat
    BY <1>2 DEF CacheTyped, Draft
  <2> DEFINE b == D!Begun("refreshMe", <<>>, "none")
  <2>4. b \in Post /\ b.got = "none"
    BY <2>1, <2>2, <2>3 DEF D!Begun, Post
  <2> HIDE DEF b
  <2>5. [b EXCEPT !.at = "done", !.here = FALSE] \in Post
    BY <2>4 DEF Post
  <2>6. /\ [b EXCEPT !.at = "done", !.here = FALSE].at = "done" /\ ~[b EXCEPT !.at = "done", !.here = FALSE].here
        /\ [b EXCEPT !.at = "done", !.here = FALSE].got = "none"
    BY <2>4 DEF Post
  <2> QED
    BY <2>5, <2>6 DEF b, Active
<1> HIDE DEF p, n
<1>4. /\ posts' \in Seq(Post) /\ Len(posts') = n + 1 /\ posts'[n + 1] = p
      /\ \A j \in 1..n : posts'[j] = posts[j]
  BY <1>1, <1>2, <1>3, PostsChange DEF n
<1>5. \A j \in 1..Len(posts') : j \in 1..n \/ j = n + 1
  BY <1>2, <1>4
<1>6. \A j \in 1..n : j \in served' <=> j \in served
  BY <1>1, <1>2
<1>7. query \in Entry(n + 1)
  BY <1>2, EntryGrows DEF CacheTyped, n
<1>8. CacheTyped'
  <2>1. served' \subseteq 1..(n + 1)
    BY <1>1, <1>2
  <2> QED
    BY <1>1, <1>2, <1>4, <1>7, <2>1 DEF CacheTyped, CountsUp
<1>9. HandlersSound'
  BY <1>1, <1>3, <1>4, <1>5 DEF CacheInv, HandlersSound, D!Shown, n
<1>10. RefusedIsNowhere'
  <2>1. \A j : Nowhere(j)' <=> Nowhere(j)
    BY <1>1 DEF Nowhere
  <2> QED
    BY <1>2, <1>3, <1>4, <1>5, <1>6, <2>1, NeverBefore DEF CacheInv, RefusedIsNowhere, n
<1>11. ListIsThere'
  BY <1>1, <1>2, <1>3, <1>4, <1>5, NeverBefore DEF CacheInv, ListIsThere, n
<1>12. FirstIsFetched'
  BY <1>1, <1>2, NeverBefore DEF CacheInv, FirstIsFetched, D!Shown
<1>13. DraftIsKept'
  BY <1>1, <1>2, <1>3, <1>4, <1>5, NeverBefore DEF CacheInv, DraftIsKept, D!Editor, n
<1>14. OneHandler'
  BY <1>2, <1>3, <1>4, <1>5, NeverBefore DEF CacheInv, OneHandler, n
<1>15. HandlerAlone'
  BY <1>1, <1>2, <1>3, <1>4, <1>5, NeverBefore DEF CacheInv, HandlerAlone, D!Shown, n
<1>16. WritesArrive'
  <2>1. \A j : InHand(j)' <=> InHand(j)
    BY <1>1 DEF InHand
  <2>2. \A j \in 1..n : (OnTheWay(posts[j])' <=> OnTheWay(posts[j])) /\ (Owed(posts[j])' <=> Owed(posts[j]))
    BY <1>1, <1>4 DEF OnTheWay, Owed
  <2> QED
    BY <1>1, <1>2, <1>3, <1>4, <1>5, <1>6, <2>1, <2>2, NeverBefore DEF CacheInv, WritesArrive, D!Shown, n
<1> QED
  BY <1>8, <1>9, <1>10, <1>11, <1>12, <1>13, <1>14, <1>15, <1>16 DEF CacheInv

\* The server does what a post asks, or refuses, or its answer is lost.
LEMMA ServeKeeps == ASSUME CacheInv, NEW i \in DOMAIN posts, D!Serve(i) PROVE CacheInv'
<1> DEFINE n == Len(posts)
           h == posts[i].hook
<1>1. UNCHANGED <<key, page, query, draft>> /\ D!Next /\ posts[i].at = "sent"
  BY DEF D!Serve, D!Next
<1>2. CacheTyped /\ CountsUp /\ n \in Nat /\ posts \in Seq(Post) /\ served \subseteq 1..n /\ i \in 1..n /\ posts[i] \in Post
  BY <1>1, CacheCounts DEF CacheInv, CacheTyped
<1>3. i \notin served /\ Active(posts[i])
  BY <1>1, <1>2 DEF CacheInv, RefusedIsNowhere, Active
<1>4. PICK g \in {"ok", "nothing", "refused"} : posts' = [posts EXCEPT ![i].at = "answered", ![i].got = g] /\
          /\ served' \subseteq served \cup {i}
          /\ g = "refused" => i \notin served'
          /\ i \in served' => D!Touches(h, key)
          /\ g = "nothing" => ~D!Never({"unheard"})'
  <2>1. D!Uses({"unheard"}) => ~D!Never({"unheard"})'
    <3>1. {"unheard"} \in SUBSET D!Kinds
      BY DEF D!Kinds
    <3> QED
      BY <1>2, <3>1, CacheCounted
  <2> QED
    BY <1>3, <2>1 DEF D!Serve
<1> DEFINE p == [posts[i] EXCEPT !.at = "answered", !.got = g]
<1>5. /\ p \in Post /\ p.at = "answered" /\ p.got = g /\ p.hook = h /\ p.rest = posts[i].rest /\ p.leaves = posts[i].leaves
      /\ p.here = posts[i].here /\ p.awaits = posts[i].awaits /\ posts' = [posts EXCEPT ![i] = p]
  BY <1>2, <1>4 DEF Post
<1> HIDE DEF p, n
<1>6. /\ posts' \in Seq(Post) /\ Len(posts') = n /\ posts'[i] = p
      /\ \A j \in 1..n : j # i => posts'[j] = posts[j]
  BY <1>2, <1>5, PostsChange DEF n
<1>7. Active(p) /\ \A j \in 1..n : Active(posts'[j]) => Active(posts[j])
  BY <1>3, <1>5, <1>6 DEF Active
<1>8. CacheTyped'
  BY <1>1, <1>2, <1>4, <1>6 DEF CacheTyped, CountsUp, n
<1>9. HandlersSound'
  <2>1. PostSound(posts[i]) /\ (posts[i].here /\ Followed(key) /\ D!Shown => PostMends(posts[i], key, page))
    BY <1>2, <1>3 DEF CacheInv, HandlersSound, n
  <2>2. PostSound(p) /\ (p.here /\ Followed(key) /\ D!Shown => PostMends(p, key, page))
    BY <1>1, <1>5, <2>1 DEF PostSound, PostMends
  <2> QED
    BY <1>1, <1>6, <2>2 DEF CacheInv, HandlersSound, D!Shown, n
<1>10. RefusedIsNowhere'
  <2>1. \A j : Nowhere(j)' <=> Nowhere(j)
    BY <1>1 DEF Nowhere
  <2>2. D!Never({"flip"})' => D!Never({"flip"})
    BY <1>2, NeverBefore
  <2>3. \A j \in 1..n : j # i => (j \in served' => j \in served)
    BY <1>4
  <2>4. ASSUME D!Never({"flip"})' PROVE Nowhere(i)
    BY <1>1, <1>2, <2>2, <2>4 DEF CacheInv, RefusedIsNowhere, n
  <2> QED
    BY <1>4, <1>5, <1>6, <2>1, <2>2, <2>3, <2>4 DEF CacheInv, RefusedIsNowhere, n
<1>11. ListIsThere'
  BY <1>1, <1>2, <1>5, <1>6, <1>7, NeverBefore DEF CacheInv, ListIsThere, n
<1>12. FirstIsFetched'
  BY <1>1, <1>2, NeverBefore DEF CacheInv, FirstIsFetched, D!Shown
<1>13. DraftIsKept'
  BY <1>2, <1>3, NeverBefore DEF CacheInv, DraftIsKept, n
<1>14. OneHandler'
  BY <1>2, <1>6, <1>7, NeverBefore DEF CacheInv, OneHandler, n
<1>15. HandlerAlone'
  BY <1>1, <1>2, <1>5, <1>6, <1>7, NeverBefore DEF CacheInv, HandlerAlone, D!Shown, n
<1>16. WritesArrive'
  <2> SUFFICES ASSUME Followed(key), D!Shown, D!Never({"overlap", "unanswered", "unheard"})',
                      NEW j \in served', posts'[j].here
               PROVE  InHand(j) \/ OnTheWay(posts[j])' \/ \E k \in 1..n : Owed(posts[k])'
    <3>1. \A j : InHand(j)' <=> InHand(j)
      BY <1>1 DEF InHand
    <3> QED
      BY <1>1, <1>6, <3>1 DEF WritesArrive, D!Shown
  <2>1. \A k \in 1..n : k # i => (OnTheWay(posts[k])' <=> OnTheWay(posts[k])) /\ (Owed(posts[k])' <=> Owed(posts[k]))
    BY <1>1, <1>6 DEF OnTheWay, Owed
  <2>2. Owed(posts[i]) => Owed(posts[i])'
    BY <1>1, <1>5, <1>6, <1>7 DEF Owed
  <2>3. CASE j # i
    <3>1. j \in served /\ j \in 1..n /\ posts[j].here
      BY <1>2, <1>4, <1>6, <2>3
    <3>2. InHand(j) \/ OnTheWay(posts[j]) \/ \E k \in 1..n : Owed(posts[k])
      BY <1>2, <3>1, NeverBefore DEF CacheInv, WritesArrive, n
    <3> QED
      BY <2>1, <2>2, <2>3, <3>1, <3>2
  <2>4. CASE j = i
    <3>1. D!Touches(h, key) /\ g = "ok"
      BY <1>4, <2>4 DEF D!Never
    <3>2. PostMends(posts[i], key, page)
      BY <1>2, <1>3, <1>5, <1>6, <2>4 DEF CacheInv, HandlersSound, n
    <3>3. \/ Repairs(h, key, page)
          \/ p.rest = <<>> /\ p.leaves # "none"
          \/ h \in D!Unheeded /\ Owing(Elems(p.rest), key)
      BY <1>1, <1>5, <3>1, <3>2 DEF PostMends
    <3>4. \/ p.at = "answered" /\ p.got = "ok" /\ Repairs(p.hook, key, page)
          \/ p.at \in {"answered", "settled"} /\ p.got = "ok" /\ p.rest = <<>> /\ p.leaves # "none"
          \/ Active(p) /\ p.here /\ Owing(Elems(p.rest), key) /\ (p.at # "settled" => p.hook \in D!Unheeded)
      BY <1>5, <1>6, <1>7, <2>4, <3>1, <3>3
    <3>5. OnTheWay(posts[i])' \/ Owed(posts[i])'
      BY <1>1, <1>6, <3>4 DEF OnTheWay, Owed
    <3> QED
      BY <1>2, <2>4, <3>5
  <2> QED
    BY <2>3, <2>4
<1> QED
  BY <1>8, <1>9, <1>10, <1>11, <1>12, <1>13, <1>14, <1>15, <1>16 DEF CacheInv

-----------------------------------------------------------------------------
(* The cache: answers and follow-ups keep the strengthening.               *)

\* A step of a handler that patches, or invalidates, what one of its hooks does.
LEMMA EffectsKeep ==
    ASSUME CacheInv, CountsUp, UNCHANGED <<key, page, served>>, NEW i \in 1..Len(posts), Active(posts[i]),
           NEW p \in Post, posts' = [posts EXCEPT ![i] = p], posts[i].at # "sent", p.at \in {"settled", "done"},
           p.hook = posts[i].hook, p.got = posts[i].got, p.here = posts[i].here, Elems(p.rest) \subseteq Elems(posts[i].rest),
           NEW h \in {posts[i].hook} \cup Elems(posts[i].rest), h \in DOMAIN D!Mutations,
           query' = D!Effects(query, h, i) \/ query' = query, draft' = D!Reseeded(query'),
           posts[i].got = "refused" /\ D!Mutations[posts[i].hook].checked => query'.shows = query.shows
    PROVE  /\ CacheTyped' /\ RefusedIsNowhere' /\ ListIsThere' /\ FirstIsFetched' /\ DraftIsKept' /\ OneHandler'
           /\ posts' \in Seq(Post) /\ Len(posts') = Len(posts) /\ posts'[i] = p
           /\ \A j \in 1..Len(posts) : j # i => posts'[j] = posts[j]
           \* what is at hand stays so
           /\ \A j : InHand(j) => InHand(j)'
           /\ query.has => query'.has
           /\ \/ query'.fetch = query.fetch
              \/ query'.fetch = "sent" /\ query' = D!Effects(query, h, i) /\ key \in D!Mutations[h].invalidates
<1> DEFINE n == Len(posts)
<1>1. CacheTyped /\ n \in Nat /\ posts \in Seq(Post) /\ served \subseteq 1..n /\ query \in Entry(n)
  BY DEF CacheInv, CacheTyped
<1> HIDE DEF n
<1>2. /\ posts' \in Seq(Post) /\ Len(posts') = n /\ posts'[i] = p
      /\ \A j \in 1..n : j # i => posts'[j] = posts[j]
  BY <1>1, PostsChange DEF n
<1>3. /\ query' \in Entry(n)
      /\ query'.has => query.has \/ key \in D!Mutations[h].patches
      /\ query.has => query'.has
      /\ query'.shows = query.shows \/ query'.shows = query.shows \cup {i}
      /\ \/ query'.fetch = query.fetch /\ query'.reply = query.reply
         \/ /\ query'.fetch = "sent" /\ query'.reply = {}
            /\ query' = D!Effects(query, h, i) /\ key \in D!Mutations[h].invalidates
  <2>1. CASE query' = query
    BY <1>1, <2>1
  <2>2. CASE query' = D!Effects(query, h, i)
    BY <1>1, <2>2, EffectsDo DEF n
  <2> QED
    BY <2>1, <2>2
<1>4. draft' \in Draft
  BY <1>1, <1>3, ReseededDoes
<1>5. CacheTyped'
  BY <1>1, <1>2, <1>3, <1>4 DEF CacheTyped, CountsUp
<1>6. \A j \in 1..n : Active(posts'[j]) => Active(posts[j])
  BY <1>2 DEF Active
<1>7. RefusedIsNowhere'
  <2>1. \A j \in 1..n : j # i => (Nowhere(j) => Nowhere(j)')
    BY <1>3 DEF Nowhere
  <2>2. query'.shows = query.shows => \A j : Nowhere(j) => Nowhere(j)'
    BY <1>3 DEF Nowhere
  <2>3. D!Never({"flip"})' => D!Never({"flip"})
    BY NeverBefore
  <2>4. ASSUME NEW j \in 1..n PROVE posts'[j].at = "sent" => j \notin served'
    BY <1>2, <2>4 DEF CacheInv, RefusedIsNowhere, n
  <2>5. ASSUME D!Never({"flip"})', NEW j \in 1..n,
               posts'[j].at = "sent" \/ (posts'[j].got = "refused" /\ D!Mutations[posts'[j].hook].checked)
        PROVE  Nowhere(j)' /\ j \notin served'
    <3>1. CASE j # i
      BY <1>2, <2>1, <2>3, <2>5, <3>1 DEF CacheInv, RefusedIsNowhere, n
    <3>2. CASE j = i
      BY <1>2, <2>2, <2>3, <2>5, <3>2 DEF CacheInv, RefusedIsNowhere, n
    <3> QED
      BY <3>1, <3>2
  <2> QED
    BY <1>2, <2>4, <2>5 DEF RefusedIsNowhere
<1>8. ListIsThere'
  <2> SUFFICES ASSUME D!Never({"early", "unanswered"})'
               PROVE  /\ query'.has => 0 \in query'.shows
                      /\ query'.fetch = "read" => 0 \in query'.reply
                      /\ \A j \in 1..n : Active(posts'[j]) =>
                            \A g \in {posts'[j].hook} \cup Elems(posts'[j].rest) : key \in D!Mutations[g].patches => query'.has
    BY <1>2 DEF ListIsThere
  <2>1. /\ query.has => 0 \in query.shows
        /\ query.fetch = "read" => 0 \in query.reply
        /\ \A j \in 1..n : Active(posts[j]) =>
              \A g \in {posts[j].hook} \cup Elems(posts[j].rest) : key \in D!Mutations[g].patches => query.has
    BY NeverBefore DEF CacheInv, ListIsThere, n
  <2>2. query'.has => query.has
    BY <1>3, <2>1 DEF n
  <2>3. \A j \in 1..n : posts'[j].hook = posts[j].hook /\ Elems(posts'[j].rest) \subseteq Elems(posts[j].rest)
    BY <1>2
  <2> QED
    BY <1>3, <1>6, <2>1, <2>2, <2>3
<1>9. FirstIsFetched'
  BY <1>3, NeverBefore DEF CacheInv, FirstIsFetched, D!Shown
<1>10. DraftIsKept'
  BY NeverBefore DEF CacheInv, DraftIsKept
<1>11. OneHandler'
  BY <1>2, <1>6, NeverBefore DEF CacheInv, OneHandler, n
<1>12. \A j : InHand(j) => InHand(j)'
  BY <1>3 DEF InHand
<1> QED
  BY <1>2, <1>3, <1>5, <1>7, <1>8, <1>9, <1>10, <1>11, <1>12 DEF n

\* The tab hears an answer.
LEMMA SettleKeeps == ASSUME CacheInv, NEW i \in DOMAIN posts, D!Settle(i) PROVE CacheInv'
<1> DEFINE n == Len(posts)
           h == posts[i].hook
           rest == posts[i].rest
           on == (posts[i].got = "ok" \/ h \in D!Unheeded) /\ (rest # <<>> \/ posts[i].leaves # "none")
           p == [posts[i] EXCEPT !.at = IF on THEN "settled" ELSE "done",
                                 !.awaits = D!Shown /\ key \in D!Mutations[h].invalidates]
<1>1. UNCHANGED <<key, page, served>> /\ D!Next /\ posts[i].at = "answered"
  BY DEF D!Settle, D!Next
<1>2. /\ CacheTyped /\ CountsUp /\ n \in Nat /\ posts \in Seq(Post) /\ served \subseteq 1..n /\ i \in 1..n
      /\ posts[i] \in Post /\ h \in DOMAIN D!Mutations
  <2>1. CacheTyped /\ CountsUp /\ n \in Nat /\ posts \in Seq(Post) /\ served \subseteq 1..n /\ i \in 1..n /\ posts[i] \in Post
    BY <1>1, CacheCounts DEF CacheInv, CacheTyped
  <2>2. h \in DOMAIN D!Mutations
    BY <2>1 DEF Post
  <2> QED
    BY <2>1, <2>2
<1>3. Active(posts[i])
  BY <1>1 DEF Active
<1>4. /\ p \in Post /\ p.at = IF on THEN "settled" ELSE "done"
      /\ p.awaits = (D!Shown /\ key \in D!Mutations[h].invalidates)
      /\ p.hook = h /\ p.got = posts[i].got /\ p.rest = rest /\ p.leaves = posts[i].leaves /\ p.here = posts[i].here
  BY <1>2 DEF Post
<1>5. posts' = [posts EXCEPT ![i] = p]
  BY <1>2 DEF D!Settle
<1>6. /\ query' = D!Effects(query, h, i) \/ query' = query
      /\ draft' = D!Reseeded(query')
      /\ posts[i].got = "ok" => query' = D!Effects(query, h, i)
      /\ posts[i].got = "refused" /\ D!Mutations[h].checked => query' = query
  BY DEF D!Settle, D!Stores, D!Succeeds
<1> HIDE DEF p, n, on
<1>7. p.at \in {"settled", "done"} /\ (Active(p) => p.at = "settled" /\ on)
  BY <1>4 DEF Active
<1>8. /\ CacheTyped' /\ RefusedIsNowhere' /\ ListIsThere' /\ FirstIsFetched' /\ DraftIsKept' /\ OneHandler'
      /\ Len(posts') = n /\ posts'[i] = p
      /\ \A j \in 1..n : j # i => posts'[j] = posts[j]
      /\ \A j : InHand(j) => InHand(j)'
      /\ query.has => query'.has
      /\ query'.fetch = query.fetch \/ (query'.fetch = "sent" /\ key \in D!Mutations[h].invalidates)
  BY <1>1, <1>2, <1>3, <1>4, <1>5, <1>6, <1>7, EffectsKeep DEF n
<1>9. \A j \in 1..n : Active(posts'[j]) => Active(posts[j])
  BY <1>3, <1>8
<1>10. HandlersSound'
  <2>1. PostSound(posts[i]) /\ (posts[i].here /\ Followed(key) /\ D!Shown => PostMends(posts[i], key, page))
    BY <1>2, <1>3 DEF CacheInv, HandlersSound, n
  <2>2. ASSUME Active(p) PROVE PostSound(p) /\ (p.here /\ Followed(key) /\ D!Shown => PostMends(p, key, page))
    BY <1>4, <1>7, <2>1, <2>2 DEF PostSound, PostMends, on
  <2> QED
    BY <1>1, <1>8, <2>2 DEF CacheInv, HandlersSound, D!Shown, n
<1>11. HandlerAlone'
  <2> SUFFICES ASSUME D!Never({"overlap", "unanswered"})', D!Shown, NEW j \in 1..n, Active(posts'[j]), posts'[j].here
               PROVE  /\ query'.has
                      /\ Followed(key) /\ page # "ProjectDeployPage" =>
                            query'.fetch = "idle" \/ (posts'[j].at = "settled" /\ posts'[j].awaits)
    BY <1>1, <1>8 DEF HandlerAlone, D!Shown
  <2>1. D!Never({"overlap", "unanswered"}) /\ D!Never({"overlap"})
    BY <1>2, NeverBefore DEF D!Never
  <2>2. j = i
    BY <1>2, <1>3, <1>9, <2>1 DEF CacheInv, OneHandler, n
  <2>3. posts[i].here /\ posts'[j] = p
    BY <1>4, <1>8, <2>2
  <2>4. query.has /\ (Followed(key) /\ page # "ProjectDeployPage" => query.fetch = "idle")
    BY <1>1, <1>2, <1>3, <2>1, <2>3 DEF CacheInv, HandlerAlone, n
  <2>5. query'.fetch = query.fetch \/ p.awaits
    BY <1>4, <1>8
  <2> QED
    BY <1>7, <1>8, <2>2, <2>3, <2>4, <2>5
<1>12. WritesArrive'
  <2> SUFFICES ASSUME Followed(key), D!Shown, D!Never({"overlap", "unanswered", "unheard"})',
                      NEW j \in served, posts'[j].here
               PROVE  InHand(j)' \/ OnTheWay(posts[j])' \/ \E k \in 1..n : Owed(posts[k])'
    BY <1>1, <1>8 DEF WritesArrive, D!Shown
  <2>1. D!Never({"overlap", "unanswered", "unheard"}) /\ D!Never({"overlap", "unanswered"})
    BY <1>2, NeverBefore DEF D!Never
  <2>2. \A k \in 1..n : k # i => (OnTheWay(posts[k])' <=> OnTheWay(posts[k])) /\ (Owed(posts[k])' <=> Owed(posts[k]))
    BY <1>1, <1>8 DEF OnTheWay, Owed
  <2>3. j \in 1..n /\ posts[j].here
    BY <1>2, <1>4, <1>8
  <2>4. CASE InHand(j)
    BY <1>8, <2>4
  <2>5. CASE \E k \in 1..n : Owed(posts[k])
    <3>1. PICK k \in 1..n : Owed(posts[k])
      BY <2>5
    <3>2. CASE k = i
      <4>1. posts[i].here /\ Owing(Elems(rest), key) /\ h \in D!Unheeded
        BY <1>1, <3>1, <3>2 DEF Owed
      <4>2. rest # <<>>
        BY <4>1 DEF Owing, Elems
      <4>3. on
        BY <4>1, <4>2 DEF on
      <4>4. Owed(posts[i])'
        BY <1>1, <1>4, <1>8, <4>1, <4>3 DEF Owed, Active
      <4> QED
        BY <1>2, <4>4
    <3> QED
      BY <2>2, <3>1, <3>2
  <2>6. CASE OnTheWay(posts[j]) /\ j # i
    BY <2>2, <2>3, <2>6
  <2>7. CASE OnTheWay(posts[j]) /\ j = i
    <3>1. posts[i].got = "ok" /\ posts[i].here /\ (Repairs(h, key, page) \/ (rest = <<>> /\ posts[i].leaves # "none"))
      BY <1>1, <2>3, <2>7 DEF OnTheWay
    <3>2. CASE rest = <<>> /\ posts[i].leaves # "none"
      <4>1. on
        BY <3>1, <3>2 DEF on
      <4>2. OnTheWay(posts[i])'
        BY <1>1, <1>4, <1>8, <3>1, <3>2, <4>1 DEF OnTheWay
      <4> QED
        BY <2>7, <4>2
    <3>3. CASE Repairs(h, key, page)
      <4>1. query.has /\ (page # "ProjectDeployPage" => query.fetch = "idle")
        BY <1>1, <1>2, <1>3, <2>1, <3>1 DEF CacheInv, HandlerAlone, n
      <4>2. query' = D!Effects(query, h, i)
        BY <1>6, <3>1
      <4>3. InHand(i)'
        BY <1>2, <3>3, <4>1, <4>2, EffectsDo DEF InHand, Repairs, n
      <4> QED
        BY <2>7, <4>3
    <3> QED
      BY <3>1, <3>2, <3>3
  <2>8. InHand(j) \/ OnTheWay(posts[j]) \/ \E k \in 1..n : Owed(posts[k])
    BY <2>1, <2>3 DEF CacheInv, WritesArrive, n
  <2> QED
    BY <2>4, <2>5, <2>6, <2>7, <2>8
<1> QED
  BY <1>8, <1>10, <1>11, <1>12 DEF CacheInv

-----------------------------------------------------------------------------
(* The cache: the next steps of a handler keep the strengthening.          *)

\* What a handler that is not done has left.
LEMMA RestLeft ==
    ASSUME CacheInv, NEW i \in DOMAIN posts, posts[i].rest # <<>>
    PROVE  LET rest == posts[i].rest
               next == D!Ahead(Tail(rest), key) IN
           /\ posts[i] \in Post /\ i \in 1..Len(posts) /\ rest \in Steps /\ next \in Steps
           /\ rest[1] \in Elems(rest) /\ Elems(rest) \subseteq DOMAIN D!Mutations
           /\ Elems(next) \subseteq Elems(rest)
           /\ \A h \in Elems(rest) : D!Concerns(h, key) /\ h # rest[1] => h \in Elems(next)
           /\ PostsFirst(rest) => PostsFirst(next) /\ (~D!Posts(rest[1]) => \A h \in Elems(rest) : ~D!Posts(h))
<1>1. posts[i] \in Post /\ i \in 1..Len(posts)
  BY DEF CacheInv, CacheTyped
<1> DEFINE rest == posts[i].rest
           tail == Tail(rest)
           next == D!Ahead(tail, key)
<1>2. rest \in Steps /\ rest # <<>>
  BY <1>1 DEF Post
<1> HIDE DEF rest
<1>3. /\ tail \in Steps /\ rest[1] \in Elems(rest) /\ (\A h : h \in Elems(rest) <=> h = rest[1] \/ h \in Elems(tail))
      /\ Elems(rest) \subseteq DOMAIN D!Mutations
      /\ PostsFirst(rest) => PostsFirst(tail) /\ (~D!Posts(rest[1]) => \A h \in Elems(rest) : ~D!Posts(h))
  BY <1>2, TailKeeps
<1> HIDE DEF tail
<1>4. /\ next \in Steps /\ Elems(next) \subseteq Elems(tail)
      /\ \A h \in Elems(tail) : D!Concerns(h, key) => h \in Elems(next)
      /\ PostsFirst(tail) => PostsFirst(next)
  BY <1>3, AheadKeeps
<1> HIDE DEF next
<1>5. /\ Elems(next) \subseteq Elems(rest)
      /\ \A h \in Elems(rest) : D!Concerns(h, key) /\ h # rest[1] => h \in Elems(next)
      /\ PostsFirst(rest) => PostsFirst(next)
  BY <1>3, <1>4
<1> QED
  BY <1>1, <1>2, <1>3, <1>4, <1>5 DEF rest, tail, next

\* What is owed stays owed, but for what the step does.
LEMMA OwingStays ==
    ASSUME NEW hooks, NEW left \in SUBSET hooks, NEW h \in hooks, NEW k, Owing(hooks, k), ~Refetches(h, k),
           \A g \in hooks : D!Concerns(g, k) /\ g # h => g \in left
    PROVE  Owing(left, k)
BY DEF Owing, Refetches, D!Concerns

\* A follow-up.
LEMMA FollowUpKeeps == ASSUME CacheInv, NEW i \in DOMAIN posts, D!FollowUp(i) PROVE CacheInv'
<1> DEFINE n == Len(posts)
           rest == posts[i].rest
           h == rest[1]
           next == D!Ahead(Tail(rest), key)
           on == next # <<>> \/ posts[i].leaves # "none"
           p == [posts[i] EXCEPT !.rest = next, !.at = IF on THEN "settled" ELSE "done",
                                 !.awaits = D!Shown /\ key \in D!Mutations[h].invalidates]
<1>1. /\ UNCHANGED <<key, page, served>> /\ D!Next /\ posts[i].at = "settled" /\ rest # <<>> /\ ~D!Posts(h)
      /\ posts[i].awaits => query.fetch = "idle"
  BY DEF D!FollowUp, D!Proceeds, D!Next
<1>2. CacheTyped /\ CountsUp /\ n \in Nat /\ posts \in Seq(Post) /\ served \subseteq 1..n /\ i \in 1..n /\ posts[i] \in Post
  BY <1>1, CacheCounts DEF CacheInv, CacheTyped
<1>3. Active(posts[i])
  BY <1>1 DEF Active
<1>4. /\ next \in Steps /\ h \in Elems(rest) /\ h \in DOMAIN D!Mutations /\ Elems(next) \subseteq Elems(rest)
      /\ \A g \in Elems(rest) : D!Concerns(g, key) /\ g # h => g \in Elems(next)
      /\ PostsFirst(rest) => PostsFirst(next) /\ \A g \in Elems(rest) : ~D!Posts(g)
  BY <1>1, RestLeft
<1>5. posts' = [posts EXCEPT ![i] = p] /\ query' = D!Effects(query, h, i) /\ draft' = D!Reseeded(query')
  BY <1>2 DEF D!FollowUp, D!Stores
<1> HIDE DEF next, on, n
<1>6. /\ p \in Post /\ p.at = IF on THEN "settled" ELSE "done"
      /\ p.awaits = (D!Shown /\ key \in D!Mutations[h].invalidates)
      /\ p.hook = posts[i].hook /\ p.got = posts[i].got /\ p.rest = next /\ p.leaves = posts[i].leaves /\ p.here = posts[i].here
  BY <1>2, <1>4 DEF Post
<1> HIDE DEF p
<1>7. p.at \in {"settled", "done"} /\ (Active(p) => p.at = "settled" /\ on)
  BY <1>6 DEF Active
<1>8. PostSound(posts[i]) /\ (posts[i].here /\ Followed(key) /\ D!Shown => PostMends(posts[i], key, page))
  BY <1>2, <1>3 DEF CacheInv, HandlersSound, n
<1>9. posts[i].got = "refused" /\ D!Mutations[posts[i].hook].checked => query'.shows = query.shows
  <2> SUFFICES ASSUME posts[i].got = "refused", D!Mutations[posts[i].hook].checked PROVE query'.shows = query.shows
    OBVIOUS
  <2>1. posts[i].hook \in D!Unheeded /\ Harmless({posts[i].hook} \cup Elems(rest))
    BY <1>1, <1>8 DEF PostSound
  <2>2. D!Mutations[h].patches = {}
    BY <1>4, <2>1 DEF Harmless
  <2> QED
    BY <1>2, <1>4, <1>5, <2>2, EffectsDo DEF n
<1>10. /\ CacheTyped' /\ RefusedIsNowhere' /\ ListIsThere' /\ FirstIsFetched' /\ DraftIsKept' /\ OneHandler'
       /\ Len(posts') = n /\ posts'[i] = p
       /\ \A j \in 1..n : j # i => posts'[j] = posts[j]
       /\ \A j : InHand(j) => InHand(j)'
       /\ query.has => query'.has
       /\ query'.fetch = query.fetch \/ (query'.fetch = "sent" /\ key \in D!Mutations[h].invalidates)
  <2> HIDE DEF h
  <2>1. posts[i].at # "sent" /\ Elems(p.rest) \subseteq Elems(rest)
    BY <1>1, <1>4, <1>6
  <2> QED
    BY <1>1, <1>2, <1>3, <1>4, <1>5, <1>6, <1>7, <1>9, <2>1, EffectsKeep DEF n
<1>11. \A j \in 1..n : Active(posts'[j]) => Active(posts[j])
  BY <1>3, <1>10
<1>12. HandlersSound'
  <2>1. ASSUME Active(p) PROVE PostSound(p) /\ (p.here /\ Followed(key) /\ D!Shown => PostMends(p, key, page))
    <3>1. Harmless({p.hook} \cup Elems(p.rest))
      BY <1>4, <1>6, <1>8 DEF PostSound, Harmless
    <3>2. \A g \in Elems(p.rest) : ~D!Posts(g)
      BY <1>4, <1>6, <1>8 DEF PostSound
    <3>3. PostsFirst(p.rest)
      BY <1>4, <1>6, <1>8 DEF PostSound
    <3>4. p.got = "ok" \/ p.hook \in D!Unheeded
      BY <1>1, <1>6, <1>8 DEF PostSound
    <3>5. p.rest = <<>> => p.leaves # "none"
      BY <1>6, <1>7, <2>1 DEF on
    <3> QED
      BY <1>7, <2>1, <3>1, <3>2, <3>3, <3>4, <3>5 DEF PostSound, PostMends
  <2> QED
    BY <1>1, <1>10, <2>1 DEF CacheInv, HandlersSound, D!Shown, n
<1>13. HandlerAlone'
  <2> SUFFICES ASSUME D!Never({"overlap", "unanswered"})', D!Shown, NEW j \in 1..n, Active(posts'[j]), posts'[j].here
               PROVE  /\ query'.has
                      /\ Followed(key) /\ page # "ProjectDeployPage" =>
                            query'.fetch = "idle" \/ (posts'[j].at = "settled" /\ posts'[j].awaits)
    BY <1>1, <1>10 DEF HandlerAlone, D!Shown
  <2>1. D!Never({"overlap", "unanswered"}) /\ D!Never({"overlap"})
    BY <1>2, NeverBefore DEF D!Never
  <2>2. j = i
    BY <1>2, <1>3, <1>11, <2>1 DEF CacheInv, OneHandler, n
  <2>3. posts[i].here /\ posts'[j] = p
    BY <1>6, <1>10, <2>2
  <2>4. query.has /\ (Followed(key) /\ page # "ProjectDeployPage" => query.fetch = "idle")
    BY <1>1, <1>2, <1>3, <2>1, <2>3 DEF CacheInv, HandlerAlone, n
  <2>5. query'.fetch = query.fetch \/ p.awaits
    BY <1>6, <1>10
  <2> QED
    BY <1>7, <1>10, <2>2, <2>3, <2>4, <2>5
<1>14. WritesArrive'
  <2> SUFFICES ASSUME Followed(key), D!Shown, D!Never({"overlap", "unanswered", "unheard"})',
                      NEW j \in served, posts'[j].here
               PROVE  InHand(j)' \/ OnTheWay(posts[j])' \/ \E k \in 1..n : Owed(posts[k])'
    BY <1>1, <1>10 DEF WritesArrive, D!Shown
  <2>1. D!Never({"overlap", "unanswered", "unheard"}) /\ D!Never({"overlap", "unanswered"})
    BY <1>2, NeverBefore DEF D!Never
  <2>2. \A k \in 1..n : k # i => (OnTheWay(posts[k])' <=> OnTheWay(posts[k])) /\ (Owed(posts[k])' <=> Owed(posts[k]))
    BY <1>1, <1>10 DEF OnTheWay, Owed
  <2>3. j \in 1..n /\ posts[j].here
    BY <1>2, <1>6, <1>10
  <2>4. CASE InHand(j)
    BY <1>10, <2>4
  <2>5. CASE \E k \in 1..n : Owed(posts[k])
    <3>1. PICK k \in 1..n : Owed(posts[k])
      BY <2>5
    <3>2. CASE k = i
      <4>1. posts[i].here /\ Owing(Elems(rest), key)
        BY <3>1, <3>2 DEF Owed
      <4>2. CASE key \in D!Mutations[h].invalidates
        <5>1. query.has
          BY <1>2, <1>3, <2>1, <4>1 DEF CacheInv, HandlerAlone, n
        <5>2. query'.fetch = "sent"
          BY <1>2, <1>4, <1>5, <4>2, <5>1, EffectsDo DEF n
        <5> QED
          BY <5>2 DEF InHand
      <4>3. CASE key \notin D!Mutations[h].invalidates
        <5>1. ~Refetches(h, key)
          BY <4>3 DEF Refetches
        <5>2. Owing(Elems(next), key)
          BY <1>4, <4>1, <5>1, OwingStays
        <5>3. on
          BY <5>2 DEF on, Owing, Elems
        <5>4. Owed(posts[i])'
          BY <1>1, <1>6, <1>10, <4>1, <5>2, <5>3 DEF Owed, Active
        <5> QED
          BY <1>2, <5>4
      <4> QED
        BY <4>2, <4>3
    <3> QED
      BY <2>2, <3>1, <3>2
  <2>6. CASE OnTheWay(posts[j])
    <3>1. j # i
      BY <1>1, <2>6 DEF OnTheWay
    <3> QED
      BY <2>2, <2>3, <2>6, <3>1
  <2>7. InHand(j) \/ OnTheWay(posts[j]) \/ \E k \in 1..n : Owed(posts[k])
    BY <2>1, <2>3 DEF CacheInv, WritesArrive, n
  <2> QED
    BY <2>4, <2>5, <2>6, <2>7
<1> QED
  BY <1>10, <1>12, <1>13, <1>14 DEF CacheInv

-----------------------------------------------------------------------------
(* The cache: the next request, and another page, keep the strengthening.  *)

\* The next request of a handler.
LEMMA NextPostKeeps == ASSUME CacheInv, NEW i \in DOMAIN posts, D!NextPost(i) PROVE CacheInv'
<1> DEFINE n == Len(posts)
           rest == posts[i].rest
           h == rest[1]
           next == D!Ahead(Tail(rest), key)
           o == [posts[i] EXCEPT !.at = "done", !.rest = <<>>]
           p == [D!Begun(h, next, posts[i].leaves) EXCEPT !.here = posts[i].here]
<1>1. /\ UNCHANGED <<key, page, served, query, draft>> /\ D!Next /\ posts[i].at = "settled" /\ rest # <<>> /\ D!Posts(h)
      /\ posts[i].awaits => query.fetch = "idle"
  BY DEF D!NextPost, D!Proceeds, D!Next
<1>2. CacheTyped /\ CountsUp /\ n \in Nat /\ posts \in Seq(Post) /\ served \subseteq 1..n /\ i \in 1..n /\ posts[i] \in Post
  BY <1>1, CacheCounts DEF CacheInv, CacheTyped
<1>3. Active(posts[i])
  BY <1>1 DEF Active
<1>4. /\ next \in Steps /\ h \in Elems(rest) /\ h \in DOMAIN D!Mutations /\ Elems(next) \subseteq Elems(rest)
      /\ \A g \in Elems(rest) : D!Concerns(g, key) /\ g # h => g \in Elems(next)
      /\ PostsFirst(rest) => PostsFirst(next)
  BY <1>1, RestLeft
<1>5. posts' = Append([posts EXCEPT ![i] = o], p)
  BY <1>2 DEF D!NextPost
<1>6. o \in Post /\ o.at = "done" /\ o.hook = posts[i].hook /\ o.got = posts[i].got /\ o.here = posts[i].here /\ ~Active(o)
  <2>1. <<>> \in Steps
    BY DEF Steps
  <2> QED
    BY <1>2, <2>1 DEF Post, Active
<1> HIDE DEF next
<1>7. /\ p \in Post /\ p.hook = h /\ p.rest = next /\ p.leaves = posts[i].leaves /\ p.at = "sent" /\ p.got = "none"
      /\ p.here = posts[i].here /\ Active(p)
  <2> DEFINE b == D!Begun(h, next, posts[i].leaves)
  <2>1. posts[i].leaves \in DOMAIN D!Pages \cup {"none"} /\ posts[i].here \in BOOLEAN /\ draft.base \in SUBSET Nat
    BY <1>2 DEF Post, CacheTyped, Draft
  <2>2. b \in Post /\ b.hook = h /\ b.rest = next /\ b.leaves = posts[i].leaves /\ b.at = "sent" /\ b.got = "none"
    BY <1>4, <2>1 DEF D!Begun, Post
  <2> HIDE DEF b
  <2>3. p = [b EXCEPT !.here = posts[i].here]
    BY DEF b
  <2> QED
    BY <2>1, <2>2, <2>3 DEF Post, Active
<1> HIDE DEF o, p, n
<1>8. /\ posts' \in Seq(Post) /\ Len(posts') = n + 1 /\ posts'[n + 1] = p /\ posts'[i] = o
      /\ \A j \in 1..n : j # i => posts'[j] = posts[j]
  <2> DEFINE ps == [posts EXCEPT ![i] = o]
  <2>1. ps \in Seq(Post) /\ Len(ps) = n /\ ps[i] = o /\ \A j \in 1..n : j # i => ps[j] = posts[j]
    BY <1>2, <1>6, PostsChange DEF n
  <2> HIDE DEF ps
  <2>2. /\ Append(ps, p) \in Seq(Post) /\ Len(Append(ps, p)) = n + 1 /\ Append(ps, p)[n + 1] = p
        /\ \A j \in 1..n : Append(ps, p)[j] = ps[j]
    BY <1>7, <2>1, PostsChange
  <2>3. posts' = Append(ps, p)
    BY <1>5 DEF ps
  <2> QED
    BY <1>2, <2>1, <2>2, <2>3
<1>9. \A j \in 1..Len(posts') : j = n + 1 \/ j = i \/ (j \in 1..n /\ j # i)
  BY <1>2, <1>8
<1>10. PostSound(posts[i]) /\ (posts[i].here /\ Followed(key) /\ D!Shown => PostMends(posts[i], key, page))
  BY <1>2, <1>3 DEF CacheInv, HandlersSound, n
<1>11. Owing(Elems(rest), key) => h \in D!Unheeded /\ Owing(Elems(next), key)
  <2>1. ~Refetches(h, key)
    BY <1>1 DEF Refetches
  <2>2. Owing(Elems(rest), key) => h \in D!Unheeded
    BY <1>1, <1>4 DEF Owing
  <2> QED
    BY <1>4, <2>1, <2>2, OwingStays
<1>12. CacheTyped'
  <2>1. query \in Entry(n + 1)
    BY <1>2, EntryGrows DEF CacheTyped, n
  <2>2. served \subseteq 1..(n + 1)
    BY <1>2
  <2> QED
    BY <1>1, <1>2, <1>8, <2>1, <2>2 DEF CacheTyped, CountsUp
<1>13. HandlersSound'
  <2>1. PostSound(p)
    <3>1. PostsFirst(p.rest) /\ Harmless({p.hook} \cup Elems(p.rest))
      BY <1>4, <1>7, <1>10 DEF PostSound, Harmless
    <3> QED
      BY <1>7, <3>1 DEF PostSound
  <2>2. ASSUME p.here, Followed(key), D!Shown PROVE PostMends(p, key, page)
    <3>1. \A g \in Elems(rest) : D!Posts(g) /\ D!Touches(g, key) => Repairs(g, key, page) \/ Owing(Elems(rest), key)
      BY <1>7, <1>10, <2>2 DEF PostMends
    <3>2. \A g \in Elems(next) : D!Posts(g) /\ D!Touches(g, key) => Repairs(g, key, page) \/ Owing(Elems(next), key)
      BY <1>4, <1>11, <3>1
    <3>3. D!Touches(h, key) => Repairs(h, key, page) \/ (h \in D!Unheeded /\ Owing(Elems(next), key))
      BY <1>1, <1>4, <1>11, <3>1
    <3> QED
      BY <1>7, <3>2, <3>3 DEF PostMends
  <2> QED
    BY <1>1, <1>6, <1>8, <1>9, <2>1, <2>2 DEF CacheInv, HandlersSound, D!Shown, n
<1>14. RefusedIsNowhere'
  <2>1. \A j : Nowhere(j)' <=> Nowhere(j)
    BY <1>1 DEF Nowhere
  <2>2. Nowhere(n + 1) /\ n + 1 \notin served
    BY <1>2, EntryGrows DEF CacheTyped, Nowhere, n
  <2>3. D!Never({"flip"})' => D!Never({"flip"})
    BY <1>2, NeverBefore
  <2>4. ASSUME NEW j \in 1..Len(posts') PROVE posts'[j].at = "sent" => j \notin served'
    BY <1>1, <1>6, <1>8, <1>9, <2>2, <2>4 DEF CacheInv, RefusedIsNowhere, n
  <2>5. ASSUME D!Never({"flip"})', NEW j \in 1..Len(posts'),
               posts'[j].at = "sent" \/ (posts'[j].got = "refused" /\ D!Mutations[posts'[j].hook].checked)
        PROVE  Nowhere(j)' /\ j \notin served'
    <3>1. CASE j = n + 1
      BY <1>1, <2>1, <2>2, <3>1
    <3>2. CASE j = i
      BY <1>1, <1>2, <1>6, <1>8, <2>1, <2>3, <2>5, <3>2 DEF CacheInv, RefusedIsNowhere, n
    <3>3. CASE j \in 1..n /\ j # i
      BY <1>1, <1>8, <2>1, <2>3, <2>5, <3>3 DEF CacheInv, RefusedIsNowhere, n
    <3> QED
      BY <1>9, <3>1, <3>2, <3>3
  <2> QED
    BY <2>4, <2>5 DEF RefusedIsNowhere
<1>15. ListIsThere'
  <2>1. ASSUME D!Never({"early", "unanswered"}) PROVE \A g \in {h} \cup Elems(next) : key \in D!Mutations[g].patches => query.has
    BY <1>2, <1>3, <1>4, <2>1 DEF CacheInv, ListIsThere, n
  <2> QED
    BY <1>1, <1>2, <1>6, <1>7, <1>8, <1>9, <2>1, NeverBefore DEF CacheInv, ListIsThere, n
<1>16. FirstIsFetched'
  BY <1>1, <1>2, NeverBefore DEF CacheInv, FirstIsFetched, D!Shown
<1>17. DraftIsKept'
  BY <1>2, <1>3, NeverBefore DEF CacheInv, DraftIsKept, n
<1>18. OneHandler'
  <2>1. ASSUME D!Never({"overlap"})', NEW j \in 1..Len(posts'), Active(posts'[j]) PROVE j = n + 1
    <3>1. j = n + 1 \/ (j \in 1..n /\ j # i /\ Active(posts[j]))
      BY <1>6, <1>8, <1>9, <2>1
    <3>2. j \in 1..n /\ Active(posts[j]) => j = i
      BY <1>2, <1>3, <2>1, NeverBefore DEF CacheInv, OneHandler, n
    <3> QED
      BY <3>1, <3>2
  <2> QED
    BY <2>1 DEF OneHandler
<1>19. HandlerAlone'
  <2> SUFFICES ASSUME D!Never({"overlap", "unanswered"})', D!Shown, NEW j \in 1..Len(posts'), Active(posts'[j]), posts'[j].here
               PROVE  query.has /\ (Followed(key) /\ page # "ProjectDeployPage" => query.fetch = "idle")
    BY <1>1 DEF HandlerAlone, D!Shown
  <2>1. D!Never({"overlap", "unanswered"}) /\ D!Never({"overlap"})
    BY <1>2, NeverBefore DEF D!Never
  <2>2. j = n + 1
    <3>1. j \in 1..n /\ Active(posts[j]) => j = i
      BY <1>2, <1>3, <2>1 DEF CacheInv, OneHandler, n
    <3> QED
      BY <1>6, <1>8, <1>9, <3>1
  <2>3. posts[i].here
    BY <1>7, <1>8, <2>2
  <2> QED
    BY <1>1, <1>2, <1>3, <2>1, <2>3 DEF CacheInv, HandlerAlone, n
<1>20. WritesArrive'
  <2> SUFFICES ASSUME Followed(key), D!Shown, D!Never({"overlap", "unanswered", "unheard"})',
                      NEW j \in served, posts'[j].here
               PROVE  InHand(j)' \/ OnTheWay(posts[j])' \/ \E k \in 1..(n + 1) : Owed(posts[k])'
    BY <1>1, <1>8 DEF WritesArrive, D!Shown
  <2>1. j \in 1..n /\ posts[j].here
    BY <1>2, <1>6, <1>8
  <2>2. \A k \in 1..n : k # i => (OnTheWay(posts[k])' <=> OnTheWay(posts[k])) /\ (Owed(posts[k])' <=> Owed(posts[k]))
    BY <1>1, <1>8 DEF OnTheWay, Owed
  <2>3. InHand(j) \/ OnTheWay(posts[j]) \/ \E k \in 1..n : Owed(posts[k])
    BY <1>2, <2>1, NeverBefore DEF CacheInv, WritesArrive, n
  <2>4. CASE InHand(j)
    BY <1>1, <2>4 DEF InHand
  <2>5. CASE OnTheWay(posts[j])
    <3>1. j # i
      BY <1>1, <2>5 DEF OnTheWay
    <3> QED
      BY <2>1, <2>2, <2>5, <3>1
  <2>6. CASE \E k \in 1..n : Owed(posts[k])
    <3>1. PICK k \in 1..n : Owed(posts[k])
      BY <2>6
    <3>2. CASE k = i
      <4>1. posts[i].here /\ Owing(Elems(rest), key)
        BY <3>1, <3>2 DEF Owed
      <4>2. \A l : l = n + 1 => Owed(posts[l])'
        BY <1>1, <1>7, <1>8, <1>11, <4>1 DEF Owed
      <4>3. n + 1 \in 1..(n + 1)
        BY <1>2
      <4> QED
        BY <4>2, <4>3
    <3>3. k \in 1..(n + 1)
      BY <1>2
    <3> QED
      BY <2>2, <3>1, <3>2, <3>3
  <2> QED
    BY <2>3, <2>4, <2>5, <2>6
<1> QED
  BY <1>12, <1>13, <1>14, <1>15, <1>16, <1>17, <1>18, <1>19, <1>20 DEF CacheInv

\* Another page: what was begun on this one is told to nobody.
LEMMA PageLeft ==
    ASSUME CacheInv, CountsUp, NEW to \in DOMAIN D!Pages, D!Arrives(to), UNCHANGED <<key, served>>,
           posts' \in Seq(Post), Len(posts') = Len(posts),
           \A j \in 1..Len(posts) :
              /\ ~posts'[j].here /\ posts'[j].hook = posts[j].hook /\ posts'[j].rest = posts[j].rest
              /\ posts'[j].leaves = posts[j].leaves /\ posts'[j].got = posts[j].got
              /\ posts'[j].at = posts[j].at \/ posts'[j].at = "done",
           ~D!Never({"submit", "navigate", "unanswered"})'
    PROVE  CacheInv'
<1> DEFINE n == Len(posts)
<1>1. CacheTyped /\ n \in Nat /\ served \subseteq 1..n /\ query \in Entry(n)
  BY DEF CacheInv, CacheTyped
<1> HIDE DEF n
<1>2. /\ query' \in Entry(n) /\ query'.has = query.has /\ query'.shows = query.shows
      /\ \/ query'.fetch = query.fetch /\ query'.reply = query.reply
         \/ query'.fetch = "sent" /\ query'.reply = {}
      /\ key \in D!Newly(page, to) /\ ~query.has => query'.fetch # "idle"
  BY <1>1 DEF D!Arrives, D!Fetching, Entry
<1>3. page' = to
  BY DEF D!Arrives
<1>4. draft' \in Draft
  <2>1. query'.shows \in SUBSET Nat /\ draft \in Draft
    BY <1>1, <1>2 DEF Entry, CacheTyped
  <2> QED
    BY <2>1 DEF D!Arrives, Draft
<1>5. CacheTyped'
  BY <1>1, <1>2, <1>3, <1>4 DEF CacheTyped, CountsUp, n
<1>6. \A j \in 1..n : Active(posts'[j]) => Active(posts[j]) /\ posts'[j].at = posts[j].at
  BY DEF Active, n
<1>7. HandlersSound'
  <2> SUFFICES ASSUME NEW j \in 1..n, Active(posts'[j]) PROVE PostSound(posts[j])'
    BY DEF HandlersSound, n
  <2>1. PostSound(posts[j])
    BY <1>6 DEF CacheInv, HandlersSound, n
  <2> QED
    BY <1>6, <2>1 DEF PostSound, n
<1>8. RefusedIsNowhere'
  <2>1. \A j : Nowhere(j) => Nowhere(j)'
    BY <1>2 DEF Nowhere
  <2>2. D!Never({"flip"})' => D!Never({"flip"})
    BY NeverBefore
  <2>3. \A j \in 1..n : /\ posts'[j].at = "sent" => posts[j].at = "sent"
                        /\ posts'[j].hook = posts[j].hook /\ posts'[j].got = posts[j].got
    BY DEF n
  <2> QED
    BY <2>1, <2>2, <2>3 DEF CacheInv, RefusedIsNowhere, n
<1>9. ListIsThere'
  BY <1>2, <1>6, NeverBefore DEF CacheInv, ListIsThere, n
<1>10. FirstIsFetched'
  <2>1. key \in D!Mounted(to) => key \in D!Newly(page, to) \/ key \in D!Mounted(page)
    BY DEF D!Mounted, D!Newly
  <2> QED
    BY <1>2, <1>3, <2>1, NeverBefore DEF CacheInv, FirstIsFetched, D!Shown
<1>11. DraftIsKept'
  BY DEF DraftIsKept
<1>12. OneHandler'
  BY <1>6, NeverBefore DEF CacheInv, OneHandler, n
<1>13. HandlerAlone'
  BY DEF HandlerAlone
<1>14. WritesArrive'
  BY <1>1 DEF WritesArrive, n
<1> QED
  BY <1>5, <1>7, <1>8, <1>9, <1>10, <1>11, <1>12, <1>13, <1>14 DEF CacheInv

\* The posts once the page is left.
LEMMA LeftPosts ==
    ASSUME CacheTyped
    PROVE  /\ D!Left \in Seq(Post) /\ Len(D!Left) = Len(posts)
           /\ \A j \in 1..Len(posts) :
                 /\ D!Left[j] \in Post /\ ~D!Left[j].here /\ D!Left[j].hook = posts[j].hook /\ D!Left[j].rest = posts[j].rest
                 /\ D!Left[j].leaves = posts[j].leaves /\ D!Left[j].got = posts[j].got /\ D!Left[j].at = posts[j].at
<1>1. posts \in Seq(Post) /\ Len(posts) \in Nat /\ DOMAIN posts = 1..Len(posts)
  BY DEF CacheTyped
<1>2. \A j \in 1..Len(posts) : posts[j] \in Post
  BY <1>1
<1>3. \A j \in 1..Len(posts) :
         LET p == [posts[j] EXCEPT !.here = FALSE] IN
         /\ p \in Post /\ ~p.here /\ p.hook = posts[j].hook /\ p.rest = posts[j].rest
         /\ p.leaves = posts[j].leaves /\ p.got = posts[j].got /\ p.at = posts[j].at
  BY <1>2 DEF Post
<1>4. DOMAIN D!Left = 1..Len(posts) /\ \A j \in 1..Len(posts) : D!Left[j] = [posts[j] EXCEPT !.here = FALSE]
  BY <1>1 DEF D!Left
<1>5. D!Left = [j \in 1..Len(posts) |-> [posts[j] EXCEPT !.here = FALSE]]
  BY <1>1 DEF D!Left
<1>6. D!Left \in [1..Len(posts) -> Post]
  BY <1>3, <1>5
<1>7. D!Left \in Seq(Post) /\ Len(D!Left) = Len(posts)
  BY <1>1, <1>6
<1> QED
  BY <1>3, <1>4, <1>7

\* The user goes to another page.
LEMMA NavigateKeeps == ASSUME CacheInv, NEW to \in D!Relevant[key], D!May({"navigate"}), D!Navigate(to) PROVE CacheInv'
<1>1. UNCHANGED <<key, served>> /\ D!Next /\ D!Arrives(to) /\ posts' = D!Left /\ D!Uses({"navigate"})
  BY DEF D!Navigate, D!Next
<1>2. CacheTyped /\ CountsUp
  BY <1>1, CacheCounts DEF CacheInv
<1>3. to \in DOMAIN D!Pages
  BY <1>2 DEF D!Relevant, CacheTyped, D!Pages
<1>4. ~D!Never({"submit", "navigate", "unanswered"})'
  <2>1. {"navigate"} \in SUBSET D!Kinds /\ {"submit", "navigate", "unanswered"} \cap {"navigate"} # {}
    BY DEF D!Kinds
  <2> QED
    BY <1>1, <1>2, <2>1, CacheCounted
<1> QED
  BY <1>1, <1>2, <1>3, <1>4, LeftPosts, PageLeft

\* A handler ends on another page.
LEMMA LeaveKeeps == ASSUME CacheInv, NEW i \in DOMAIN posts, D!Leave(i) PROVE CacheInv'
<1>1. /\ UNCHANGED <<key, served>> /\ D!Next /\ D!Arrives(posts[i].leaves) /\ posts' = [D!Left EXCEPT ![i].at = "done"]
      /\ posts[i].at = "settled" /\ posts[i].rest = <<>>
  BY DEF D!Leave, D!Proceeds, D!Next
<1>2. CacheTyped /\ CountsUp /\ posts \in Seq(Post) /\ posts[i] \in Post /\ i \in 1..Len(posts) /\ Active(posts[i])
  BY <1>1, CacheCounts DEF CacheInv, CacheTyped, Active
<1>3. posts[i].leaves \in DOMAIN D!Pages
  <2>1. PostSound(posts[i])
    BY <1>2 DEF CacheInv, HandlersSound
  <2> QED
    BY <1>1, <1>2, <2>1 DEF PostSound, Post
<1>4. ~D!Never({"submit", "navigate", "unanswered"})'
  BY <1>2, NeverBefore DEF CacheInv, DraftIsKept
<1> DEFINE left == D!Left
           p == [left[i] EXCEPT !.at = "done"]
<1>5. /\ left \in Seq(Post) /\ Len(left) = Len(posts)
      /\ \A j \in 1..Len(posts) :
            /\ left[j] \in Post /\ ~left[j].here /\ left[j].hook = posts[j].hook /\ left[j].rest = posts[j].rest
            /\ left[j].leaves = posts[j].leaves /\ left[j].got = posts[j].got /\ left[j].at = posts[j].at
  BY <1>2, LeftPosts
<1>6. posts' = [left EXCEPT ![i] = p]
  BY <1>1, <1>2, <1>5
<1> HIDE DEF left
<1>7. /\ p \in Post /\ ~p.here /\ p.hook = posts[i].hook /\ p.rest = posts[i].rest
      /\ p.leaves = posts[i].leaves /\ p.got = posts[i].got /\ p.at = "done"
  BY <1>2, <1>5 DEF Post
<1> HIDE DEF p
<1>8. /\ posts' \in Seq(Post) /\ Len(posts') = Len(posts) /\ posts'[i] = p
      /\ \A j \in 1..Len(posts) : j # i => posts'[j] = left[j]
  BY <1>2, <1>5, <1>6, <1>7, PostsChange
<1>9. \A j \in 1..Len(posts) :
          /\ ~posts'[j].here /\ posts'[j].hook = posts[j].hook /\ posts'[j].rest = posts[j].rest
          /\ posts'[j].leaves = posts[j].leaves /\ posts'[j].got = posts[j].got
          /\ posts'[j].at = posts[j].at \/ posts'[j].at = "done"
  BY <1>5, <1>7, <1>8
<1> QED
  BY <1>1, <1>2, <1>3, <1>4, <1>8, <1>9, PageLeft

-----------------------------------------------------------------------------
(* The cache: handlers begin, and what follows from the strengthening.     *)

\* What is left of a handler when it begins.
LEMMA HandlersBegin ==
    ASSUME CacheTyped, NEW o \in D!Handlers[key][page]
    PROVE  LET h == o.steps[1]
               rest == D!Ahead(Tail(o.steps), key)
               hooks == {h} \cup Elems(rest) IN
           /\ h \in DOMAIN D!Mutations /\ rest \in Steps /\ o.leaves \in DOMAIN D!Pages \cup {"none"}
           /\ PostsFirst(rest) /\ Harmless(hooks)
           /\ D!Mutations[h].flips => D!Shown
           /\ \A g \in hooks : key \in D!Mutations[g].patches =>
                 key \in D!Mutations[h].patches \/ (D!Shown /\ h # "useCreateProject")
           /\ D!Shown /\ Followed(key) =>
                 /\ \A g \in Elems(rest) : D!Posts(g) /\ D!Touches(g, key) => Repairs(g, key, page) \/ Owing(Elems(rest), key)
                 /\ D!Touches(h, key) => \/ Repairs(h, key, page)
                                         \/ rest = <<>> /\ o.leaves # "none"
                                         \/ h \in D!Unheeded /\ Owing(Elems(rest), key)
<1>1. key \in D!QueryKeys /\ page \in DOMAIN D!Pages
  BY DEF CacheTyped
<1>2. PICK offer \in D!Pages[page].offers :
          o = [offer EXCEPT !.steps = D!Ahead(@, key)] /\ o.steps # <<>> /\ D!Posts(o.steps[1])
  BY <1>1 DEF D!Handlers
<1> DEFINE all == offer.steps
           s == D!Ahead(all, key)
           h == s[1]
           t == Tail(s)
           rest == D!Ahead(t, key)
<1>3. GoodHandler(offer, page)
  BY <1>1, PagesAreGood DEF Good
<1>4. offer.leaves \in DOMAIN D!Pages \cup {"none"} /\ DOMAIN offer = {"steps", "leaves", "asks"} /\ all \in Steps /\ all # <<>>
  <2>1. HandlerTyped(offer)
    BY <1>3 DEF GoodHandler
  <2>2. all \in Seq(DOMAIN D!Mutations) /\ Len(all) \in 1..5
    BY <2>1 DEF HandlerTyped
  <2> HIDE DEF all
  <2>3. all \in Steps /\ all # <<>>
    <3> DEFINE l == Len(all)
    <3>1. l \in 1..5
      BY <2>2
    <3> HIDE DEF l
    <3>2. l <= 5 /\ l # 0
      BY <3>1
    <3>3. Len(all) <= 5
      BY <3>2 DEF l
    <3>4. all # <<>>
      BY <3>2 DEF l
    <3> QED
      BY <2>2, <3>3, <3>4 DEF Steps
  <2> QED
    BY <2>1, <2>3 DEF HandlerTyped
<1>5. o.steps = s /\ o.leaves = offer.leaves
  BY <1>2, <1>4
<1>6. s # <<>> /\ D!Posts(h)
  BY <1>2, <1>5
<1> HIDE DEF all
<1>7. /\ s \in Steps /\ Len(s) <= Len(all) /\ Elems(s) \subseteq Elems(all)
      /\ \A g \in Elems(all) : D!Concerns(g, key) => g \in Elems(s)
      /\ PostsFirst(all) => PostsFirst(s)
      /\ D!Concerns(all[1], key) => s = all
      /\ D!Concerns(h, key)
  BY <1>4, <1>6, AheadKeeps
<1> HIDE DEF s
<1>8. /\ t \in Steps /\ h \in Elems(s) /\ (\A g : g \in Elems(s) <=> g = h \/ g \in Elems(t)) /\ Elems(s) \subseteq DOMAIN D!Mutations
      /\ PostsFirst(s) => PostsFirst(t)
      /\ Len(t) = Len(s) - 1
  BY <1>6, <1>7, TailKeeps
<1> HIDE DEF t
<1>9. /\ rest \in Steps /\ Len(rest) <= Len(t) /\ Elems(rest) \subseteq Elems(t)
      /\ \A g \in Elems(t) : D!Concerns(g, key) => g \in Elems(rest)
      /\ PostsFirst(t) => PostsFirst(rest)
  BY <1>8, AheadKeeps
<1> HIDE DEF rest, h
<1>10. {h} \cup Elems(rest) \subseteq Elems(all)
  BY <1>7, <1>8, <1>9
<1>11. PostsFirst(rest) /\ Harmless({h} \cup Elems(rest))
  <2>1. PostsFirst(all) /\ Harmless(Elems(all))
    BY <1>3 DEF GoodHandler, all
  <2>2. Harmless({h} \cup Elems(rest))
    BY <1>10, <2>1 DEF Harmless
  <2> QED
    BY <1>7, <1>8, <1>9, <2>1, <2>2
<1>12. D!Mutations[h].flips => D!Shown
  <2>1. \A g \in Elems(all) : D!Mutations[g].flips /\ D!Concerns(g, key) => key \in D!Mounted(page)
    BY <1>1, <1>3 DEF GoodHandler, all
  <2> QED
    BY <1>7, <1>10, <2>1 DEF D!Shown
<1>13. ASSUME NEW g \in {h} \cup Elems(rest), key \in D!Mutations[g].patches
       PROVE  key \in D!Mutations[h].patches \/ (D!Shown /\ h # "useCreateProject")
  <2>1. g = all[1] \/ (key \in D!Mounted(page) /\ "useCreateProject" \notin Elems(all))
    BY <1>1, <1>3, <1>10, <1>13 DEF GoodHandler, all
  <2>2. g = all[1] => h = g
    BY <1>7, <1>13 DEF D!Concerns, h
  <2> QED
    BY <1>10, <1>13, <2>1, <2>2 DEF D!Shown
<1>14. Owing(Elems(all), key) => Owing(Elems(rest), key) /\ h \in D!Unheeded
  <2> SUFFICES ASSUME Owing(Elems(all), key) PROVE Owing(Elems(rest), key) /\ h \in D!Unheeded
    OBVIOUS
  <2>1. PICK g \in Elems(all) : Refetches(g, key)
    BY DEF Owing
  <2>2. g \in Elems(s)
    BY <1>7, <2>1 DEF Refetches, D!Concerns
  <2>3. g # h
    BY <1>6, <2>1 DEF Refetches
  <2>4. g \in Elems(rest)
    BY <1>8, <1>9, <2>1, <2>2, <2>3 DEF Refetches, D!Concerns
  <2>5. h \in D!Unheeded
    BY <1>6, <1>10 DEF Owing
  <2> QED
    BY <1>10, <2>1, <2>4, <2>5 DEF Owing
<1>15. Len(all) = 1 => rest = <<>> /\ Elems(rest) = {}
  <2>1. rest \in Seq(DOMAIN D!Mutations) /\ Len(s) \in Nat /\ Len(t) \in Nat
    BY <1>7, <1>8, <1>9 DEF Steps
  <2>2. Len(all) = 1 => Len(rest) = 0
    BY <1>7, <1>8, <1>9, <2>1
  <2> QED
    BY <2>1, <2>2 DEF Elems
<1>16. ASSUME D!Shown, Followed(key), NEW g \in {h} \cup Elems(rest), D!Posts(g), D!Touches(g, key)
       PROVE  \/ Repairs(g, key, page)
              \/ Len(all) = 1 /\ offer.leaves # "none"
              \/ Owing(Elems(all), key)
  BY <1>1, <1>3, <1>10, <1>16 DEF GoodHandler, D!Shown, all
<1>17. D!Shown /\ Followed(key) =>
          /\ \A g \in Elems(rest) : D!Posts(g) /\ D!Touches(g, key) => Repairs(g, key, page) \/ Owing(Elems(rest), key)
          /\ D!Touches(h, key) => \/ Repairs(h, key, page)
                                  \/ rest = <<>> /\ offer.leaves # "none"
                                  \/ h \in D!Unheeded /\ Owing(Elems(rest), key)
  BY <1>6, <1>14, <1>15, <1>16
<1>18. h \in DOMAIN D!Mutations
  BY <1>8
<1> QED
  BY <1>4, <1>5, <1>9, <1>11, <1>12, <1>13, <1>17, <1>18 DEF s, t, h, rest

\* The user runs a handler.
LEMMA SubmitKeeps ==
    ASSUME CacheInv, D!May({"submit"}), NEW o \in D!Handlers[key][page], D!Submit(o) PROVE CacheInv'
<1> DEFINE n == Len(posts)
           h == o.steps[1]
           rest == D!Ahead(Tail(o.steps), key)
           p == D!Begun(h, rest, o.leaves)
           early == ~query.has /\ key \in D!Mutations[h].patches
           kinds == {"submit"} \cup D!If(query.fetch # "idle" \/ ~D!Done, "overlap") \cup D!If(D!Mutations[h].flips, "flip")
                    \cup D!If(early, "early")
<1>1. /\ UNCHANGED <<key, page, served>> /\ D!Next /\ posts' = Append(posts, p)
      /\ query' = IF D!Mutations[h].flips THEN D!Patched(query, n + 1) ELSE query
      /\ D!Uses(kinds)
      /\ D!Shown /\ ~query.has => h = "useCreateProject"
  BY DEF D!Submit, D!Next
<1>2. CacheTyped /\ CountsUp /\ n \in Nat /\ posts \in Seq(Post) /\ served \subseteq 1..n /\ query \in Entry(n) /\ draft \in Draft
  BY <1>1, CacheCounts DEF CacheInv, CacheTyped
<1>3. /\ "submit" \in kinds /\ (query.fetch # "idle" \/ ~D!Done => "overlap" \in kinds)
      /\ (D!Mutations[h].flips => "flip" \in kinds) /\ (early => "early" \in kinds) /\ kinds \in SUBSET D!Kinds
  BY DEF D!If, D!Kinds
<1> HIDE DEF kinds
<1>4. /\ ~D!Never({"submit", "navigate", "unanswered"})'
      /\ \A K : "overlap" \in K /\ D!Never(K)' => query.fetch = "idle" /\ D!Done
      /\ \A K : "flip" \in K /\ D!Never(K)' => ~D!Mutations[h].flips
      /\ \A K : "early" \in K /\ D!Never(K)' => ~early
  <2>1. \A K : K \cap kinds # {} => ~D!Never(K)'
    BY <1>1, <1>2, <1>3, CacheCounted
  <2> QED
    BY <1>3, <2>1
<1>5. /\ h \in DOMAIN D!Mutations /\ rest \in Steps /\ o.leaves \in DOMAIN D!Pages \cup {"none"}
      /\ PostsFirst(rest) /\ Harmless({h} \cup Elems(rest))
      /\ D!Mutations[h].flips => D!Shown
      /\ \A g \in {h} \cup Elems(rest) : key \in D!Mutations[g].patches =>
            key \in D!Mutations[h].patches \/ (D!Shown /\ h # "useCreateProject")
      /\ D!Shown /\ Followed(key) =>
            /\ \A g \in Elems(rest) : D!Posts(g) /\ D!Touches(g, key) => Repairs(g, key, page) \/ Owing(Elems(rest), key)
            /\ D!Touches(h, key) => \/ Repairs(h, key, page)
                                    \/ rest = <<>> /\ o.leaves # "none"
                                    \/ h \in D!Unheeded /\ Owing(Elems(rest), key)
  BY <1>2, HandlersBegin
<1> HIDE DEF rest, h, n
<1>6. /\ p \in Post /\ p.hook = h /\ p.rest = rest /\ p.leaves = o.leaves /\ p.at = "sent" /\ p.got = "none" /\ p.here = TRUE
  <2>1. draft.base \in SUBSET Nat
    BY <1>2 DEF Draft
  <2> QED
    BY <1>5, <2>1 DEF D!Begun, Post
<1> HIDE DEF p
<1>7. /\ posts' \in Seq(Post) /\ Len(posts') = n + 1 /\ posts'[n + 1] = p
      /\ \A j \in 1..n : posts'[j] = posts[j]
  BY <1>1, <1>2, <1>6, PostsChange DEF n
<1>8. \A j \in 1..Len(posts') : j \in 1..n \/ j = n + 1
  BY <1>2, <1>7
<1>9. D!Mutations[h].flips => h = "toggleEnabled"
  BY <1>5, HooksTell DEF Tells
<1>10. /\ query' \in Entry(n + 1) /\ query'.fetch = query.fetch /\ query'.reply = query.reply
       /\ query.has => query'.has
       /\ query'.shows = query.shows \/ (D!Mutations[h].flips /\ query'.shows = query.shows \cup {n + 1})
       /\ query'.has => query.has \/ D!Mutations[h].flips
  <2>1. query \in Entry(n + 1)
    BY <1>2, EntryGrows
  <2>2. n + 1 \in 0..(n + 1)
    BY <1>2
  <2>3. CASE D!Mutations[h].flips
    BY <1>1, <2>1, <2>2, <2>3 DEF D!Patched, Entry
  <2>4. CASE ~D!Mutations[h].flips
    BY <1>1, <2>1, <2>4
  <2> QED
    BY <2>3, <2>4
<1>11. D!Mutations[h].flips => query.has
  BY <1>1, <1>5, <1>9
<1>12. draft' \in Draft
  BY <1>2 DEF D!Submit, Draft
<1>13. CacheTyped'
  <2>1. served \subseteq 1..(n + 1)
    BY <1>2
  <2> QED
    BY <1>1, <1>2, <1>7, <1>10, <1>12, <2>1 DEF CacheTyped, CountsUp
<1>14. HandlersSound'
  <2>1. PostSound(p)
    BY <1>5, <1>6 DEF PostSound
  <2>2. Followed(key) /\ D!Shown => PostMends(p, key, page)
    BY <1>5, <1>6 DEF PostMends
  <2> QED
    BY <1>1, <1>7, <1>8, <2>1, <2>2 DEF CacheInv, HandlersSound, D!Shown, n
<1>15. RefusedIsNowhere'
  <2>1. n + 1 \notin query.shows /\ n + 1 \notin query.reply /\ n + 1 \notin served
    <3>1. n + 1 \notin query.shows /\ n + 1 \notin query.reply
      BY <1>2, EntryGrows
    <3>2. n + 1 \notin 1..n
      BY <1>2
    <3> QED
      BY <1>2, <3>1, <3>2
  <2>2. \A j \in 1..n : Nowhere(j) => Nowhere(j)'
    BY <1>2, <1>10 DEF Nowhere
  <2>3. D!Never({"flip"})' => D!Never({"flip"}) /\ query'.shows = query.shows
    BY <1>2, <1>4, <1>10, NeverBefore
  <2>4. ASSUME NEW j \in 1..Len(posts') PROVE posts'[j].at = "sent" => j \notin served'
    BY <1>1, <1>7, <1>8, <2>1, <2>4 DEF CacheInv, RefusedIsNowhere, n
  <2>5. ASSUME D!Never({"flip"})', NEW j \in 1..Len(posts'),
               posts'[j].at = "sent" \/ (posts'[j].got = "refused" /\ D!Mutations[posts'[j].hook].checked)
        PROVE  Nowhere(j)' /\ j \notin served'
    <3>1. CASE j = n + 1
      <4>1. Nowhere(j)'
        BY <1>10, <2>1, <2>3, <2>5, <3>1 DEF Nowhere
      <4> QED
        BY <1>1, <2>1, <3>1, <4>1
    <3>2. CASE j \in 1..n
      BY <1>1, <1>7, <2>2, <2>3, <2>5, <3>2 DEF CacheInv, RefusedIsNowhere, n
    <3> QED
      BY <1>8, <3>1, <3>2
  <2> QED
    BY <2>4, <2>5 DEF RefusedIsNowhere
<1>16. ListIsThere'
  <2> SUFFICES ASSUME D!Never({"early", "unanswered"})'
               PROVE  /\ query'.has => 0 \in query'.shows
                      /\ query'.fetch = "read" => 0 \in query'.reply
                      /\ \A j \in 1..(n + 1) : Active(posts'[j]) =>
                            \A g \in {posts'[j].hook} \cup Elems(posts'[j].rest) : key \in D!Mutations[g].patches => query'.has
    BY <1>1, <1>7 DEF ListIsThere
  <2>1. /\ query.has => 0 \in query.shows
        /\ query.fetch = "read" => 0 \in query.reply
        /\ \A j \in 1..n : Active(posts[j]) =>
              \A g \in {posts[j].hook} \cup Elems(posts[j].rest) : key \in D!Mutations[g].patches => query.has
    BY <1>2, NeverBefore DEF CacheInv, ListIsThere, n
  <2>2. ~early
    BY <1>4
  <2>3. \A g \in {h} \cup Elems(rest) : key \in D!Mutations[g].patches => query.has
    BY <1>1, <1>5, <2>2
  <2>4. \A g \in {p.hook} \cup Elems(p.rest) : key \in D!Mutations[g].patches => query.has
    BY <1>6, <2>3
  <2> QED
    BY <1>7, <1>8, <1>10, <1>11, <2>1, <2>4
<1>17. FirstIsFetched'
  BY <1>1, <1>2, <1>10, NeverBefore DEF CacheInv, FirstIsFetched, D!Shown
<1>18. DraftIsKept'
  BY <1>4 DEF DraftIsKept
<1>19. ASSUME D!Done PROVE \A j \in 1..n : posts[j].at = "done"
  BY <1>2, <1>19 DEF D!Done, n
<1>20. OneHandler'
  <2>1. D!Never({"overlap"})' => \A j \in 1..Len(posts') : Active(posts'[j]) => j = n + 1
    BY <1>4, <1>7, <1>8, <1>19 DEF Active
  <2> QED
    BY <2>1 DEF OneHandler
<1>21. HandlerAlone'
  <2> SUFFICES ASSUME D!Never({"overlap", "unanswered"})', D!Shown
               PROVE  query'.has /\ query'.fetch = "idle"
    BY <1>1 DEF HandlerAlone, D!Shown
  <2>1. query.fetch = "idle" /\ D!Never({"unanswered"})
    <3>1. D!Never({"unanswered"})'
      BY DEF D!Never
    <3> QED
      BY <1>2, <1>4, <3>1, NeverBefore
  <2> QED
    BY <1>10, <2>1 DEF CacheInv, FirstIsFetched
<1>22. WritesArrive'
  <2> SUFFICES ASSUME Followed(key), D!Shown, D!Never({"overlap", "unanswered", "unheard"})',
                      NEW j \in served, posts'[j].here
               PROVE  InHand(j)'
    BY <1>1 DEF WritesArrive, D!Shown
  <2>1. j \in 1..n /\ posts[j].here
    BY <1>2, <1>7
  <2>2. D!Done
    BY <1>4
  <2>3. \A k \in 1..n : ~OnTheWay(posts[k]) /\ ~Owed(posts[k])
    BY <1>19, <2>2 DEF OnTheWay, Owed, Active
  <2>4. InHand(j)
    BY <1>2, <2>1, <2>3, NeverBefore DEF CacheInv, WritesArrive, n
  <2> QED
    BY <1>10, <2>4 DEF InHand
<1> QED
  BY <1>13, <1>14, <1>15, <1>16, <1>17, <1>18, <1>20, <1>21, <1>22 DEF CacheInv

\* At first nothing has happened.
LEMMA CacheInvInitially == ASSUME D!Init PROVE CacheInv
<1>1. /\ posts = <<>> /\ served = {} /\ Len(posts) = 0
      /\ query.has = FALSE /\ query.shows = {} /\ query.reply = {} /\ query.fetch \in {"idle", "sent"}
      /\ D!Shown => query.fetch = "sent"
      /\ draft = [dirty |-> FALSE, base |-> {}, lost |-> FALSE]
  BY DEF D!Init, D!Shown
<1>2. key \in D!QueryKeys /\ page \in DOMAIN D!Pages
  <2>1. key \in D!QueryKeys /\ page \in D!Relevant[key]
    BY KeysAssumption DEF D!Init
  <2> QED
    BY <2>1 DEF D!Relevant, D!Pages
<1>3. query \in Entry(0) /\ draft \in Draft /\ used \in [D!Kinds -> Nat]
  BY DEF D!Init, Entry, Draft
<1>4. CacheTyped
  BY <1>1, <1>2, <1>3 DEF CacheTyped
<1>5. HandlersSound /\ RefusedIsNowhere /\ ListIsThere /\ FirstIsFetched /\ DraftIsKept /\ OneHandler /\ HandlerAlone /\ WritesArrive
  BY <1>1 DEF HandlersSound, RefusedIsNowhere, ListIsThere, FirstIsFetched, DraftIsKept, OneHandler, HandlerAlone, WritesArrive
<1> QED
  BY <1>4, <1>5 DEF CacheInv

\* Every step keeps the strengthening.
LEMMA CacheInvKept == ASSUME CacheInv, [D!Next]_dVars PROVE CacheInv'
<1>1. CASE UNCHANGED dVars
  <2> USE <1>1 DEF dVars, CacheInv, D!Never, D!Shown
  <2>1. CacheTyped' /\ HandlersSound'
    BY DEF CacheTyped, HandlersSound, PostSound, PostMends
  <2>2. RefusedIsNowhere' /\ ListIsThere' /\ FirstIsFetched'
    BY DEF RefusedIsNowhere, Nowhere, ListIsThere, FirstIsFetched
  <2>3. DraftIsKept' /\ OneHandler' /\ HandlerAlone'
    BY DEF DraftIsKept, OneHandler, HandlerAlone, D!Editor
  <2>4. WritesArrive'
    BY DEF WritesArrive, InHand, OnTheWay, Owed
  <2> QED
    BY <2>1, <2>2, <2>3, <2>4
<1>2. CASE D!Next
  <2>1. ASSUME NEW i \in DOMAIN posts, D!Serve(i) \/ D!Settle(i) \/ D!FollowUp(i) \/ D!NextPost(i) \/ D!Leave(i) PROVE CacheInv'
    BY <2>1, ServeKeeps, SettleKeeps, FollowUpKeeps, NextPostKeeps, LeaveKeeps
  <2>2. ASSUME D!May({"submit"}), NEW o \in D!Handlers[key][page], D!Submit(o) PROVE CacheInv'
    BY <2>2, SubmitKeeps
  <2>3. ASSUME D!May({"navigate"}), NEW to \in D!Relevant[key], D!Navigate(to) PROVE CacheInv'
    BY <2>3, NavigateKeeps
  <2>4. ASSUME D!Poll \/ D!ListRefresh \/ D!Read \/ D!Arrive \/ D!Unanswered \/ D!Wait \/ D!Edit \/ D!Other PROVE CacheInv'
    BY <2>4, RefreshKeeps, ReadKeeps, ArriveKeeps, OtherKeeps
  <2> QED
    BY <1>2, <2>1, <2>2, <2>3, <2>4 DEF D!Next
<1> QED
  BY <1>1, <1>2

\* Writes are never forgotten, so that the one which ends a deployment stays one of them.
FinalTyped == final \in {D!NotYet, 0} \cup 1..Len(posts)
LEMMA FinalKept == ASSUME CacheTyped, FinalTyped, [D!Next]_dVars PROVE FinalTyped'
<1> DEFINE n == Len(posts)
<1>1. posts \in Seq(Post) /\ n \in Nat /\ DOMAIN posts = 1..n
  BY DEF CacheTyped
<1>2. ASSUME UNCHANGED <<posts, final>> PROVE FinalTyped'
  BY <1>2 DEF FinalTyped, D!NotYet
<1>3. ASSUME UNCHANGED final, NEW i \in 1..n, NEW p \in Post, posts' = [posts EXCEPT ![i] = p] PROVE FinalTyped'
  BY <1>1, <1>3 DEF FinalTyped, D!NotYet
<1>4. ASSUME UNCHANGED final, Len(posts') \in Nat, Len(posts') >= n PROVE FinalTyped'
  BY <1>1, <1>4 DEF FinalTyped, D!NotYet
<1>5. ASSUME NEW i \in 1..n, D!Serve(i) PROVE FinalTyped'
  <2>1. Len(posts') = n
    BY <1>1, <1>5 DEF D!Serve
  <2>2. final' = final \/ final' = i
    BY <1>5 DEF D!Serve, D!MayEnd
  <2> QED
    BY <1>1, <2>1, <2>2 DEF FinalTyped, D!NotYet
<1>6. ASSUME NEW i \in 1..n, D!Settle(i) \/ D!FollowUp(i) \/ D!NextPost(i) \/ D!Leave(i) PROVE FinalTyped'
  <2>1. UNCHANGED final
    BY <1>6 DEF D!Settle, D!FollowUp, D!NextPost, D!Leave
  <2>2. Len(posts') \in Nat /\ Len(posts') >= n
    <3>1. CASE D!Settle(i)
      BY <1>1, <3>1 DEF D!Settle
    <3>2. CASE D!FollowUp(i)
      BY <1>1, <3>2 DEF D!FollowUp
    <3>3. CASE D!NextPost(i)
      BY <1>1, <3>3 DEF D!NextPost
    <3>4. CASE D!Leave(i)
      BY <1>1, <3>4 DEF D!Leave, D!Left
    <3> QED
      BY <1>6, <3>1, <3>2, <3>3, <3>4
  <2> QED
    BY <1>4, <2>1, <2>2
<1>7. ASSUME NEW h, D!Submit(h) PROVE FinalTyped'
  <2>1. UNCHANGED final /\ Len(posts') = n + 1
    BY <1>1, <1>7 DEF D!Submit
  <2> QED
    BY <1>1, <1>4, <2>1
<1>8. ASSUME NEW p, D!Navigate(p) PROVE FinalTyped'
  <2>1. UNCHANGED final /\ Len(posts') = n
    BY <1>1, <1>8 DEF D!Navigate, D!Left
  <2> QED
    BY <1>1, <1>4, <2>1
<1>9. ASSUME D!Other PROVE FinalTyped'
  <2>1. Len(posts') = n + 1
    BY <1>1, <1>9 DEF D!Other
  <2>2. final' = final \/ final' = n + 1
    BY <1>9 DEF D!Other, D!MayEnd
  <2> QED
    BY <1>1, <2>1, <2>2 DEF FinalTyped, D!NotYet
<1>10. ASSUME D!Poll \/ D!ListRefresh \/ D!Read \/ D!Arrive \/ D!Unanswered \/ D!Wait \/ D!Edit PROVE FinalTyped'
  BY <1>2, <1>10 DEF D!Poll, D!ListRefresh, D!Read, D!Arrive, D!Unanswered, D!Wait, D!Edit
<1>11. CASE UNCHANGED dVars
  BY <1>2, <1>11 DEF dVars
<1> QED
  BY <1>1, <1>5, <1>6, <1>7, <1>8, <1>9, <1>10, <1>11 DEF D!Next

\* The strengthening is one.
LEMMA CacheInvImplies == ASSUME CacheInv, FinalTyped PROVE CacheFollowsWrites
<1>1. CacheTyped /\ posts \in Seq(Post) /\ DOMAIN posts = 1..Len(posts) /\ Len(posts) \in Nat
  BY DEF CacheInv, CacheTyped
<1>2. D!TypeOK
  <2>1. \A i \in DOMAIN posts : posts[i] \in Post
    BY <1>1
  <2>2. query.shows \subseteq {0} \cup DOMAIN posts /\ query.reply \subseteq {0} \cup DOMAIN posts
    BY <1>1 DEF CacheTyped, Entry
  <2>3. query.fetch \in {"idle", "sent", "read"}
    BY <1>1 DEF CacheTyped, Entry
  <2> QED
    BY <1>1, <2>1, <2>2, <2>3 DEF CacheTyped, FinalTyped, D!TypeOK, Post
<1>3. D!WritesAreShown
  <2> SUFFICES ASSUME D!Quiet, D!Shown, Followed(key), D!Never({"overlap", "unanswered", "unheard"}),
                      NEW i \in served, posts[i].here
               PROVE  i \in query.shows
    BY DEF D!WritesAreShown, Followed
  <2>1. query.fetch = "idle" /\ \A j \in 1..Len(posts) : posts[j].at = "done"
    BY <1>1 DEF D!Quiet, D!Done
  <2>2. i \in 1..Len(posts)
    BY <1>1 DEF CacheTyped
  <2>3. InHand(i) \/ OnTheWay(posts[i]) \/ \E j \in 1..Len(posts) : Owed(posts[j])
    BY DEF CacheInv, WritesArrive
  <2> QED
    BY <2>1, <2>2, <2>3 DEF InHand, OnTheWay, Owed, Active
<1>4. D!RefusedIsNotShown
  BY <1>1 DEF CacheInv, RefusedIsNowhere, Nowhere, D!RefusedIsNotShown
<1>5. D!DraftSurvives /\ D!ListIsComplete
  BY DEF CacheInv, DraftIsKept, ListIsThere, D!DraftSurvives, D!ListIsComplete
<1> QED
  BY <1>2, <1>3, <1>4, <1>5 DEF CacheFollowsWrites

\* A page shows what was written on it and not what was refused, keeps what is being
\* edited and lists everything (useProjects.ts, hooks/mutations/*), whatever the user,
\* others and the server do in whatever order.
THEOREM CacheIsTrue == Spec => []CacheFollowsWrites
<1>1. Init => CacheInv /\ FinalTyped
  <2> SUFFICES ASSUME D!Init PROVE CacheInv /\ FinalTyped
    BY DEF Init
  <2> QED
    BY CacheInvInitially DEF D!Init, FinalTyped
<1>2. CacheInv /\ FinalTyped /\ [Next]_<<part, dVars, nVars, cVars, pVars>> => CacheInv' /\ FinalTyped'
  <2> SUFFICES ASSUME CacheInv, FinalTyped, [Next]_<<part, dVars, nVars, cVars, pVars>> PROVE [D!Next]_dVars
    BY CacheInvKept, FinalKept DEF CacheInv
  <2> QED
    BY DEF Next
<1>3. CacheInv /\ FinalTyped => CacheFollowsWrites
  BY CacheInvImplies
<1> QED
  BY <1>1, <1>2, <1>3, PTL DEF Spec

=============================================================================
