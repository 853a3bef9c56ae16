--------------------------- MODULE TrafficCutover ---------------------------
(***************************************************************************)
(* What a zero-downtime deployment promises its users, with everything     *)
(* about generations, markers and messages left out: attempts come up and  *)
(* go away, the active one is replaced by a newer running one, and traffic *)
(* follows.  The active attempt is never taken down.  One that still gets  *)
(* traffic may be, once it is not the active one any more, by a drain that *)
(* does not wait for the traffic: `hasty' counts these drains, and each may *)
(* cost the attempt that is served, until the traffic moves on.            *)
(***************************************************************************)
EXTENDS Integers

CONSTANT Attempts       \* numbers, from 1, in the order of creation

VARIABLES
    active,     \* the attempt that should get the traffic
    serving,    \* the attempt that does
    up,         \* the attempts that run
    hasty       \* drains that did not wait for the traffic to move

vars == <<active, serving, up, hasty>>

None == 0

Init == active = None /\ serving = None /\ up = {} /\ hasty = 0

BringUp ==
    /\ \E a \in Attempts \ up : up' = up \cup {a}
    /\ UNCHANGED <<active, serving, hasty>>

\* a failed attempt is undone, or a superseded one drained
TakeDown ==
    /\ \E gone \in SUBSET (up \ {active}) :
          /\ up' = up \ gone
          /\ \/ serving \notin gone /\ UNCHANGED hasty
             \/ serving # active /\ hasty' = hasty + 1
    /\ UNCHANGED <<active, serving>>

Promote ==
    /\ \E a \in up : a > active /\ active' = a
    /\ UNCHANGED <<serving, up, hasty>>

\* traffic never goes back, and never to what is not running
Switch ==
    /\ serving' = active /\ active \in up /\ active > serving
    /\ UNCHANGED <<active, up, hasty>>

Next == BringUp \/ TakeDown \/ Promote \/ Switch

Spec == Init /\ [][Next]_vars

=============================================================================
