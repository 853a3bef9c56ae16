---------------------------- MODULE MCDnsMirror ----------------------------
(* Instances of DnsMirror for TLC: what happens together.                  *)
EXTENDS DnsMirror

CONSTANTS address, service, zone
MCZoneOf == [r \in {address, service} |-> zone]
\* an edit may leave a tag behind
Budget(f) ==
    [k \in Kinds |->
        IF k \in DOMAIN f THEN f[k] ELSE IF k = "kept" /\ "edit" \in DOMAIN f THEN f.edit ELSE 0]

AllBudgets ==
    {Budget([ip |-> 2, create |-> 1, edit |-> 1, crash |-> 1]),
     Budget([ip |-> 1, edit |-> 2, failed |-> 1]),
     Budget([ip |-> 1, create |-> 1, overlap |-> 1]),
     Budget([edit |-> 1, overlap |-> 1, zone |-> 1]),
     Budget([edit |-> 1, delete |-> 1]), Budget([ip |-> 1, crash |-> 1]),
     Budget([price |-> 1, overlap |-> 1, dashboard |-> 1]),
     Budget([price |-> 1, edit |-> 1, crash |-> 1]),
     Budget([drop |-> 1, zone |-> 1, edit |-> 1]),
     Budget([drop |-> 1, crash |-> 1]),
     Budget([release |-> 1, edit |-> 1, overlap |-> 1]),
     Budget([project |-> 1, edit |-> 1])}

\* What the owner of a domain entered is not lost: the price of the purchase, and
\* the fields an edit does not name (mergeBilling, updateRecord).
NothingIsLost == [](TypeOK /\ PriceIsKept) /\ EditKeepsTheRest

PriceRace == {Budget([price |-> 1, overlap |-> 1])}
FailedPush == {Budget([ip |-> 1, failed |-> 1])}
PushRace == {Budget([ip |-> 1, edit |-> 1, overlap |-> 1])}
DropCrash == {Budget([zone |-> 1, crash |-> 1])}
Edit == {Budget([edit |-> 1])}
Release == {Budget([release |-> 1])}

=============================================================================
