\* A statement about the program that does not hold: TLC ends with a counterexample.
\* The other statements that fail, and what to change below to see how:
\*   DynamicRecordsAlwaysFollow (PROPERTY): SPECIFICATION FairSpec, Budgets <- FailedPush
\*   DynamicRecordsFollowBeside (PROPERTY): SPECIFICATION FairSpec, Budgets <- PushRace
\*   DynamicRecordsFollowEdits (PROPERTY): SPECIFICATION FairSpec, Budgets <- Edit
\*   DynamicIsTurnedOff (PROPERTY): Budgets <- Edit
\*   MirrorAlwaysConverges (PROPERTY): SPECIFICATION FairSpec, Budgets <- DropCrash
\*   StrippedWhenReleased: Budgets <- Release
SPECIFICATION Spec
CONSTANTS
    address = a
    service = v
    zone = z
    Zones = {z}
    ARecords = {a}
    SrvRecords = {v}
    ZoneOf <- MCZoneOf
    IPs = {1, 2}
    Jobs = {p, q}
    Budgets <- PriceRace
INVARIANTS
    PriceIsAlwaysKept
CHECK_DEADLOCK FALSE
