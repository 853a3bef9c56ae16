SPECIFICATION FairSpec
CONSTANTS
    address = a
    service = v
    zone = z
    Zones = {z}
    ARecords = {a}
    SrvRecords = {v}
    ZoneOf <- MCZoneOf
    IPs = {1, 2}
    Jobs = {p, q}
    Budgets <- AllBudgets
PROPERTIES
    NothingIsLost
    DynamicRecordsFollow
    MirrorConverges
CHECK_DEADLOCK FALSE
