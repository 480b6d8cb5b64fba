\* Every kind of failure, with the command lines of daily use.
SPECIFICATION SyncSpec
CONSTANTS
    unit1 = unit1
    unit2 = unit2
    group = group
    Unit = Unit
    Group = Group
    Units = Units
    Groups = Groups
    unitBody = unitBody
    refers1 = refers1
    refers2 = refers2
    Absent = Absent
    DummyJson = DummyJson
    NoThreshold = NoThreshold
    Uid = {unit1, unit2, group}
    Type = {Unit, Group}
    Endpoint = {Units, Groups}
    Json = {unitBody, refers1, refers2}
    EndpointOf <- MCEndpointOf
    References <- MCReferences
    SourceStates <- MCSourceStates
    Runs <- DailyRuns
    absolute_threshold <- OneObject
    relative_threshold <- UnitShare
    RoundsDown <- NoRounding
    http_max_acceptable_timeouts = 0
    Faults = {"timeout", "refused", "broken", "error", "render", "crash", "disk", "load", "cache_unreadable", "lost", "truncated", "garbled"}
    MaxFaults = 1
    MaxLate = 1
    MaxChanges = 2
INVARIANTS
    SyncTypeOK
    CacheIsAccurate
    CacheIsComplete
PROPERTIES
    CleanRunMirrors
    DeletesOnlyGone
    FailedDeletesAreKept
    ThresholdBoundsChange
CHECK_DEADLOCK FALSE
