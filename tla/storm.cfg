\* Failures on top of failures, and runs that keep being started.
SPECIFICATION FairSyncSpec
CONSTANTS
    unit1 = unit1
    unit2 = unit2
    group = group
    Unit = Unit
    Group = Group
    Units = Units
    Groups = Groups
    unitBody = unitBody
    refers1 = refers1
    refers2 = refers2
    Absent = Absent
    DummyJson = DummyJson
    NoThreshold = NoThreshold
    Uid = {unit1, group}
    Type = {Unit, Group}
    Endpoint = {Units, Groups}
    Json = {unitBody, refers1, refers2}
    EndpointOf <- MCEndpointOf
    References <- MCReferences
    SourceStates <- MCSourceStates
    Runs <- NormalRuns
    absolute_threshold <- NoThresholds
    relative_threshold <- NoThresholds
    RoundsDown <- NoRounding
    http_max_acceptable_timeouts = 1
    Faults = {"timeout", "refused", "broken", "error", "render", "crash", "foreign", "disk", "setting", "cache_unreadable", "lost", "garbled"}
    MaxFaults = 2
    MaxLate = 2
    MaxChanges = 2
INVARIANTS
    ReferencesResolve
PROPERTIES
    EventuallyAgrees
    CacheConverges
    ImplementsMirror
CHECK_DEADLOCK FALSE
