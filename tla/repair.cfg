\* The command lines that repair, with a server that others write to.
SPECIFICATION SyncSpec
CONSTANTS
    unit1 = unit1
    unit2 = unit2
    group = group
    Unit = Unit
    Group = Group
    Units = Units
    Groups = Groups
    unitBody = unitBody
    refers1 = refers1
    refers2 = refers2
    Absent = Absent
    DummyJson = DummyJson
    NoThreshold = NoThreshold
    Uid = {unit1, unit2, group}
    Type = {Unit, Group}
    Endpoint = {Units, Groups}
    Json = {unitBody, refers1, refers2}
    EndpointOf <- MCEndpointOf
    References <- MCReferences
    SourceStates <- MCSourceStates
    Runs <- RepairRuns
    absolute_threshold <- NoThresholds
    relative_threshold <- NoThresholds
    RoundsDown <- NoRounding
    http_max_acceptable_timeouts = 2
    Faults = {"timeout", "broken", "crash", "foreign", "disk", "setting", "lost", "truncated", "garbled"}
    MaxFaults = 1
    MaxLate = 1
    MaxChanges = 1
INVARIANTS
    RunInv
    CompletenessInv
PROPERTIES
    CleanRunMirrors
    RebuildSettles
    StatusTellsCache
CHECK_DEADLOCK FALSE
