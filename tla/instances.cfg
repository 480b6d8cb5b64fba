\* Three instances at once, one failure.
SPECIFICATION FairInstancesSpec
CONSTANTS
    first = first
    second = second
    third = third
    Instance = {first, second, third}
    Earlier = Earlier
    Nobody = Nobody
    Padding = Padding
    Hole = Hole
    Blocks = 2
    Size <- MCSize
    RENAME_RETRIES = 2
    Faults = {"killed", "mutex_error", "rename_refused", "disk"}
    MaxFaults = 1
INVARIANTS
    InstancesTypeOK
    WholeUnlessOverlap
    LockExcludes
PROPERTIES
    InstancesEnd
CHECK_DEADLOCK FALSE
