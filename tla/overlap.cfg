\* Two instances, nothing fails: does the lock keep them apart?
SPECIFICATION InstancesSpec
CONSTANTS
    first = first
    second = second
    third = third
    Instance = {first, second}
    Earlier = Earlier
    Nobody = Nobody
    Padding = Padding
    Hole = Hole
    Blocks = 2
    Size <- MCSize
    RENAME_RETRIES = 2
    Faults = {}
    MaxFaults = 0
INVARIANT
    FileIsWhole
CHECK_DEADLOCK FALSE
