\* Four configurations over all small sources, one failure of the source.
SPECIFICATION LoadSpec
CONSTANTS
    unit = unit
    group = group
    person = person
    emp = emp
    u1 = u1
    p1 = p1
    p2 = p2
    g1 = g1
    g2 = g2
    ku = ku
    k1 = k1
    k2 = k2
    none = none
    Type = {unit, group, person, emp}
    Id = {u1, p1, p2, g1, g2}
    Value = {ku, k1, k2, none}
    Configs <- MCConfigs
    Sources <- MCSources
    PageSize = 1
    MaxFaults = 1
    ignore_dups = FALSE
INVARIANTS
    LoadIsWhole
