\* Two types loaded from external processes in two sessions: every output,
\* cut by reads and by the command at every place, and every failure.
SPECIFICATION FairSessionsSpec
CONSTANTS
    a = a
    b = b
    bad = bad
    s1 = s1
    s2 = s2
    Id = {a, b, bad}
    Acceptable = {a, b}
    ignore_dups = FALSE
    PipeSize = 2
    BufferSize = 2
    MayStopShort = TRUE
    MaxComplaints = 3
    Outputs <- MCOutputs
    Chatter <- MCChatter
    Session = {s1, s2}
    SessionConfigs <- MCSessionConfigs
    TypeConfigs <- MCTypeConfigs
INVARIANTS
    SessionsTypeOK
    LoadedIsWritten
    LoadedHoweverCut
    CommandsRunInSessions
    EverySessionIsCleanedUp
PROPERTIES
    RunEnds
