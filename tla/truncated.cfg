\* A command that reports success having written only a part of its array.
SPECIFICATION SessionsSpec
CONSTANTS
    a = a
    b = b
    bad = bad
    s1 = s1
    s2 = s2
    Id = {a, b, bad}
    Acceptable = {a, b}
    ignore_dups = FALSE
    PipeSize = 2
    BufferSize = 2
    MayStopShort = TRUE
    MaxComplaints = 3
    Outputs <- ArrayOutput
    Chatter <- MCChatter
    Session = {s1, s2}
    SessionConfigs <- OneSession
    TypeConfigs <- OneType
INVARIANTS
    TruncatedArrayIsNoticed
