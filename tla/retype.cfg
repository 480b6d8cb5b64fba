\* A student becomes a teacher.
SPECIFICATION SyncSpec
CONSTANTS
    person = person
    other = other
    Student = Student
    Teacher = Teacher
    Users = Users
    asStudent = asStudent
    asTeacher = asTeacher
    Absent = Absent
    DummyJson = DummyJson
    NoThreshold = NoThreshold
    Uid = {person, other}
    Type = {Student, Teacher}
    Endpoint = {Users}
    Json = {asStudent, asTeacher}
    EndpointOf <- MCEndpointOf
    References <- MCReferences
    SourceStates <- MCSourceStates
    Runs <- MCRuns
    absolute_threshold <- NoThresholds
    relative_threshold <- NoThresholds
    RoundsDown <- NoRounding
    http_max_acceptable_timeouts = 0
    Faults = {}
    MaxFaults = 0
    MaxLate = 0
    MaxChanges = 1
PROPERTIES
    DeletesOnlyGone
CHECK_DEADLOCK FALSE
