CONSTANTS
    Circuits = {hk2}
    Callers = {c1, c2}
    Limit = 1
    MaxCalls = 2
    MaxDay = 1
    MaxReloads = 1
    MaxCrashes = 1
    Absent = Absent
SPECIFICATION Spec
INVARIANTS
    TypeOK
    LimitOutlivesTheEntry
    NoticesFitTheEntry
    GraceIsExact
PROPERTIES
    TotalIsACounter
    IgnoredStaysIgnored
SYMMETRY CallerSymmetry
