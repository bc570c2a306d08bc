SPECIFICATION Spec
CONSTANTS
    s1 = s1
    s2 = s2
    r1 = r1
    r2 = r2
    NoDoc = NoDoc
    ScheduleIds = {s1, s2}
    Crons = {{2}}
    MaxTime = 2
    Requests = {r1, r2}
    Limit = 1
    MaxDisturbances = 3
    Faults = {"abort", "report_error", "push_error"}
INVARIANTS TypeOK OncePerInstantUnlessRewound CommandsHaveReports OnlyOverlapExceedsLimit
PROPERTIES OnlyDisableRewinds
SYMMETRY Symmetry
