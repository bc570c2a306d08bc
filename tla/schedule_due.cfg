SPECIFICATION FairSpec
CONSTANTS
    s1 = s1
    s2 = s2
    r1 = r1
    r2 = r2
    NoDoc = NoDoc
    ScheduleIds = {s1, s2}
    Crons = {{2}}
    MaxTime = 2
    Requests = {r1, r2}
    Limit = 1
    MaxDisturbances = 2
    Faults = {"push_error"}
PROPERTIES DueIsAnswered
