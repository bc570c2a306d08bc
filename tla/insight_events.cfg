SPECIFICATION FairSpec
CONSTANTS
    w1 = w1
    w2 = w2
    a1 = a1
    Reports = {1, 2}
    Workers = {w1, w2}
    Rebuilds = {a1}
    Calendar <- MCCalendar
    MaxDay = 2
    MaxDisturbances = 1
    NoDoc = NoDoc
INVARIANTS TypeOK CountedOnce DeletedMeansCounted
PROPERTIES EventsAreProcessed
