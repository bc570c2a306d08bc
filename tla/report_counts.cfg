SPECIFICATION Spec
CONSTANTS
    p1 = p1
    p2 = p2
    p3 = p3
    d1 = d1
    d2 = d2
    q1 = q1
    q2 = q2
    NoDoc = NoDoc
    ReportIds = {p1}
    DiagIds = {d1, d2}
    Requests = {q1, q2}
    MaxRetries = 3
    MaxCalls = 5
    Faults = {"abort", "push_error"}
INVARIANTS TypeOK AnnouncedOncePerCompletion ManualReportsHaveCommands CountsAgree
PROPERTIES OnlyStoppedTasksLoseEvents WritesAreOperations
SYMMETRY Symmetry
CHECK_DEADLOCK FALSE
