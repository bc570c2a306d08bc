SPECIFICATION NotifySpec
CONSTANTS
    u1 = u1
    u2 = u2
    m1 = m1
    m2 = m2
    t1 = t1
    t2 = t2
    c1 = c1
    q1 = q1
    q2 = q2
    n1 = n1
    n2 = n2
    None = None
    Users = {u1, u2}
    Emails = {m1, m2}
    UserOf <- MCUserOf
    SignsInAs <- MCSignsInAs
    DirectoryAdmins = {u1}
    Teams = {t1, t2}
    Channels = {c1}
    Requests = {q1, q2}
    Notices = {n1}
    MaxNotices = 2
    MaxBeside = 1
    MaxRequests = 3
INVARIANTS TypeOK OperatorsHaveRoles RegistrantIsAdmin TeamsAreTried
INVARIANTS GuardAdmitsExactly OperatorsAreLetIn HistoryIsHonest
PROPERTY OnlyStaleWritesUndo
SYMMETRY Symmetry
CHECK_DEADLOCK FALSE
