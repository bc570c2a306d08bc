SPECIFICATION Spec
CONSTANTS
    t1 = t1
    t2 = t2
    r1 = r1
    r2 = r2
    v110rc = v110rc
    v110 = v110
    v19 = v19
    tool = tool
    None = None
    Tenants = {t1, t2}
    Replicas = {r1, r2}
    Files = {v110rc, v110, v19, tool}
    Rank <- MCRank
    Release <- MCRelease
    Candidate <- MCCandidate
    Mentions <- MCMentions
INVARIANTS TypeOK LinkMeansPermission PrincipalsExist TemplatesStayInstallable RunsFrozenOrNamesake
PROPERTY FrozenReleaseIsNewest
SYMMETRY Symmetry
CHECK_DEADLOCK FALSE
