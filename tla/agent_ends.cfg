SPECIFICATION FairSpec
CONSTANTS
    d1 = d1
    d2 = d2
    c1 = c1
    c2 = c2
    r1 = r1
    r2 = r2
    NoDoc = NoDoc
    NoId = NoId
    Ids = {d1}
    Clients = {c1}
    ClientOf <- MCClientOf
    Versions = {"v1", "v2"}
    BaseVersion = "v1"
    Packages = {"v1", "v2"}
    Requests = {r1, r2}
    PatchStatuses = {}
    Operations = {"handshake", "update", "deactivate", "confirm"}
    Faults = {}
PROPERTIES DeactivatingEnds UpdatingEnds
CHECK_DEADLOCK FALSE
