SPECIFICATION Spec
CONSTANTS
    d1 = d1
    d2 = d2
    c1 = c1
    c2 = c2
    r1 = r1
    r2 = r2
    NoDoc = NoDoc
    NoId = NoId
    Ids = {d1}
    Clients = {c1}
    ClientOf <- MCClientOf
    Versions = {"v1"}
    BaseVersion = "v1"
    Packages = {"v1"}
    Requests = {r1, r2}
    PatchStatuses = {}
    Operations = {"handshake", "deactivate", "confirm"}
    Faults = {}
PROPERTIES HandshakeNeverRevives
CHECK_DEADLOCK FALSE
