SPECIFICATION Spec
CONSTANTS
    d1 = d1
    d2 = d2
    c1 = c1
    c2 = c2
    r1 = r1
    r2 = r2
    NoDoc = NoDoc
    NoId = NoId
    Ids = {d1}
    Clients = {c1}
    ClientOf <- MCClientOf
    Versions = {"v1", "v2"}
    BaseVersion = "v1"
    Packages = {"v1", "v2"}
    Requests = {r1, r2}
    PatchStatuses = {"ACTIVE", "DELETED", "UPDATING"}
    Operations = {"handshake", "patch", "update", "deactivate", "confirm", "uninstall"}
    Faults = {"abort", "azure_async"}
SYMMETRY RequestSymmetry
INVARIANTS TypeOK StampedOnlyWhenGone
PROPERTIES DestructionIsRecorded OnlyLostUpdatesDeviate
CHECK_DEADLOCK FALSE
