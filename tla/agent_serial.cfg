SPECIFICATION Spec
CONSTANTS
    d1 = d1
    d2 = d2
    c1 = c1
    c2 = c2
    r1 = r1
    r2 = r2
    NoDoc = NoDoc
    NoId = NoId
    Ids = {d1, d2}
    Clients = {c1, c2}
    ClientOf <- MCClientOf
    Versions = {"v1", "v2"}
    BaseVersion = "v1"
    Packages = {"v2"}
    Requests = {r1}
    PatchStatuses = {"UPDATING"}
    Operations = {"handshake", "patch", "update", "deactivate", "confirm", "uninstall", "schedule"}
    Faults = {"abort", "azure_async", "schedule_error"}
SYMMETRY ClientSymmetry
INVARIANTS SerialUninstallIsComplete
PROPERTIES SerialMachine
CHECK_DEADLOCK FALSE
