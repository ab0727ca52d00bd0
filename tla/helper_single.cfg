SPECIFICATION Spec
CONSTANTS
    r1 = r1
    r2 = r2
    d1 = d1
    d2 = d2
    NoPod = NoPod
    Free = Free
    NoOp = NoOp
    Requests = {r1, r2}
    Drivers = {d1}
    DriverOf <- AllOnOne
    Ops <- UpgradeOps
    VGs <- MCVGs
    Nodes <- MCNodes
    MaxActive = 1
    DeadlineAt <- WhereItMatters
    COSerialised = TRUE
    MaxFaults = 1
INVARIANTS TypeOK AdmissionBound OkBacked
PROPERTIES OnlyTerminatingVanish CleanupSparesActive
SYMMETRY Slots
CHECK_DEADLOCK FALSE
