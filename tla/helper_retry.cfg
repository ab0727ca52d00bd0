SPECIFICATION RetrySpec
CONSTANTS
    r1 = r1
    r2 = r2
    d1 = d1
    d2 = d2
    NoPod = NoPod
    Free = Free
    NoOp = NoOp
    Requests = {r1, r2}
    Drivers = {d1}
    DriverOf <- AllOnOne
    Ops <- TwoOps
    VGs <- MCVGs
    Nodes <- MCNodes
    MaxActive = 1
    DeadlineAt <- AtPoll
    COSerialised = TRUE
    MaxFaults = 2
PROPERTY Converges
CHECK_DEADLOCK FALSE
