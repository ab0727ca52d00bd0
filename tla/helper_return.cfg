SPECIFICATION ReturnSpec
CONSTANTS
    r1 = r1
    r2 = r2
    d1 = d1
    d2 = d2
    NoPod = NoPod
    Free = Free
    NoOp = NoOp
    Requests = {r1, r2}
    Drivers = {d1, d2}
    DriverOf <- Split
    Ops <- SharedNameOps
    VGs <- MCVGs
    Nodes <- MCNodes
    MaxActive = 1
    DeadlineAt <- Anywhere
    COSerialised = FALSE
    MaxFaults = 0
PROPERTY RequestsReturn
