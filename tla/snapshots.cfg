SPECIFICATION RetrySpec
CONSTANTS
    Handles = {h1}
    Volumes <- MCVolumes
    Locations <- MCLocations
    LocOf <- MCLocOf
    Thick <- MCThick
    PVFates <- BothFates
    Imports <- BothImports
    NoRecord = NoRecord
    NoJob = NoJob
    MaxFaults = 3
INVARIANTS TypeOK RecordCovers DeletedIsGone ReadyExists
PROPERTIES ContractKept FoundDeleteSettles
CHECK_DEADLOCK FALSE
