SPECIFICATION RetrySpec
CONSTANTS
    Handles = {h1}
    Volumes <- MCVolumes
    Locations <- MCLocations
    LocOf <- MCLocOf
    Thick <- MCThick
    PVFates <- Absent
    Imports <- Imported
    NoRecord = NoRecord
    NoJob = NoJob
    MaxFaults = 1
PROPERTY DeleteSettles
CHECK_DEADLOCK FALSE
