SPECIFICATION RetrySpec
CONSTANTS
    Volumes = {"v1", "v2"}
    Snaps = {"s1"}
    SnapOf <- MCSnapOf
    Nodes = {"n1", "n2"}
    VGs = {"vg1"}
    Sizes = {1, 2, 3}
    Asks <- MCAsks
    Imports <- MCImports
    Growing = {"v2"}
    None = None
    MaxFaults = 1
    MaxDamage = 1
INVARIANTS TypeOK PVLeadsToLV PlacedAsAsked CloneHasRoom
PROPERTIES ContractKept CallsSettle
CHECK_DEADLOCK FALSE
