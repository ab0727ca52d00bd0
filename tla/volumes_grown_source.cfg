SPECIFICATION Spec
CONSTANTS
    Volumes = {"v1", "v2"}
    Snaps = {"s1"}
    SnapOf <- MCSnapOf
    Nodes = {"n1", "n2"}
    VGs = {"vg1"}
    Sizes = {1, 2, 3}
    Asks <- GrownAsks
    Imports <- MCImports
    Growing = {"v1"}
    None = None
    MaxFaults = 0
    MaxDamage = 0
INVARIANT CloneHasRoom
CHECK_DEADLOCK FALSE
