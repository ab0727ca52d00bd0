SPECIFICATION Spec
CONSTANTS
    Items = {"v1", "v2"}
    Infos <- Pair
    VGs = {"vg1"}
    Sizes <- MCSizes
    Pool = Pool
    None = None
    NoLV = NoLV
    MaxActive = 2
    MaxFailures = 0
    MaxKills = 0
PROPERTY PoolRemovedWhenEmpty
CHECK_DEADLOCK FALSE
