SPECIFICATION RetrySpec
CONSTANTS
    Items = {"v1", "v2", "s1", "c1"}
    Infos <- ThinAndCopy
    VGs = {"vg1", "vg2"}
    Sizes <- MCSizes
    Pool = Pool
    None = None
    NoLV = NoLV
    MaxActive = 2
    MaxFailures = 2
    MaxKills = 1
INVARIANTS TypeOK ReadyExists GoneIsGone CloneComplete IncompletePoolRemoved
PROPERTIES RollbackSparesPool Settles
CHECK_DEADLOCK FALSE
