SPECIFICATION RetrySpec
CONSTANTS
    Targets = {"t1", "t2"}
    Volumes <- MCVolumes
    Handlers = {"c1", "c2"}
    Sizes = {1, 2}
    Idle = Idle
    MaxFaults <- MCMaxFaults
    MaxGiveUps = 1
INVARIANTS TypeOK PublishedAsAsked UnpublishedIsClean ExpandedCovers
PROPERTIES FormatSparesData TargetsSettle
CHECK_DEADLOCK FALSE
