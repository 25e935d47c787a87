\* No fault at all: one job whose context ends.
CONSTANTS
    Jobs = {j1}
    Named = {"then", "catch", "finally"}
    AllowFailures = FALSE
    Timeouts = TRUE
    ReadsFail = FALSE
    PushCommits = FALSE
    MaxPushers = 1
    MaxFaults = 0
SPECIFICATION TimeoutSpec
PROPERTY TimedOutBatchFinishes
CHECK_DEADLOCK FALSE
