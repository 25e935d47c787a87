CONSTANTS
    \* Failed pushes, crashes, cancellation and contexts that end.
    j1 = j1
    Jobs = {j1, j2}
    Named = {}
    AllowFailures = FALSE
    Timeouts = TRUE
    ReadsFail = TRUE
    PushCommits = FALSE
    MaxPushers = 1
    MaxFaults = 2
SPECIFICATION BatchLiveSpec
PROPERTIES BatchFinishes CallbacksArrive
CHECK_DEADLOCK FALSE
