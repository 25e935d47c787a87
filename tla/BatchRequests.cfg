CONSTANTS
    \* A push error means the job was not queued; contexts end and storage fails.
    j1 = j1
    j2 = j2
    Jobs = {j1, j2, j3}
    Named = {"then"}
    AllowFailures = FALSE
    Timeouts = TRUE
    ReadsFail = FALSE
    PushCommits = FALSE
    MaxPushers = 1
    MaxFaults = 2
    \* Two instances over one cache, two reads and one index write that fail.
    Instances = {p1, p2}
    SessIds = {s1, s2}
    OldIds = {s1}
    None = None
    MaxCalls = 3
    MaxReadFaults = 2
    MaxIndexFaults = 1
    \* Three listeners, one panic of the writer underneath.
    Statuses = {200, 500}
    MaxListeners = 3
    MaxDestPanics = 1
    \* Two event names, four schedules.
    EventNames = {n1, n2}
    MaxSchedules = 4
SYMMETRY Symmetric
SPECIFICATION BatchRequestsSpec
INVARIANTS TerminalOnce CertainlyProcessed SavesKept RevokedNotServed LiveListed ListenersFirst OwnDeliveryOnly
CHECK_DEADLOCK FALSE
