CONSTANTS
    \* Three units, two stops, one of them perhaps made by a unit or by the drain itself.
    Units = {u1, u2, u3}
    Stops = {s1, s2}
    Outside = Outside
    InDrain = InDrain
    \* A relay with one worker and two rows of a partition, dead-lettered at the first failure; one outage.
    Relays = {r1}
    MaxOutboxRows = 2
    Parts = {k}
    NoPart = NoPart
    PartOf <- MCPartOf
    keyed = {1, 2}
    MaxTries = 1
    LeaseDuration = 1
    BackoffBase = 1
    BackoffMax = 1
    BatchSize = 2
    WorkerCount = 1
    MaxStale = 0
    MaxOutages = 1
    MaxReplays = 0
    \* One host with the minute before the clocks go back and the one repeated; one lock error.
    Hosts = {h1}
    MaxInstant = 2
    FallBackAt = 2
    Repeat = 1
    DueMinutes = {0, 1}
    OneServerTTL = 1
    OverlapTTL = 1
    OneServer = TRUE
    NoOverlap = TRUE
    MaxCrashes = 0
    MaxErrors = 1
    MaxStops = 2
    \* One connection, two broadcasts, no group calls.
    Sockets = {c1}
    Groups = {}
    MaxConnections = 1
    SendCap = 1
    MaxCasts = 2
    MaxParked = 0
    MaxJoins = 0
SPECIFICATION RunsLiveSpec
PROPERTIES KeepsLifecycle UsersKeepLifecycle StopsComplete RelaySettles
CHECK_DEADLOCK FALSE
