CONSTANTS
    \* Two processes on a database with row locks, clocks one tick apart.
    p1 = p1
    p2 = p2
    q2 = q2
    k1 = k1
    k2 = k2
    Procs = {p1, p2}
    Queues = {q1}
    Keys = {}
    NoKey = NoKey
    NoProc = NoProc
    NoQueue = NoQueue
    Skew <- MCSkew
    MaxSkew = 1
    RetryAfter = 2
    Delays = {0, 1}
    HasRowLocks = TRUE
    MaxRows = 1
    MaxAttempts = 2
    MaxIdle = 2
    \* Two redis workers, one deduplicated job, one crash or failed call.
    RJobs = {e1, e2}
    Deduped = {e2}
    Poison = {}
    RWorkers = {w1, w2}
    RDelays = {1}
    RTries = 2
    Kinds = {"failed", "unanswered", "crash", "stop"}
    MaxMishaps = 1
    MaxRClears = 0
    \* Two relays of two workers, one row of a partition.
    Relays = {r1, r2}
    MaxOutboxRows = 1
    Parts = {k}
    NoPart = NoPart
    PartOf <- MCPartOf
    keyed = {1}
    MaxTries = 2
    LeaseDuration = 2
    BackoffBase = 1
    BackoffMax = 1
    BatchSize = 2
    WorkerCount = 2
    MaxStale = 1
    MaxOutages = 0
    MaxReplays = 1
    \* Two hosts; the first instant of a job and the next.
    Hosts = {h1, h2}
    MaxInstant = 1
    FallBackAt = 3
    Repeat = 0
    DueMinutes = {0, 1}
    OneServerTTL = 1
    OverlapTTL = 1
    OneServer = TRUE
    NoOverlap = TRUE
    MaxCrashes = 1
    MaxErrors = 1
    MaxStops = 0
    \* Two connections, room for one.
    c1 = c1
    Sockets = {c1, c2}
    Groups = {g1}
    MaxConnections = 1
    SendCap = 1
    MaxCasts = 0
    MaxParked = 1
    MaxJoins = 1
SYMMETRY Symmetric
SPECIFICATION ServicesSpec
INVARIANTS FenceAdmitsOne JobsAccounted LeaseProtects NoJobDoubled LossNeedsTwo OutboxNeverLoses OneHandlerPerLease OneHostPerMinute OverlapGuarded HubsConsistent
