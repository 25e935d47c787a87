CONSTANTS
    \* Two processes of one pump each, one job, slow pumps, one fault.
    p1 = p1
    p2 = p2
    w1 = w1
    w2 = w2
    Procs = {p1, p2}
    Queues = {q1}
    Keys = {}
    NoKey = NoKey
    NoProc = NoProc
    NoQueue = NoQueue
    Skew <- MCSkew
    MaxSkew = 0
    RetryAfter = 1
    Delays = {0}
    HasRowLocks = TRUE
    MaxRows = 1
    MaxAttempts = 3
    MaxIdle = 0
    Pumps = {w1, w2}
    ProcOf <- MCProcOf
    MaxRetries = 2
    Timely = FALSE
    MaxFaults = 1
    \* Two requests of a session with a record, four operations.
    Requests = {r1, r2}
    DataKeys = {"user", "k"}
    FlashKeys = {"f"}
    Nil = Nil
    MaxIds = 3
    MaxOps = 4
    MaxStoreFaults = 0
SYMMETRY Symmetric
SPECIFICATION WorkersSessionsSpec
INVARIANTS SideEffectsOnce SettledWithinBudget FlashOnce RevocationHolds
PROPERTIES UsesDriver SavesMerge
