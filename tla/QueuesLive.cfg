CONSTANTS
    \* Pumps that settle inside their lease, with one crash, stop, panic or driver error.
    p1 = p1
    p2 = p2
    w1 = w1
    w2 = w2
    Procs = {p1, p2}
    Queues = {q1}
    Keys = {}
    NoKey = NoKey
    NoProc = NoProc
    NoQueue = NoQueue
    Skew <- MCSkew
    MaxSkew = 1
    RetryAfter = 2
    Delays = {0}
    HasRowLocks = TRUE
    MaxRows = 1
    MaxAttempts = 4
    MaxIdle = 0
    Pumps = {w1, w2}
    ProcOf <- MCProcOf
    MaxRetries = 2
    Timely = TRUE
    MaxFaults = 1
    \* The memory driver: two jobs under one key, one that cannot be rebuilt, one Clear.
    j1 = j1
    j2 = j2
    j3 = j3
    k1 = k1
    Jobs = {j1, j2, j3}
    KeyOf <- MCKeyOf
    MemNoKey = MemNoKey
    Unbuildable = {j3}
    MemWorkers = {w1, w2}
    NoLeaseId = NoLeaseId
    MemDelays = {0, 1}
    MemMaxTries = 2
    MaxClears = 1
    \* The redis driver: two workers, one poisoned job, one Clear.
    RJobs = {q1, q2}
    Deduped = {q2}
    Poison = {q2}
    RWorkers = {v1, v2}
    RDelays = {1}
    RTries = 2
    Kinds = {"failed"}
    MaxMishaps = 1
    MaxRClears = 1
SPECIFICATION QueuesLiveSpec
PROPERTIES QueuesDrain MemKeepsContract
