CONSTANTS
    \* Two goroutines of a process and one of another, one operation each.
    c1 = c1
    c2 = c2
    c3 = c3
    Clients = {c1, c2, c3}
    Processes = {"p", "q"}
    ProcessOf <- MCProcessOf
    NoClient = NoClient
    HardLinks = FALSE
    Vals = {0, 1}
    MaxOps = 1
    MaxFileFaults = 1
    \* Three callers of one lock.
    Lockers = {l1, l2, l3}
    Nobody = Nobody
    \* A transaction with two nested scopes and two registrations.
    MaxScopes = 3
    MaxTaken = 2
    \* Two migration runs with three calls between them, on every driver: two
    \* batches and the Down that undoes both.
    Runners = {m1, m2}
    NoRunner = NoRunner
    MaxVersion = 2
    Drivers = {"postgres", "mysql", "sqlite"}
    MaxCalls = 3
    MaxMigFaults = 2
SPECIFICATION StorageSpec
INVARIANTS HolderIsRecorded DeferredFollowsOutcome
PROPERTIES CacheSound MigrationsSound
CHECK_DEADLOCK FALSE
