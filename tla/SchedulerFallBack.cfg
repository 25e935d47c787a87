CONSTANTS
    \* One host; the wall clock is set back by two minutes the job is due in.
    Hosts = {h1}
    MaxInstant = 2
    FallBackAt = 2
    Repeat = 2
    DueMinutes = {0, 1}
    OneServerTTL = 2
    OverlapTTL = 2
    OneServer = FALSE
    NoOverlap = FALSE
    MaxCrashes = 0
    MaxErrors = 0
    MaxStops = 0
SPECIFICATION SchedSpec
INVARIANTS OncePerWallMinute
CHECK_DEADLOCK FALSE
