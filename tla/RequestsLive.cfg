CONSTANTS
    \* A request under two nested deadlines.
    Depth = 2
    MaxChunks = 1
    PoolBuffer = 1
    \* Two callers that fill batches of two, and a failing entry.
    Callers = {g1, g2}
    FullBatch = 2
    MaxEvents = 4
    MaxListenerErrors = 1
SPECIFICATION RequestsLiveSpec
INVARIANTS AnsweredOnce StopWaitsForLate BatchInOrder
PROPERTIES RequestAnswered BatchDrains
CHECK_DEADLOCK FALSE
