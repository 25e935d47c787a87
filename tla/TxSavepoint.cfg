CONSTANT MaxTaken = 3
CONSTANT MaxScopes = 2
SPECIFICATION TxSpec
INVARIANTS CommitCallbackMeansDurable
CHECK_DEADLOCK FALSE
