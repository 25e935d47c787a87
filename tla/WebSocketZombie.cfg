CONSTANT Sockets = {c1, c2}
CONSTANT Groups = {g1}
CONSTANT MaxConnections = 1
CONSTANT SendCap = 1
CONSTANT MaxCasts = 0
CONSTANT MaxParked = 0
CONSTANT MaxJoins = 0
SPECIFICATION WsSpec
SYMMETRY WsSymmetry
CHECK_DEADLOCK FALSE
INVARIANT CountsLiveClients
