---------------------------- MODULE MCWebSocket ----------------------------
EXTENDS WebSocket, TLC

WsSymmetry == Permutations(Sockets)
=============================================================================
