----------------------------- MODULE MCServices -----------------------------
(* Small instances of the services that run beside the requests: the        *)
(* database driver of the queue on a server with row locks and on sqlite,   *)
(* the redis driver, the outbox relay, the scheduler, with a clock that     *)
(* runs on and with one that is set back by a minute, and the WebSocket     *)
(* server: two connections, with room for one, and a single connection with *)
(* broadcasts and more group and subscription calls.  A behaviour is one of *)
(* the part named by subject; the variables of the other parts keep their   *)
(* initial values.                                                          *)
EXTENDS DatabaseQueue, RedisQueue, OutboxRelay, Scheduler, WebSocket, TLC

CONSTANTS p1, p2, q2, k1, k2, keyed, c1

(* p1's clock is right, every other host runs as far ahead as it may. *)
MCSkew == [p \in Procs |-> IF p = p1 THEN 0 ELSE MaxSkew]

(* Every row in one partition, or every row in none. *)
MCPartOf == [i \in RelayRows |-> IF i \in keyed THEN CHOOSE p \in Parts : TRUE ELSE NoPart]

(* The two workers, relays, hosts and connections are alike, and as one     *)
(* part moves at a time they may be swapped together.                       *)
Other(S) == [x \in S |-> CHOOSE y \in S : y # x]

Others == Other(RWorkers) @@ Other(Relays) @@ Other(Hosts) @@ Other(Sockets)

Symmetric == {[x \in DOMAIN Others |-> IF swap THEN Others[x] ELSE x] : swap \in BOOLEAN}

VARIABLES subject, sqClock, sqJobs, sqNextId, sqDedupe, sqClearing, sqFailed, sqAcked, sqCleared, sqTokens,
          sqSpent

sqVars == <<sqClock, sqJobs, sqNextId, sqDedupe, sqClearing, sqFailed, sqAcked, sqCleared, sqTokens, sqSpent>>

(* One process without row locks: d.mu serialises its worker paths. *)
Sqlite == INSTANCE DatabaseQueue
          WITH clock <- sqClock, jobs <- sqJobs, nextId <- sqNextId, dedupe <- sqDedupe,
               clearing <- sqClearing, failed <- sqFailed, acked <- sqAcked, cleared <- sqCleared,
               tokens <- sqTokens, spent <- sqSpent,
               Procs <- {p1}, Queues <- Queues \cup {q2}, Keys <- {k1, k2}, Skew <- [p \in {p1} |-> 0],
               MaxSkew <- 0, RetryAfter <- 1, Delays <- {0}, HasRowLocks <- FALSE, MaxRows <- 2,
               MaxAttempts <- 1, MaxIdle <- 0

(* The first minute of the wall clock comes twice. *)
Back == INSTANCE Scheduler WITH FallBackAt <- 1, Repeat <- 1

Alone == INSTANCE WebSocket WITH Sockets <- {c1}, MaxCasts <- 1, MaxJoins <- 2

Drivers == {"driver", "sqlite"}

ServicesInit ==
    /\ subject \in Drivers \cup {"redis", "outbox", "scheduler", "clock set back", "websocket", "one client"}
    /\ Init /\ Sqlite!Init /\ RedisInit /\ RelayInit /\ SchedInit
    /\ IF subject = "one client" THEN Alone!WsInit ELSE WsInit

servicesVars == <<subject, vars, sqVars, redisVars, relayVars, schedVars, wsVars>>

DriverMoves == subject = "driver" /\ Next /\ UNCHANGED <<sqVars, redisVars, relayVars, schedVars, wsVars>>
SqliteMoves == subject = "sqlite" /\ Sqlite!Next /\ UNCHANGED <<vars, redisVars, relayVars, schedVars, wsVars>>
RedisMoves == subject = "redis" /\ RedisNext /\ UNCHANGED <<vars, sqVars, relayVars, schedVars, wsVars>>
OutboxMoves == subject = "outbox" /\ RelayNext /\ UNCHANGED <<vars, sqVars, redisVars, schedVars, wsVars>>
SchedulerMoves ==
    /\ \/ subject = "scheduler" /\ SchedNext
       \/ subject = "clock set back" /\ Back!SchedNext
    /\ UNCHANGED <<vars, sqVars, redisVars, relayVars, wsVars>>
WebSocketMoves ==
    /\ \/ subject = "websocket" /\ WsNext
       \/ subject = "one client" /\ Alone!WsNext
    /\ UNCHANGED <<vars, sqVars, redisVars, relayVars, schedVars>>

(* The database driver never comes to rest, the other services may. *)
Rest == subject \notin Drivers /\ UNCHANGED servicesVars

ServicesNext ==
    \/ /\ UNCHANGED subject
       /\ DriverMoves \/ SqliteMoves \/ RedisMoves \/ OutboxMoves \/ SchedulerMoves \/ WebSocketMoves
    \/ Rest

ServicesSpec == ServicesInit /\ [][ServicesNext]_servicesVars

(* On sqlite two jobs with one dedupe key are never queued together: d.mu   *)
(* serialises PushIfNotExistsCtx, Clear and the worker's calls.             *)
OneRowPerKey == Sqlite!NoDuplicateKey

(* No driver makes two of one job: not the sqlite driver under racing       *)
(* pushes of one key, nor the redis driver under racing workers, and its    *)
(* script sets the sentinel and pushes the job together or not at all.      *)
NoJobDoubled == OneRowPerKey /\ EntryOnce /\ DedupeExact

(* An OnOneServer job is dispatched by one host per minute of the wall      *)
(* clock, also when the clock is set back and a minute comes again while    *)
(* its lock is held (oneServerLockKey; tick leaves the lock to its TTL).    *)
OneHostPerMinute == IF subject = "clock set back" THEN Back!OneServerPerMinute ELSE OneServerPerMinute

(* The tables of the hub agree with the connections there are: the slots,   *)
(* the send queues, the groups and the subscriptions (handleRegister,       *)
(* handleUnregister, JoinGroup, LeaveAllGroups, purgeClient).               *)
HubsConsistent == IF subject = "one client" THEN Alone!HubConsistent ELSE HubConsistent
=============================================================================
