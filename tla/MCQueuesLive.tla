---------------------------- MODULE MCQueuesLive ----------------------------
(* Small instances, under fair scheduling, of the queues that must take a   *)
(* job to its end: the worker over the database driver, and workers over    *)
(* the memory and the redis driver.  A behaviour is one of the part named   *)
(* by subject; the variables of the other parts keep their initial values.  *)
EXTENDS QueueWorker, MemoryQueue, RedisQueue

CONSTANTS p1, p2, w1, w2, j1, j2, j3, k1

MCSkew == [p \in Procs |-> IF p = p2 THEN MaxSkew ELSE 0]

MCProcOf == [w \in Pumps |-> IF w = w2 THEN p2 ELSE p1]

(* j1 and j2 are pushed under one dedupe key. *)
MCKeyOf == [j \in Jobs |-> IF j \in {j1, j2} THEN k1 ELSE MemNoKey]

VARIABLE subject

fleetVars == <<vars, pumpVars>>

WorkerMoves == subject = "worker" /\ WNext /\ UNCHANGED <<subject, memVars, redisVars>>
MemoryMoves == subject = "memory" /\ MemNext /\ UNCHANGED <<subject, fleetVars, redisVars>>
RedisMoves  == subject = "redis" /\ RedisNext /\ UNCHANGED <<subject, fleetVars, memVars>>

(* A pump of the worker always has a step; the other parts may come to rest. *)
Rest == subject # "worker" /\ UNCHANGED <<subject, fleetVars, memVars, redisVars>>

QueuesLiveInit ==
    /\ subject \in {"worker", "memory", "redis"}
    /\ WInit /\ MemInit /\ RedisInit

QueuesLiveNext == WorkerMoves \/ MemoryMoves \/ RedisMoves \/ Rest

(* The fairness of the parts, for the part that moves. *)
WorkerFair ==
    LET Works(A) == subject = "worker" /\ A IN
    /\ \A w \in Pumps : WF_fleetVars(Works(Pop(w))) /\ WF_fleetVars(Works(PumpStep(w)))
    /\ \A p \in Procs : /\ WF_fleetVars(Works(Restart(p)))
                        /\ WF_fleetVars(Works(ClearDedupe(p) /\ UNCHANGED pumpVars))
    /\ WF_fleetVars(Works(Time /\ UNCHANGED pumpVars))

MemoryFair ==
    LET Works(A) == subject = "memory" /\ A IN
    /\ \A w \in MemWorkers : WF_memVars(Works(WorkerCall(w)))
    /\ WF_memVars(Works(MoveReady)) /\ WF_memVars(Works(TimeLeft /\ Elapse))

RedisFair ==
    LET Works(A) == subject = "redis" /\ A IN
    /\ \A w \in RWorkers : WF_redisVars(Works(RedisPump(w)))
    /\ WF_redisVars(Works(ClearStep)) /\ WF_redisVars(Works(SecondPasses))

QueuesLiveSpec ==
    /\ QueuesLiveInit
    /\ [][QueuesLiveNext]_<<subject, fleetVars, memVars, redisVars>>
    /\ WorkerFair /\ MemoryFair /\ RedisFair

(* Every job leaves its queue for good, whichever driver holds it: it is    *)
(* settled by a worker, recorded as failed, or cleared.                     *)
QueuesDrain == JobsSettle /\ MemJobsSettle /\ RedisDrains
=============================================================================
