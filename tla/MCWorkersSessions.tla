-------------------------- MODULE MCWorkersSessions --------------------------
(* Small instances of the worker pool over the SQL driver and of requests   *)
(* that share a session, with a record store that answers and with one that *)
(* fails.  A behaviour is one of the part named by subject; the variables   *)
(* of the other part keep their initial values.                             *)
EXTENDS QueueWorker, ServerSession, TLC

CONSTANTS p1, p2, w1, w2

MCSkew == [p \in Procs |-> IF p = p2 THEN MaxSkew ELSE 0]

MCProcOf == [w \in Pumps |-> IF w = w2 THEN p2 ELSE p1]

(* The two processes with their pumps are alike, and so are the requests;   *)
(* as one part moves at a time they may be swapped together.                *)
Other(S) == [x \in S |-> CHOOSE y \in S : y # x]

Others == Other(Procs) @@ Other(Pumps) @@ Other(Requests)

Symmetric == {[x \in DOMAIN Others |-> IF swap THEN Others[x] ELSE x] : swap \in BOOLEAN}

VARIABLE subject

poolVars == <<vars, pumpVars>>

(* One operation less, and one store call that fails. *)
Failing == INSTANCE ServerSession WITH MaxOps <- 3, MaxStoreFaults <- 1

WorkerMoves  == subject = "worker" /\ WNext /\ UNCHANGED <<subject, sessVars>>
SessionMoves == subject = "session" /\ SessNext /\ UNCHANGED <<subject, poolVars>>
FailingMoves == subject = "failing store" /\ Failing!SessNext /\ UNCHANGED <<subject, poolVars>>

(* A pump of the worker always has a step; the requests come to an end. *)
Rest == subject # "worker" /\ UNCHANGED <<subject, poolVars, sessVars>>

WorkersSessionsInit ==
    /\ subject \in {"worker", "session", "failing store"} /\ WInit
    /\ IF subject = "failing store" THEN Failing!SessInit ELSE SessInit

WorkersSessionsNext == WorkerMoves \/ SessionMoves \/ FailingMoves \/ Rest

WorkersSessionsSpec ==
    WorkersSessionsInit /\ [][WorkersSessionsNext]_<<subject, poolVars, sessVars>>
=============================================================================
