----------------------------- MODULE QueueWorker -----------------------------
(***************************************************************************)
(* The worker pool (queue/worker.go) on the SQL driver: every process runs *)
(* pumps that pop a leased job, run its handler on a goroutine of its own, *)
(* and settle the lease by what comes first, the handler's return or the   *)
(* end of the job's context.  Side effects (batch counters, the            *)
(* queue.job.* events) follow a confirmed settlement in a step of their    *)
(* own.  Processes crash and stop; any driver call may fail, before or     *)
(* after it took effect.  A handler that outlives its context and the      *)
(* drain ceiling is no longer the pump's and is not tracked here.          *)
(***************************************************************************)
EXTENDS DatabaseQueue

CONSTANTS
    Pumps,       \* pump goroutines
    ProcOf,      \* ProcOf[w]: the process of pump w
    MaxRetries,  \* w.maxRetries, or the job's MaxAttempts()
    Timely,      \* TRUE: pumps settle inside their lease (30s timeout, 90s lease)
    MaxFaults    \* bound: crashes, stops and failed driver calls

ASSUME WorkerAssumption ==
    /\ ProcOf \in [Pumps -> Procs] /\ Timely \in BOOLEAN
    /\ MaxRetries \in Nat \ {0} /\ MaxFaults \in Nat

VARIABLES
    pc,         \* pc[w]: where pump w is in processJob
    lease,      \* lease[w]: the reservation pump w works under, as a set of at most one
    stopped,    \* stopped[p]: the worker's context is cancelled
    processed,  \* observation, processed[i]: success side effects run for row i
    reported,   \* observation, reported[i]: failure side effects run for row i
    starts,     \* observation, starts[i]: handler starts for row i
    faults      \* crashes, stops and failed driver calls so far

pumpVars == <<pc, lease, stopped, processed, reported, starts, faults>>

PumpStates == {"idle", "popped", "running", "succeeded", "failing", "terminal", "processed", "reported", "dead"}

WInit ==
    /\ Init
    /\ pc = [w \in Pumps |-> "idle"]
    /\ lease = [w \in Pumps |-> {}]
    /\ stopped = [p \in Procs |-> FALSE]
    /\ processed = [i \in RowIds |-> 0]
    /\ reported = [i \in RowIds |-> 0]
    /\ starts = [i \in RowIds |-> 0]
    /\ faults = 0

Proc(w) == ProcOf[w]

Goto(w, l) == pc' = [pc EXCEPT ![w] = l]

(* processJob returns: the pump is back in work's loop with no lease. *)
Done(w) == Goto(w, "idle") /\ lease' = [lease EXCEPT ![w] = {}]

(* The driver answered ErrLeaseLost. *)
LeaseLost(t) == WorkerPathFree(t.reservedBy) /\ ~Fenced(t) /\ UNCHANGED vars

Fault == faults < MaxFaults /\ faults' = faults + 1

-----------------------------------------------------------------------------
(* processJob *)

PopReserved(w, q, i) ==
    /\ pc[w] = "idle" /\ ~stopped[Proc(w)]
    /\ ReserveNext(Proc(w), q, i)
    /\ Goto(w, "popped")
    /\ lease' = [lease EXCEPT ![w] = {TokenOf(Proc(w), i)}]
    /\ UNCHANGED <<stopped, processed, reported, starts, faults>>

(* A payload that cannot be rebuilt is quarantined; the handler never runs. *)
Quarantine(w, t) ==
    /\ pc[w] = "popped"
    /\ \/ (FailReservedCtx(t) \/ LeaseLost(t)) /\ UNCHANGED faults
       \/ (FailReservedCtx(t) \/ UNCHANGED vars) /\ Fault
    /\ Done(w)
    /\ UNCHANGED <<stopped, processed, reported, starts>>

(* GetBatchID panicked: straight to failJob. *)
BatchIDPanics(w) ==
    /\ pc[w] = "popped"
    /\ Goto(w, "terminal")
    /\ UNCHANGED <<vars, lease, stopped, processed, reported, starts, faults>>

(* The job's batch is cancelled: acknowledge without running. *)
SkipCancelled(w) ==
    /\ pc[w] = "popped"
    /\ Goto(w, "succeeded")
    /\ UNCHANGED <<vars, lease, stopped, processed, reported, starts, faults>>

StartHandler(w, t) ==
    /\ pc[w] = "popped"
    /\ starts' = [starts EXCEPT ![t.id] = @ + 1]
    /\ Goto(w, "running")
    /\ UNCHANGED <<vars, lease, stopped, processed, reported, faults>>

HandlerSucceeds(w) ==
    /\ pc[w] = "running"
    /\ Goto(w, "succeeded")
    /\ UNCHANGED <<vars, lease, stopped, processed, reported, starts, faults>>

(* The handler returned an error or panicked, or the job's context ended   *)
(* and the drain is over.  Under shutdown the row is left reserved.        *)
HandlerFails(w) ==
    /\ pc[w] = "running"
    /\ IF stopped[Proc(w)] THEN Done(w) ELSE Goto(w, "failing") /\ UNCHANGED lease
    /\ UNCHANGED <<vars, stopped, processed, reported, starts, faults>>

(* Bug: the side effects do not wait for the fenced acknowledgement. *)
AckReservationUngated(w, t) ==
    /\ pc[w] = "succeeded"
    /\ AckCtx(t) \/ LeaseLost(t)
    /\ Goto(w, "processed") /\ UNCHANGED lease
    /\ UNCHANGED <<stopped, processed, reported, starts, faults>>

(* ackReservation: only a nil error owns the result. *)
AckReservation(w, t) ==
    /\ pc[w] = "succeeded"
    /\ \/ AckCtx(t) /\ Goto(w, "processed") /\ UNCHANGED <<lease, faults>>
       \/ LeaseLost(t) /\ Done(w) /\ UNCHANGED faults
       \/ (AckCtx(t) \/ UNCHANGED vars) /\ Done(w) /\ Fault
    /\ UNCHANGED <<stopped, processed, reported, starts>>

(* batch.recordSuccess and queue.job.processed. *)
RecordSuccess(w, t) ==
    /\ pc[w] = "processed"
    /\ processed' = [processed EXCEPT ![t.id] = @ + 1]
    /\ Done(w)
    /\ UNCHANGED <<vars, stopped, reported, starts, faults>>

-----------------------------------------------------------------------------
(* handleJobFailure and failJob *)

(* Bug: the budget is not consulted. *)
RetryAlways(w, t, d) ==
    /\ pc[w] = "failing"
    /\ \/ ReleaseCtx(t, d) /\ Done(w) /\ UNCHANGED faults
       \/ LeaseLost(t) /\ Done(w) /\ UNCHANGED faults
       \/ (ReleaseCtx(t, d) \/ UNCHANGED vars) /\ Goto(w, "terminal") /\ UNCHANGED lease /\ Fault
    /\ UNCHANGED <<stopped, processed, reported, starts>>

(* Retries remain: release in place.  A lost lease drops the retry; any    *)
(* other error fails the job for good.                                     *)
Retry(w, t, d) ==
    /\ pc[w] = "failing" /\ t.attempts < MaxRetries
    /\ \/ ReleaseCtx(t, d) /\ Done(w) /\ UNCHANGED faults
       \/ LeaseLost(t) /\ Done(w) /\ UNCHANGED faults
       \/ (ReleaseCtx(t, d) \/ UNCHANGED vars) /\ Goto(w, "terminal") /\ UNCHANGED lease /\ Fault
    /\ UNCHANGED <<stopped, processed, reported, starts>>

(* The budget is spent, or ShouldRetry said no. *)
GiveUp(w) ==
    /\ pc[w] = "failing"
    /\ Goto(w, "terminal")
    /\ UNCHANGED <<vars, lease, stopped, processed, reported, starts, faults>>

(* MaxAttempts, ShouldRetry or Backoff of the job panicked: async.Go       *)
(* recovers and the pump is gone until its process is replaced.            *)
PumpPanics(w) ==
    /\ pc[w] = "failing" /\ Fault
    /\ Goto(w, "dead") /\ lease' = [lease EXCEPT ![w] = {}]
    /\ UNCHANGED <<vars, stopped, processed, reported, starts>>

FailJob(w, t) ==
    /\ pc[w] = "terminal"
    /\ \/ FailReservedCtx(t) /\ Goto(w, "reported") /\ UNCHANGED <<lease, faults>>
       \/ LeaseLost(t) /\ Done(w) /\ UNCHANGED faults
       \/ (FailReservedCtx(t) \/ UNCHANGED vars) /\ Done(w) /\ Fault
    /\ UNCHANGED <<stopped, processed, reported, starts>>

(* batch.recordFailure and queue.job.failed. *)
RecordFailure(w, t) ==
    /\ pc[w] = "reported"
    /\ reported' = [reported EXCEPT ![t.id] = @ + 1]
    /\ Done(w)
    /\ UNCHANGED <<vars, stopped, processed, starts, faults>>

-----------------------------------------------------------------------------
(* Processes *)

Stop(p) ==
    /\ ~stopped[p] /\ Fault
    /\ stopped' = [stopped EXCEPT ![p] = TRUE]
    /\ UNCHANGED <<vars, pc, lease, processed, reported, starts>>

(* Bug: a restart frees the rows under the process's workerID itself. *)
RestartFreesRows(p) ==
    /\ stopped[p] /\ \A w \in Pumps : Proc(w) = p => pc[w] \in {"idle", "dead"}
    /\ stopped' = [stopped EXCEPT ![p] = FALSE]
    /\ pc' = [w \in Pumps |-> IF Proc(w) = p THEN "idle" ELSE pc[w]]
    /\ jobs' = [i \in DOMAIN jobs |-> IF jobs[i].reservedBy = p
                                     THEN [jobs[i] EXCEPT !.reservedBy = NoProc, !.reservedAt = 0]
                                     ELSE jobs[i]]
    /\ UNCHANGED <<clock, nextId, dedupe, clearing, failed, acked, cleared, tokens, spent>>
    /\ UNCHANGED <<lease, processed, reported, starts, faults>>

(* A stopped worker does not start again; a new process takes its place. *)
Restart(p) ==
    /\ stopped[p] /\ \A w \in Pumps : Proc(w) = p => pc[w] \in {"idle", "dead"}
    /\ stopped' = [stopped EXCEPT ![p] = FALSE]
    /\ pc' = [w \in Pumps |-> IF Proc(w) = p THEN "idle" ELSE pc[w]]
    /\ UNCHANGED <<vars, lease, processed, reported, starts, faults>>

(* SIGKILL: the pumps vanish where they are; the process is replaced. *)
Crash(p) ==
    /\ Fault
    /\ pc' = [w \in Pumps |-> IF Proc(w) = p THEN "idle" ELSE pc[w]]
    /\ lease' = [w \in Pumps |-> IF Proc(w) = p THEN {} ELSE lease[w]]
    /\ stopped' = [stopped EXCEPT ![p] = FALSE]
    /\ UNCHANGED <<vars, processed, reported, starts>>

PumpStep(w) ==
    \/ BatchIDPanics(w) \/ SkipCancelled(w)
    \/ HandlerSucceeds(w) \/ HandlerFails(w) \/ GiveUp(w) \/ PumpPanics(w)
    \/ \E t \in lease[w] :
         \/ Quarantine(w, t) \/ StartHandler(w, t)
         \/ AckReservation(w, t) \/ RecordSuccess(w, t)
         \/ \E d \in Delays : Retry(w, t, d)
         \/ FailJob(w, t) \/ RecordFailure(w, t)

(* Callers outside the pool. *)
Client ==
    \/ \E p \in Procs, q \in Queues, d \in Delays : PushDelayedCtx(p, q, d)
    \/ \E p \in Procs, q \in Queues, k \in Keys : PushIfNotExistsCtx(p, q, k)
    \/ \E p \in Procs, q \in Queues : ClearJobs(p, q)
    \/ \E p \in Procs : ClearDedupe(p) \/ ClearAborted(p)

InTime(w) == \A t \in lease[w] : clock - t.at < RetryAfter - MaxSkew

Time == Tick /\ (Timely => \A w \in Pumps : InTime(w))

Pop(w) == \E q \in Queues, i \in RowIds : PopReserved(w, q, i)

WNext ==
    \/ \E w \in Pumps : Pop(w)
    \/ \E w \in Pumps : PumpStep(w)
    \/ \E p \in Procs : Stop(p) \/ Restart(p) \/ Crash(p)
    \/ Client /\ UNCHANGED pumpVars
    \/ Time /\ UNCHANGED pumpVars

WSpec == WInit /\ [][WNext]_<<vars, pumpVars>>

(* Pumps loop without end, handlers return or their context ends, drivers  *)
(* answer, Clear goes on, a stopped process is replaced, and time passes.  *)
Fairness ==
    /\ \A w \in Pumps : WF_<<vars, pumpVars>>(Pop(w)) /\ WF_<<vars, pumpVars>>(PumpStep(w))
    /\ \A p \in Procs : WF_<<vars, pumpVars>>(Restart(p))
    /\ \A p \in Procs : WF_<<vars, pumpVars>>(ClearDedupe(p) /\ UNCHANGED pumpVars)
    /\ WF_<<vars, pumpVars>>(Time /\ UNCHANGED pumpVars)

LiveSpec == WSpec /\ Fairness

-----------------------------------------------------------------------------
(* Properties *)

(* A pump between processJob calls holds no lease, and one inside holds    *)
(* exactly one token that its own process was issued.                      *)
WTypeOK ==
    /\ pc \in [Pumps -> PumpStates]
    /\ lease \in [Pumps -> SUBSET tokens]
    /\ \A w \in Pumps : IF pc[w] \in {"idle", "dead"} THEN lease[w] = {} ELSE \E t \in tokens : lease[w] = {t}
    /\ \A w \in Pumps : \A t \in lease[w] : t.reservedBy = Proc(w)
    /\ stopped \in [Procs -> BOOLEAN]
    /\ processed \in [RowIds -> Nat] /\ reported \in [RowIds -> Nat]
    /\ starts \in [RowIds -> Nat]
    /\ faults \in 0..MaxFaults

(* Side effects run at most once per job and only after the settlement     *)
(* they announce: no slow, reclaimed, crashed or erroring pump counts a    *)
(* job in its batch twice, or as both processed and failed                 *)
(* (ackReservation, failJob).                                              *)
SideEffectsOnce ==
    \A i \in RowIds :
        /\ processed[i] <= acked[i]
        /\ reported[i] <= failed[i]
        /\ processed[i] + reported[i] <= 1

(* Two pumps run handlers of one job at the same time only after the lease *)
(* of one of them ran out: no release, shutdown, restart or driver error   *)
(* hands a job on while its handler runs.                                  *)
OverlapNeedsExpiry ==
    \A v, w \in Pumps : \A t \in lease[v], u \in lease[w] :
        pc[v] = "running" /\ pc[w] = "running" /\ v # w /\ t.id = u.id =>
            clock - t.at > RetryAfter - MaxSkew \/ clock - u.at > RetryAfter - MaxSkew

(* At most MaxRetries deliveries of a job are settled by a worker, across  *)
(* restarts and reclaims, because handleJobFailure decides on the          *)
(* persisted attempts carried by the token.                                *)
SettledWithinBudget ==
    \A i \in RowIds : Cardinality({t \in spent : t.id = i}) <= MaxRetries

(* The pool uses the driver only through its operations. *)
UsesDriver == Spec

(* A job in the table is eventually acknowledged, failed or cleared:       *)
(* crashed, stopped and erroring workers delay it and never strand it.     *)
JobsSettle == \A i \in RowIds : i \in DOMAIN jobs ~> i \notin DOMAIN jobs

(* "The in-memory attempts cache resets on worker restart, so a process    *)
(* bounce between attempts would let an unbounded number of retries        *)
(* through; the persisted column survives the bounce" (handleJobFailure):  *)
(* a job's handler is started at most MaxRetries times.                    *)
RunsWithinBudget == \A i \in RowIds : starts[i] <= MaxRetries
=============================================================================
