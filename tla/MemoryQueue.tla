---------------------------- MODULE MemoryQueue ----------------------------
(***************************************************************************)
(* The in-memory queue driver (queue/memory.go), one queue of it: a FIFO   *)
(* list, a heap of delayed jobs, the leases of PopCtxReserved and the      *)
(* dedupe keys, all under one mutex, so each driver call is one step; what *)
(* a worker does between two calls is what interleaves.                    *)
(***************************************************************************)
EXTENDS Naturals, Sequences, FiniteSets, Functions

CONSTANTS
    Jobs,        \* job values; each is pushed once
    KeyOf,       \* KeyOf[j]: the dedupe key j is pushed with, or MemNoKey
    MemNoKey,
    Unbuildable, \* jobs whose factory fails when a worker rebuilds them
    MemWorkers,
    NoLeaseId,
    MemDelays,      \* delays of pushes and back-offs
    MemMaxTries,    \* the worker's attempt budget
    MaxClears    \* bound: calls of Clear

ASSUME MemoryAssumption ==
    /\ NoLeaseId \notin Nat /\ Unbuildable \subseteq Jobs /\ MemDelays \subseteq Nat
    /\ MemMaxTries \in Nat \ {0} /\ MaxClears \in Nat

VARIABLES
    list,     \* m.queues: the jobs ready, in order
    heap,     \* m.delayed: job and the time left to its runAt
    leases,   \* m.reservations: lease id and job
    memNextId,   \* m.nextReservationID
    tries,    \* Payload.Attempts of the wrapper
    keys,     \* m.dedupeKeys: "none", "fresh", or "old" past the retention
    failedJobs, ackedJobs, clearedJobs,
    token,    \* token[w]: the lease id worker w holds
    holding,  \* holding[w]: the job worker w is rebuilding, running or done with
    wstate,   \* wstate[w]: "idle", "rebuild", "run" or "failing"
    clears

memVars == <<list, heap, leases, memNextId, tries, keys, failedJobs, ackedJobs, clearedJobs,
             token, holding, wstate, clears>>

workerVars == <<token, holding, wstate>>
storeVars == <<list, heap, leases, memNextId, tries, keys>>
endVars == <<failedJobs, ackedJobs, clearedJobs>>

MemInit ==
    /\ list = <<>> /\ heap = {} /\ leases = {} /\ memNextId = 0
    /\ tries = [j \in Jobs |-> 0] /\ keys = [k \in {KeyOf[j] : j \in Jobs} |-> "none"]
    /\ failedJobs = {} /\ ackedJobs = {} /\ clearedJobs = {}
    /\ token = [w \in MemWorkers |-> NoLeaseId]
    /\ holding = [w \in MemWorkers |-> CHOOSE j \in Jobs : TRUE]
    /\ wstate = [w \in MemWorkers |-> "idle"]
    /\ clears = 0

Listed == Range(list)
Heaped == {d.job : d \in heap}
Leased == {r.job : r \in leases}
LiveJobs == Listed \cup Heaped \cup Leased
Unpushed == Jobs \ (LiveJobs \cup failedJobs \cup ackedJobs \cup clearedJobs)

-----------------------------------------------------------------------------
(* Pushing *)

(* PushIfNotExistsCtx: a key that is recorded makes the push a no-op. *)
PushOnce(j) ==
    /\ j \in Unpushed /\ KeyOf[j] # MemNoKey /\ keys[KeyOf[j]] = "none"
    /\ list' = Append(list, j) /\ keys' = [keys EXCEPT ![KeyOf[j]] = "fresh"]
    /\ UNCHANGED <<heap, leases, memNextId, tries, endVars, workerVars, clears>>

PushMem(j) ==
    /\ j \in Unpushed /\ KeyOf[j] = MemNoKey
    /\ \/ list' = Append(list, j) /\ UNCHANGED heap
       \/ /\ \E d \in MemDelays : heap' = heap \cup {[job |-> j, left |-> d]}
          /\ UNCHANGED list
    /\ UNCHANGED <<leases, memNextId, tries, keys, endVars, workerVars, clears>>

-----------------------------------------------------------------------------
(* A worker's calls *)

(* PopCtxReserved: the attempt is counted before the job is handed out. *)
ReserveMem(w) ==
    /\ wstate[w] = "idle" /\ list # <<>>
    /\ LET j == Head(list) IN
       /\ list' = Tail(list)
       /\ memNextId' = memNextId + 1
       /\ leases' = leases \cup {[id |-> memNextId', job |-> j]}
       /\ tries' = [tries EXCEPT ![j] = @ + 1]
       /\ token' = [token EXCEPT ![w] = memNextId'] /\ holding' = [holding EXCEPT ![w] = j]
       /\ wstate' = [wstate EXCEPT ![w] = IF j \in Unbuildable THEN "rebuild" ELSE "run"]
    /\ UNCHANGED <<heap, keys, endVars, clears>>

Leave(w) ==
    /\ holding' = [holding EXCEPT ![w] = CHOOSE j \in Jobs : TRUE]
    /\ wstate' = [wstate EXCEPT ![w] = "idle"]
    /\ token' = [token EXCEPT ![w] = NoLeaseId]

LeaseOf(w) == [id |-> token[w], job |-> holding[w]]

(* A call on a lease that Clear dropped is ErrLeaseLost and does nothing. *)
LostLease(w) ==
    /\ wstate[w] # "idle" /\ LeaseOf(w) \notin leases
    /\ Leave(w)
    /\ UNCHANGED <<storeVars, endVars, clears>>

(* Bug: a job that cannot be rebuilt is put down with its lease in place. *)
QuarantineSkipped(w) ==
    /\ wstate[w] = "rebuild" /\ LeaseOf(w) \in leases
    /\ Leave(w)
    /\ UNCHANGED <<storeVars, endVars, clears>>

(* quarantine: a job that cannot be rebuilt goes to the failed list. *)
QuarantineMem(w) ==
    /\ wstate[w] = "rebuild" /\ LeaseOf(w) \in leases
    /\ leases' = leases \ {LeaseOf(w)} /\ failedJobs' = failedJobs \cup {holding[w]}
    /\ Leave(w)
    /\ UNCHANGED <<list, heap, memNextId, tries, keys, ackedJobs, clearedJobs, clears>>

Ack(w) ==
    /\ wstate[w] = "run" /\ LeaseOf(w) \in leases
    /\ leases' = leases \ {LeaseOf(w)} /\ ackedJobs' = ackedJobs \cup {holding[w]}
    /\ Leave(w)
    /\ UNCHANGED <<list, heap, memNextId, tries, keys, failedJobs, clearedJobs, clears>>

(* Bug: the lease stays behind when its job goes back. *)
ReleaseKeepsLease(w) ==
    /\ wstate[w] = "run" /\ LeaseOf(w) \in leases /\ tries[holding[w]] < MemMaxTries
    /\ \E d \in MemDelays : heap' = heap \cup {[job |-> holding[w], left |-> d]}
    /\ Leave(w)
    /\ UNCHANGED <<list, leases, memNextId, tries, keys, endVars, clears>>

(* A failed attempt within the budget: ReleaseCtx with the back-off. *)
ReleaseMem(w) ==
    /\ wstate[w] = "run" /\ LeaseOf(w) \in leases /\ tries[holding[w]] < MemMaxTries
    /\ leases' = leases \ {LeaseOf(w)}
    /\ \E d \in MemDelays : heap' = heap \cup {[job |-> holding[w], left |-> d]}
    /\ Leave(w)
    /\ UNCHANGED <<list, memNextId, tries, keys, endVars, clears>>

(* The budget is spent, or the job declined the retry. *)
FailReserved(w) ==
    /\ wstate[w] = "run" /\ LeaseOf(w) \in leases
    /\ leases' = leases \ {LeaseOf(w)} /\ failedJobs' = failedJobs \cup {holding[w]}
    /\ Leave(w)
    /\ UNCHANGED <<list, heap, memNextId, tries, keys, ackedJobs, clearedJobs, clears>>

-----------------------------------------------------------------------------
(* The background goroutine, Clear and time *)

Due == {d \in heap : d.left = 0}

(* moveReadyJobs, on the one-second tick: every job that is due, in the    *)
(* order of times the model does not tell apart.                           *)
MoveReady ==
    /\ Due # {} /\ heap' = heap \ Due
    /\ \E s \in Bijection(1..Cardinality(Due), Due) : list' = list \o [k \in DOMAIN s |-> s[k].job]
    /\ UNCHANGED <<leases, memNextId, tries, keys, endVars, workerVars, clears>>

(* sweepStaleDedupeKeys: the key of a live job stays. *)
SweepKeys ==
    /\ keys' = [k \in DOMAIN keys |->
                  IF keys[k] = "old" /\ \A j \in LiveJobs : KeyOf[j] # k THEN "none" ELSE keys[k]]
    /\ keys' # keys
    /\ UNCHANGED <<list, heap, leases, memNextId, tries, endVars, workerVars, clears>>

(* Clear drops the queue, its leases and the keys of what it dropped. *)
ClearMem ==
    /\ clears < MaxClears /\ clears' = clears + 1
    /\ list' = <<>> /\ heap' = {} /\ leases' = {} /\ clearedJobs' = clearedJobs \cup LiveJobs
    /\ keys' = [k \in DOMAIN keys |-> IF \E j \in LiveJobs : KeyOf[j] = k THEN "none" ELSE keys[k]]
    /\ UNCHANGED <<memNextId, tries, failedJobs, ackedJobs, workerVars>>

(* The delays run down; the retention of a key may end at any time. *)
TimeLeft == heap' = {[d EXCEPT !.left = IF @ = 0 THEN 0 ELSE @ - 1] : d \in heap} /\ heap' # heap

Elapse ==
    /\ \/ TimeLeft /\ UNCHANGED keys
       \/ \E k \in DOMAIN keys \ {MemNoKey} :
            keys[k] = "fresh" /\ keys' = [keys EXCEPT ![k] = "old"] /\ UNCHANGED heap
    /\ UNCHANGED <<list, leases, memNextId, tries, endVars, workerVars, clears>>

WorkerCall(w) ==
    \/ ReserveMem(w) \/ LostLease(w) \/ QuarantineMem(w)
    \/ Ack(w) \/ ReleaseMem(w) \/ FailReserved(w)

MemNext ==
    \/ \E j \in Jobs : PushMem(j) \/ PushOnce(j)
    \/ \E w \in MemWorkers : WorkerCall(w)
    \/ MoveReady \/ SweepKeys \/ ClearMem \/ Elapse

MemSpec == MemInit /\ [][MemNext]_memVars

(* Workers poll, handlers end, the background goroutine ticks, time goes   *)
(* on.                                                                     *)
MemFairness ==
    /\ \A w \in MemWorkers : WF_memVars(WorkerCall(w))
    /\ WF_memVars(MoveReady)
    /\ WF_memVars(TimeLeft /\ Elapse)

MemLiveSpec == MemSpec /\ MemFairness

-----------------------------------------------------------------------------
(* Properties *)

(* The store and the workers are well formed. *)
MemTypeOK ==
    /\ list \in Seq(Jobs) /\ heap \subseteq [job: Jobs, left: Nat]
    /\ leases \subseteq [id: Nat, job: Jobs]
    /\ wstate \in [MemWorkers -> {"idle", "rebuild", "run"}]

(* At most one live job carries a dedupe key, however often its retention  *)
(* ends while the job is queued, delayed by a back-off or leased           *)
(* (PushIfNotExistsCtx, sweepStaleDedupeKeys).                             *)
LiveKeysUnique ==
    \A i, j \in LiveJobs : KeyOf[i] = KeyOf[j] /\ KeyOf[i] # MemNoKey => i = j

(* A delayed or released job is not handed out before its runAt: it leaves *)
(* the heap for the list only with no time left, save for Clear.           *)
MemDelayHonoured ==
    [][\A d \in heap : d.job \notin {e.job : e \in heap'} =>
           d.left = 0 \/ d.job \in clearedJobs']_memVars

(* The leases, the heap and the list hold each job once, through releases, *)
(* retries and Clear: the driver implements JobQueue.                      *)
Abstract == INSTANCE JobQueue WITH
    ready <- Listed, waiting <- Heaped, leased <- Leased, settled <- failedJobs \cup ackedJobs

MemImplementsQueue == Abstract!JobSpec

(* The memory driver keeps the contract of a queue: the places of a job,   *)
(* its dedupe key and its delay.                                           *)
MemKeepsContract == MemImplementsQueue /\ []LiveKeysUnique /\ MemDelayHonoured

(* Every pushed job is acknowledged, recorded as failed or cleared. *)
MemJobsSettle ==
    \A j \in Jobs : j \in LiveJobs ~> j \in failedJobs \cup ackedJobs \cup clearedJobs
=============================================================================
