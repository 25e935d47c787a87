-------------------------------- MODULE Batch --------------------------------
(***************************************************************************)
(* One job batch (queue/batch.go) on the SQL batch repository, the workers *)
(* that settle its jobs, and the named callbacks (queue/batch_callback.go) *)
(* delivered through the queue with a reaper behind them.  The dispatcher, *)
(* the workers, the callback goroutines and the reaper of any process      *)
(* interleave between repository statements.  The queue itself is used     *)
(* through what QueueWorker shows of it: a job is delivered at least once, *)
(* and its side effects run at most once, after its settlement.            *)
(***************************************************************************)
EXTENDS Integers, FiniteSets

CONSTANTS
    Jobs,           \* the jobs of the batch
    Named,          \* the kinds of callback the batch has a name for
    AllowFailures,  \* the batch's allowFailures
    Timeouts,       \* TRUE: a job's context may end before its outcome is recorded
    ReadsFail,      \* TRUE: the repository reads of a failed Dispatch may fail
    PushCommits,    \* TRUE: a push may report an error and still have taken effect
    MaxPushers,     \* bound: goroutines delivering one callback at a time
    MaxFaults       \* bound: crashes and failed storage calls

Kinds == {"then", "catch", "finally"}

ASSUME BatchAssumption ==
    /\ IsFiniteSet(Jobs) /\ Jobs # {}
    /\ Named \subseteq Kinds
    /\ AllowFailures \in BOOLEAN /\ Timeouts \in BOOLEAN
    /\ ReadsFail \in BOOLEAN /\ PushCommits \in BOOLEAN
    /\ MaxPushers \in Nat /\ MaxFaults \in Nat

VARIABLES
    row,         \* the job_batches row: pending, completed, failed, cancelled, done
    pruned,      \* PruneStale deleted the row
    disp,        \* where Dispatch is
    left,        \* slots Dispatch has yet to release after a failed push
    local,       \* the dispatcher's *Batch: cancelled, failures, finished
    job,         \* job[j]: where job j is
    fin,         \* fin[j]: recording j finished the batch (justFinished)
    dispatched,  \* dispatched[k]: the <kind>_dispatched column
    pushing,     \* pushing[k]: goroutines and reapers about to push callback k
    marking,     \* marking[k]: those that pushed it and are about to mark it
    callback,    \* callback[k]: the callback job in the queue: none, queued, done
    runs,        \* observation, runs[k]: times the handler of callback k ran
    fires,       \* observation: calls of fireTerminalCallbacks
    lost,        \* observation: slots whose record was lost
    faults       \* crashes and failed storage calls so far

vars == <<row, pruned, disp, left, local, job, fin, dispatched, pushing, marking,
          callback, runs, fires, lost, faults>>

repoVars == <<row, pruned, lost>>
dispVars == <<disp, left, local>>
callbackVars == <<dispatched, pushing, marking, callback, runs>>

JobStates == {"unpushed", "queued", "running", "skipping", "succeeded", "failed", "skipped",
              "catching", "cancelling", "firing", "recorded", "lost"}

DispStates == {"pushing", "draining", "refreshing", "cancelling", "firing", "done", "crashed"}

(* Dispatch has saved the batch. *)
Init ==
    /\ row = [pending |-> Cardinality(Jobs), completed |-> 0, failed |-> 0,
              cancelled |-> FALSE, done |-> FALSE]
    /\ pruned = FALSE
    /\ disp = "pushing" /\ left = 0
    /\ local = [cancelled |-> FALSE, failures |-> FALSE, finished |-> FALSE]
    /\ job = [j \in Jobs |-> "unpushed"]
    /\ fin = [j \in Jobs |-> FALSE]
    /\ dispatched = [k \in Kinds |-> FALSE]
    /\ pushing = [k \in Kinds |-> 0]
    /\ marking = [k \in Kinds |-> 0]
    /\ callback = [k \in Kinds |-> "none"]
    /\ runs = [k \in Kinds |-> 0]
    /\ fires = 0 /\ lost = 0 /\ faults = 0

Fault == faults < MaxFaults /\ faults' = faults + 1

(* A repository call under the job's context fails. *)
CallFails == Fault \/ (Timeouts /\ UNCHANGED faults)

-----------------------------------------------------------------------------
(* The repository *)

(* incrementCounter: the clamped counters and the completion CAS, in one   *)
(* transaction; no row matches once the batch is pruned.                   *)
Settled(c, f) ==
    IF row.pending > 0 /\ ~pruned
    THEN [row EXCEPT !.pending = @ - 1, !.completed = @ + c, !.failed = @ + f,
                     !.done = @ \/ row.pending = 1]
    ELSE row

(* Bug: every caller that sees no pending job fires the callbacks. *)
FinishesAgain(c, f) == Settled(c, f).pending = 0

JustFinished(c, f) == Settled(c, f).done /\ ~row.done

(* repo.Cancel: cancelled_at of the row, if it is there. *)
CancelledRow == IF pruned THEN row ELSE [row EXCEPT !.cancelled = TRUE]

(* fireTerminalCallbacks: which named callbacks it dispatches. *)
TerminalKinds(failures) == IF failures THEN {"finally"} ELSE {"then", "finally"}

(* dispatchBatchCallbackJob for each named kind in K. *)
DispatchCallbacks(K) ==
    pushing' = [k \in Kinds |-> IF k \in K \cap Named THEN pushing[k] + 1 ELSE pushing[k]]

FireTerminalCallbacks(failures) ==
    /\ DispatchCallbacks(TerminalKinds(failures))
    /\ fires' = fires + 1
    /\ UNCHANGED <<dispatched, marking, callback, runs>>

-----------------------------------------------------------------------------
(* Dispatch *)

Unpushed == {j \in Jobs : job[j] = "unpushed"}

Push(j) ==
    /\ disp = "pushing" /\ job[j] = "unpushed"
    /\ job' = [job EXCEPT ![j] = "queued"]
    /\ disp' = IF Unpushed = {j} THEN "done" ELSE "pushing"
    /\ UNCHANGED <<repoVars, left, local, fin, callbackVars, fires, faults>>

(* Bug: the slots of the jobs not pushed are not released. *)
PushFailsKeepsSlots(j) ==
    /\ disp = "pushing" /\ job[j] = "unpushed" /\ Fault
    /\ disp' = "refreshing"
    /\ UNCHANGED <<repoVars, left, local, job, fin, callbackVars, fires>>

(* Bug: one slot too many is released. *)
PushFailsOneTooMany(j) ==
    /\ disp = "pushing" /\ job[j] = "unpushed" /\ Fault
    /\ disp' = "draining" /\ left' = Cardinality(Unpushed) + 1
    /\ UNCHANGED <<repoVars, local, job, fin, callbackVars, fires>>

(* The driver refused the job, or reported an error after taking it. *)
PushFails(j) ==
    /\ disp = "pushing" /\ job[j] = "unpushed" /\ Fault
    /\ disp' = "draining" /\ left' = Cardinality(Unpushed)
    /\ \/ UNCHANGED job
       \/ PushCommits /\ job' = [job EXCEPT ![j] = "queued"]
    /\ UNCHANGED <<repoVars, local, fin, callbackVars, fires>>

(* DecrementPending for one slot of a job that was not pushed; an error    *)
(* is passed over, whether or not the transaction committed.               *)
Drain ==
    /\ disp = "draining" /\ left > 0
    /\ left' = left - 1
    /\ disp' = IF left = 1 THEN "refreshing" ELSE "draining"
    /\ \/ /\ row' = Settled(0, 0)
          /\ local' = [local EXCEPT !.finished = @ \/ JustFinished(0, 0)]
          /\ UNCHANGED <<lost, faults>>
       \/ Fault /\ row' = Settled(0, 0) /\ UNCHANGED <<local, lost>>
       \/ Fault /\ lost' = lost + 1 /\ UNCHANGED <<row, local>>
    /\ UNCHANGED <<pruned, job, fin, callbackVars, fires>>

(* repo.Find, mirrored onto the dispatcher's copy. *)
Refresh ==
    /\ disp = "refreshing"
    /\ disp' = "cancelling"
    /\ \/ ~pruned /\ local' = [local EXCEPT !.failures = @ \/ row.failed > 0, !.cancelled = @ \/ row.cancelled]
       \/ (pruned \/ ReadsFail) /\ UNCHANGED local
    /\ UNCHANGED <<repoVars, left, job, fin, callbackVars, fires, faults>>

(* CancelCtx on the dispatcher's copy, which mirrors the row read back. *)
CancelLocal ==
    /\ row' = CancelledRow
    /\ local' = [local EXCEPT !.cancelled = TRUE, !.failures = @ \/ (~pruned /\ row.failed > 0)]

(* The copy is marked even when the repository call fails. *)
CancelLocalFails == UNCHANGED row /\ local' = [local EXCEPT !.cancelled = TRUE]

CancelDispatched ==
    /\ disp = "cancelling"
    /\ disp' = "firing"
    /\ \/ local.cancelled /\ UNCHANGED <<row, local>>
       \/ ~local.cancelled /\ CancelLocal
       \/ ~local.cancelled /\ ReadsFail /\ CancelLocalFails
    /\ UNCHANGED <<pruned, lost, left, job, fin, callbackVars, fires, faults>>

FireDispatched ==
    /\ disp = "firing"
    /\ disp' = "done"
    /\ IF local.finished THEN FireTerminalCallbacks(local.failures) ELSE UNCHANGED <<callbackVars, fires>>
    /\ UNCHANGED <<repoVars, left, local, job, fin, faults>>

(* The dispatching process dies; the slots it had not pushed or released stay. *)
DispatchCrashes ==
    /\ disp \notin {"done", "crashed"} /\ Fault
    /\ disp' = "crashed"
    /\ lost' = lost + (IF disp = "pushing" THEN Cardinality(Unpushed) ELSE left)
    /\ left' = 0
    /\ UNCHANGED <<row, pruned, local, job, fin, callbackVars, fires>>

(* The application cancels, through the *Batch that Dispatch returned or   *)
(* through a fresh copy from FindBatch.                                    *)
Cancel ==
    /\ ~pruned
    /\ \/ disp = "done" /\ ~local.cancelled /\ CancelLocal /\ UNCHANGED faults
       \/ disp = "done" /\ ~local.cancelled /\ CancelLocalFails /\ Fault
       \/ ~row.cancelled /\ row' = CancelledRow /\ UNCHANGED <<local, faults>>
    /\ UNCHANGED <<pruned, lost, disp, left, job, fin, callbackVars, fires>>

-----------------------------------------------------------------------------
(* A worker and a job of the batch *)

Move(j, from, to) == job[j] = from /\ job' = [job EXCEPT ![j] = to]

(* The cancellation is read at the pop and not again; FindBatch reports a  *)
(* storage error as "not found", and the job runs.                         *)
PopJob(j) ==
    /\ \/ /\ Move(j, "queued", IF row.cancelled /\ ~pruned THEN "skipping" ELSE "running")
          /\ UNCHANGED faults
       \/ row.cancelled /\ Fault /\ Move(j, "queued", "running")
    /\ UNCHANGED <<repoVars, dispVars, fin, callbackVars, fires>>

(* The job is acknowledged, recorded as failed, or acknowledged unrun. *)
SettleJob(j) ==
    /\ \/ Move(j, "running", "succeeded")
       \/ Move(j, "running", "failed")
       \/ Move(j, "skipping", "skipped")
    /\ UNCHANGED <<repoVars, dispVars, fin, callbackVars, fires, faults>>

(* Released for a retry, or redelivered after its worker died. *)
Redeliver(j) ==
    /\ Fault
    /\ Move(j, "running", "queued") \/ Move(j, "skipping", "queued")
    /\ UNCHANGED <<repoVars, dispVars, fin, callbackVars, fires>>

(* recordSuccess, recordFailure or recordSkip reaches the repository.  On  *)
(* a pruned row nothing happens.                                           *)
Record(j, c, f, next) ==
    /\ row' = Settled(c, f)
    /\ fin' = [fin EXCEPT ![j] = JustFinished(c, f)]
    /\ job' = [job EXCEPT ![j] = IF pruned THEN "recorded" ELSE next]
    /\ UNCHANGED <<pruned, lost, dispVars, callbackVars, fires, faults>>

RecordOutcome(j) ==
    \/ job[j] = "succeeded" /\ Record(j, 1, 0, "firing")
    \/ job[j] = "failed" /\ Record(j, 0, 1, "catching")
    \/ job[j] = "skipped" /\ Record(j, 0, 0, "firing")

(* The worker dies first, the repository errors, or the job's context has  *)
(* ended and the repository refuses the call: the record* return silently. *)
RecordLost(j) ==
    /\ job[j] \in {"succeeded", "failed", "skipped"}
    /\ CallFails
    /\ job' = [job EXCEPT ![j] = "lost"]
    /\ lost' = lost + 1
    /\ UNCHANGED <<row, pruned, dispVars, fin, callbackVars, fires>>

(* recordFailure dispatches Catch, *)
DispatchCatch(j) ==
    /\ Move(j, "catching", IF AllowFailures THEN "firing" ELSE "cancelling")
    /\ DispatchCallbacks({"catch"})
    /\ UNCHANGED <<repoVars, dispVars, fin, dispatched, marking, callback, runs, fires, faults>>

(* then cancels, where the write may fail, *)
AutoCancel(j) ==
    /\ Move(j, "cancelling", "firing")
    /\ \/ row' = CancelledRow /\ UNCHANGED faults
       \/ CallFails /\ UNCHANGED row
    /\ UNCHANGED <<pruned, lost, dispVars, fin, callbackVars, fires>>

(* and whoever finished the batch fires the terminal callbacks. *)
FireRecorded(j) ==
    /\ Move(j, "firing", "recorded")
    /\ IF fin[j] THEN FireTerminalCallbacks(row.failed > 0) ELSE UNCHANGED <<callbackVars, fires>>
    /\ UNCHANGED <<repoVars, dispVars, fin, faults>>

(* The worker dies between the record and what follows it, or the commit   *)
(* took effect and reported an error.                                      *)
RecorderCrashes(j) ==
    /\ job[j] \in {"catching", "cancelling", "firing"} /\ Fault
    /\ job' = [job EXCEPT ![j] = "recorded"]
    /\ UNCHANGED <<repoVars, dispVars, fin, callbackVars, fires>>

-----------------------------------------------------------------------------
(* Callback delivery *)

Bump(f, k, n) == [f EXCEPT ![k] = @ + n]

Enqueued(k) == [callback EXCEPT ![k] = IF @ = "none" THEN "queued" ELSE @]

(* pushBatchCallback: PushIfNotExistsCtx on (batch, kind). *)
PushCallback(k) ==
    /\ pushing[k] > 0
    /\ pushing' = Bump(pushing, k, -1)
    /\ \/ callback' = Enqueued(k) /\ marking' = Bump(marking, k, 1) /\ UNCHANGED faults
       \/ Fault /\ callback' \in {callback, Enqueued(k)} /\ UNCHANGED marking
    /\ UNCHANGED <<repoVars, dispVars, job, fin, dispatched, runs, fires>>

MarkCallbackDispatched(k) ==
    /\ marking[k] > 0
    /\ marking' = Bump(marking, k, -1)
    /\ \/ dispatched' = [dispatched EXCEPT ![k] = @ \/ ~pruned] /\ UNCHANGED faults
       \/ Fault /\ UNCHANGED dispatched
    /\ UNCHANGED <<repoVars, dispVars, job, fin, pushing, callback, runs, fires>>

(* Bug: the reaper forgets batches that finished with failures. *)
UndispatchedNoFailures(k) ==
    k \in Named /\ ~pruned /\ ~dispatched[k] /\ row.done /\ row.failed = 0

(* FindUndispatchedCallbacks *)
Undispatched(k) ==
    /\ k \in Named /\ ~pruned /\ ~dispatched[k]
    /\ CASE k = "then" -> row.done /\ row.failed = 0
         [] k = "catch" -> row.failed > 0
         [] k = "finally" -> row.done

ReaperTick(k) ==
    /\ Undispatched(k) /\ pushing[k] + marking[k] < MaxPushers
    /\ DispatchCallbacks({k})
    /\ UNCHANGED <<repoVars, dispVars, job, fin, dispatched, marking, callback, runs, fires, faults>>

Ran(k) == IF pruned THEN runs ELSE Bump(runs, k, 1)

(* BatchCallbackJob.HandleCtx on a worker.  A worker that dies before its  *)
(* acknowledgement, a handler's error or a failed Find leaves the job to   *)
(* be delivered again.                                                     *)
HandleCallback(k) ==
    /\ callback[k] = "queued"
    /\ \/ callback' = [callback EXCEPT ![k] = "done"] /\ runs' = Ran(k) /\ UNCHANGED faults
       \/ Fault /\ runs' \in {runs, Ran(k)} /\ UNCHANGED callback
    /\ UNCHANGED <<repoVars, dispVars, job, fin, dispatched, pushing, marking, fires>>

PruneStale ==
    /\ row.done /\ ~pruned
    /\ pruned' = TRUE
    /\ UNCHANGED <<row, lost, dispVars, job, fin, callbackVars, fires, faults>>

-----------------------------------------------------------------------------
JobStep(j) ==
    \/ PopJob(j) \/ SettleJob(j) \/ RecordOutcome(j) \/ RecordLost(j)
    \/ DispatchCatch(j) \/ AutoCancel(j) \/ FireRecorded(j)

DispatchStep ==
    \/ \E j \in Jobs : Push(j) \/ PushFails(j)
    \/ Drain \/ Refresh \/ CancelDispatched \/ FireDispatched

Next ==
    \/ DispatchStep
    \/ DispatchCrashes \/ Cancel \/ PruneStale
    \/ \E j \in Jobs : JobStep(j)
    \/ \E j \in Jobs : Redeliver(j) \/ RecorderCrashes(j)
    \/ \E k \in Kinds : PushCallback(k) \/ MarkCallbackDispatched(k) \/ ReaperTick(k) \/ HandleCallback(k)

Spec == Init /\ [][Next]_vars

(* Dispatch runs on, workers keep popping and settling, started goroutines *)
(* finish, and the reaper's ticker keeps firing.                           *)
Fairness ==
    /\ WF_vars(DispatchStep)
    /\ \A j \in Jobs : WF_vars(JobStep(j))
    /\ \A k \in Kinds : WF_vars(PushCallback(k)) /\ WF_vars(MarkCallbackDispatched(k))
    /\ \A k \in Kinds : WF_vars(ReaperTick(k)) /\ WF_vars(HandleCallback(k))

LiveSpec == Spec /\ Fairness

-----------------------------------------------------------------------------
(* Properties *)

TypeOK ==
    /\ row \in [pending: Nat, completed: Nat, failed: Nat, cancelled: BOOLEAN, done: BOOLEAN]
    /\ pruned \in BOOLEAN
    /\ disp \in DispStates /\ left \in Nat
    /\ local \in [cancelled: BOOLEAN, failures: BOOLEAN, finished: BOOLEAN]
    /\ job \in [Jobs -> JobStates]
    /\ fin \in [Jobs -> BOOLEAN]
    /\ dispatched \in [Kinds -> BOOLEAN]
    /\ pushing \in [Kinds -> Nat] /\ marking \in [Kinds -> Nat]
    /\ callback \in [Kinds -> {"none", "queued", "done"}]
    /\ runs \in [Kinds -> Nat]
    /\ fires \in Nat /\ lost \in Nat /\ faults \in 0..MaxFaults

(* "Finished returns whether the batch has completed (all jobs processed)" *)
(* (Batch.Finished): no job of a finished batch is still to be delivered,  *)
(* running, or waiting for its outcome to be counted, however a failed     *)
(* Dispatch and the workers interleave.                                    *)
FinishedMeansProcessed ==
    row.done => \A j \in Jobs : job[j] \in {"unpushed", "catching", "cancelling", "firing", "recorded"}

(* The terminal callbacks of a batch fire at most once, from the one       *)
(* caller whose transaction set completed_at (incrementCounter's CAS), be  *)
(* it a worker or a Dispatch that releases slots.                          *)
TerminalOnce == fires <= 1

(* "CallbackThen runs once when every job in the batch completes without   *)
(* failure": the Then handler never runs for a batch that counts one.      *)
ThenNotAfterFailure == runs["then"] > 0 => row.failed = 0

(* "The invariant completed_jobs + failed_jobs <= total_jobs holds on all  *)
(* three engines" (buildIncrementUpdate), the pending slots included, even *)
(* when more outcomes are recorded than the batch has slots.               *)
CountersWithinTotal == row.pending + row.completed + row.failed <= Cardinality(Jobs)

(* The counters of a finished batch do not change, so what the terminal    *)
(* callbacks and late readers see is final.                                *)
FinishedIsFinal ==
    [][row.done => /\ row'.done
                   /\ <<row'.pending, row'.completed, row'.failed>> = <<row.pending, row.completed, row.failed>>]_vars

(* A dispatched batch finishes unless the record of one of its slots was   *)
(* lost: failed pushes, cancellation and skips do not leave it pending.    *)
BatchFinishes == [](disp \in {"done", "crashed"} => <>(row.done \/ lost > 0))

(* Once due, a callback is queued in the end, although pushes and marks    *)
(* fail and processes die, because the reaper works from the row; only     *)
(* pruning the batch first can drop it.                                    *)
CallbacksDelivered ==
    /\ (row.done /\ "finally" \in Named) ~> (callback["finally"] # "none" \/ pruned)
    /\ (row.failed > 0 /\ "catch" \in Named) ~> (callback["catch"] # "none" \/ pruned)
    /\ (row.done /\ row.failed = 0 /\ "then" \in Named) ~> (callback["then"] # "none" \/ pruned)

(* "Sets/reads the BatchID so the worker can update batch progress on      *)
(* success/failure" (queue/doc.go, Batchable), and recordFailure "is       *)
(* called by the worker when a batch job fails permanently": without any   *)
(* crash or storage error a batch dispatched in full reaches its terminal  *)
(* state, also when one of its jobs runs into its timeout.                 *)
TimedOutBatchFinishes == disp = "done" ~> row.done

(* "Then sets a closure that fires when ALL jobs complete successfully"    *)
(* and "CallbackThen runs once when every job in the batch completes       *)
(* without failure": Then runs only when every job completed.              *)
ThenMeansAllCompleted == runs["then"] > 0 => row.completed = Cardinality(Jobs)
=============================================================================
