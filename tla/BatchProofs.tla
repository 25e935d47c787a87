----------------------------- MODULE BatchProofs -----------------------------
(***************************************************************************)
(* Proofs about Batch for every number of jobs, callbacks and faults.  The *)
(* argument: a batch is done exactly when nothing is pending, so its       *)
(* counters freeze (DoneInv); one caller at most is told that it finished  *)
(* the batch, and it has not yet fired while fires = 0 (OwnerInv); and the *)
(* failures that caller sees are the final ones (ThenInv).                 *)
(***************************************************************************)
EXTENDS Batch, FiniteSetTheorems, TLAPS

Total == Cardinality(Jobs)

(* The number of jobs is a positive natural number. *)
LEMMA TotalPositive == Total \in Nat /\ Total > 0
BY BatchAssumption, FS_CardinalityType, FS_EmptySet DEF BatchAssumption, Total

RowType == [pending: Nat, completed: Nat, failed: Nat, cancelled: BOOLEAN, done: BOOLEAN]

(* What incrementCounter's transaction does to each column. *)
LEMMA SettledEffect ==
    ASSUME NEW c \in {0, 1}, NEW f \in {0, 1}, row \in RowType
    PROVE  /\ Settled(c, f) \in RowType
           /\ row.pending = 0 \/ pruned => Settled(c, f) = row
           /\ row.pending > 0 /\ ~pruned =>
                /\ Settled(c, f).pending = row.pending - 1
                /\ Settled(c, f).completed = row.completed + c
                /\ Settled(c, f).failed = row.failed + f
                /\ Settled(c, f).done <=> (row.done \/ row.pending = 1)
<1>1. CASE row.pending = 0 \/ pruned
  BY <1>1 DEF Settled, RowType
<1>2. CASE row.pending > 0 /\ ~pruned
  <2> DEFINE r == [row EXCEPT !.pending = row.pending - 1, !.completed = row.completed + c,
                              !.failed = row.failed + f, !.done = (row.done \/ row.pending = 1)]
  <2>1. Settled(c, f) = r
    BY <1>2 DEF Settled
  <2>2. row.pending - 1 \in Nat /\ row.completed + c \in Nat /\ row.failed + f \in Nat
    BY <1>2 DEF RowType
  <2>3. (row.done \/ row.pending = 1) \in BOOLEAN
    OBVIOUS
  <2>4. r \in RowType
    BY <2>2, <2>3, Zenon DEF RowType
  <2>5. /\ r.pending = row.pending - 1 /\ r.completed = row.completed + c
        /\ r.failed = row.failed + f /\ r.done = (row.done \/ row.pending = 1)
    BY DEF RowType
  <2> HIDE DEF r
  <2>6. row.pending # 0
    BY <1>2
  <2> QED BY <1>2, <2>1, <2>4, <2>5, <2>6, Zenon
<1> QED BY <1>1, <1>2 DEF RowType

(* What repo.Cancel does. *)
LEMMA CancelEffect ==
    ASSUME row \in RowType
    PROVE  /\ CancelledRow \in RowType
           /\ CancelledRow.pending = row.pending /\ CancelledRow.completed = row.completed
           /\ CancelledRow.failed = row.failed /\ CancelledRow.done = row.done
BY Zenon DEF CancelledRow, RowType

(* Every step leaves the row, cancels it or settles one slot. *)
RowStep ==
    \/ row' = row
    \/ row' = CancelledRow
    \/ \E c, f \in {0, 1} : c + f <= 1 /\ row' = Settled(c, f)

(* Every statement of the system that writes the batch row does one of these. *)
LEMMA RowSteps == [Next]_vars => RowStep
<1> SUFFICES ASSUME [Next]_vars PROVE RowStep
  OBVIOUS
<1> USE DEF RowStep, repoVars, dispVars, callbackVars
<1>1. CASE UNCHANGED vars
  BY <1>1 DEF vars
<1>2. CASE DispatchStep
  BY <1>2 DEF DispatchStep, Push, PushFails, Drain, Refresh, CancelDispatched, CancelLocal,
              CancelLocalFails, FireDispatched
<1>3. CASE DispatchCrashes \/ Cancel \/ PruneStale
  BY <1>3, ZenonT(30) DEF DispatchCrashes, Cancel, CancelLocal, CancelLocalFails, PruneStale
<1>4. ASSUME NEW j \in Jobs, JobStep(j) \/ Redeliver(j) \/ RecorderCrashes(j) PROVE RowStep
  BY <1>4 DEF JobStep, PopJob, SettleJob, RecordOutcome, Record, RecordLost, DispatchCatch,
              AutoCancel, FireRecorded, Redeliver, RecorderCrashes
<1>5. ASSUME NEW k \in Kinds,
             PushCallback(k) \/ MarkCallbackDispatched(k) \/ ReaperTick(k) \/ HandleCallback(k)
      PROVE RowStep
  BY <1>5 DEF PushCallback, MarkCallbackDispatched, ReaperTick, HandleCallback
<1> QED BY <1>1, <1>2, <1>3, <1>4, <1>5 DEF Next

-----------------------------------------------------------------------------
(* A batch is done exactly when nothing is pending, and its counters never *)
(* exceed its jobs.                                                        *)
DoneInv ==
    /\ row \in RowType
    /\ row.done <=> row.pending = 0
    /\ row.pending + row.completed + row.failed <= Total

(* Dispatch saves a batch with every slot open. *)
LEMMA DoneInit == Init => DoneInv
<1> SUFFICES ASSUME Init PROVE DoneInv
  OBVIOUS
<1>1. row = [pending |-> Total, completed |-> 0, failed |-> 0, cancelled |-> FALSE, done |-> FALSE]
  BY DEF Init, Total
<1> QED BY <1>1, TotalPositive DEF DoneInv, RowType

(* One step keeps DoneInv, and does not move the counters of a done batch. *)
LEMMA DoneStep ==
    DoneInv /\ RowStep =>
        /\ DoneInv'
        /\ row.done => /\ row'.done
                       /\ <<row'.pending, row'.completed, row'.failed>> = <<row.pending, row.completed, row.failed>>
<1> SUFFICES ASSUME DoneInv, RowStep
             PROVE /\ DoneInv'
                   /\ row.done => /\ row'.done
                                  /\ <<row'.pending, row'.completed, row'.failed>>
                                       = <<row.pending, row.completed, row.failed>>
  OBVIOUS
<1>0. row \in RowType /\ row.pending \in Nat /\ row.completed \in Nat /\ row.failed \in Nat
  BY DEF DoneInv, RowType
<1>t. Total \in Nat /\ Total' = Total
  BY TotalPositive DEF Total
<1>1. CASE row' = row
  BY <1>1, <1>t DEF DoneInv
<1>2. CASE row' = CancelledRow
  BY <1>0, <1>2, <1>t, CancelEffect DEF DoneInv
<1>3. ASSUME NEW c \in {0, 1}, NEW f \in {0, 1}, c + f <= 1, row' = Settled(c, f)
      PROVE  /\ DoneInv'
             /\ row.done => /\ row'.done
                            /\ <<row'.pending, row'.completed, row'.failed>>
                                 = <<row.pending, row.completed, row.failed>>
  <2>1. CASE row.pending = 0 \/ pruned
    <3>1. row' = row
      BY <1>0, <1>3, <2>1, SettledEffect
    <3> QED BY <3>1, <1>t DEF DoneInv
  <2>2. CASE row.pending > 0 /\ ~pruned
    <3>1. /\ row' \in RowType /\ row'.pending = row.pending - 1
          /\ row'.completed = row.completed + c /\ row'.failed = row.failed + f
          /\ row'.done <=> (row.done \/ row.pending = 1)
      BY <1>0, <1>3, <2>2, SettledEffect
    <3>2. ~row.done
      BY <2>2, <1>0 DEF DoneInv
    <3>3. row'.pending + row'.completed + row'.failed <= Total
      BY <1>0, <1>3, <1>t, <3>1 DEF DoneInv
    <3>4. row'.done <=> row'.pending = 0
      BY <1>0, <2>2, <3>1, <3>2
    <3> QED BY <3>1, <3>2, <3>3, <3>4, <1>t DEF DoneInv
  <2> QED BY <1>0, <2>1, <2>2
<1> QED BY <1>1, <1>2, <1>3 DEF RowStep

(* completed_at is set exactly while no slot is pending (incrementCounter's *)
(* completion CAS), at every moment of every behaviour.                    *)
THEOREM DoneCorrect == Spec => []DoneInv
<1>1. DoneInv /\ [Next]_vars => DoneInv'
  BY RowSteps, DoneStep
<1> QED BY <1>1, DoneInit, PTL DEF Spec

(* No interleaving of workers, a failing Dispatch and late outcomes counts *)
(* more outcomes and open slots than the batch has jobs                    *)
(* (buildIncrementUpdate's clamp).                                         *)
THEOREM CountersStayWithinTotal == Spec => []CountersWithinTotal
<1>1. DoneInv => CountersWithinTotal
  BY DEF DoneInv, CountersWithinTotal, Total
<1> QED BY <1>1, DoneCorrect, PTL

(* What the terminal callbacks and late readers see of a finished batch is *)
(* final: no later step changes its counters or reopens it.                *)
THEOREM FinishedStaysFinal == Spec => FinishedIsFinal
<1>1. DoneInv /\ [Next]_vars =>
        [row.done => /\ row'.done
                     /\ <<row'.pending, row'.completed, row'.failed>>
                          = <<row.pending, row.completed, row.failed>>]_vars
  BY RowSteps, DoneStep
<1> QED BY <1>1, DoneCorrect, PTL DEF Spec, FinishedIsFinal

-----------------------------------------------------------------------------
(* The types of everything but the row, which DoneInv has. *)
RestType ==
    /\ pruned \in BOOLEAN
    /\ disp \in DispStates /\ left \in Nat
    /\ local \in [cancelled: BOOLEAN, failures: BOOLEAN, finished: BOOLEAN]
    /\ job \in [Jobs -> JobStates]
    /\ fin \in [Jobs -> BOOLEAN]
    /\ dispatched \in [Kinds -> BOOLEAN]
    /\ pushing \in [Kinds -> Nat] /\ marking \in [Kinds -> Nat]
    /\ callback \in [Kinds -> {"none", "queued", "done"}]
    /\ runs \in [Kinds -> Nat]
    /\ fires \in Nat /\ lost \in Nat /\ faults \in 0..MaxFaults

(* The number of slots a failing Dispatch has to release is a number. *)
LEMMA UnpushedCount == Cardinality(Unpushed) \in Nat
<1>1. IsFiniteSet(Unpushed)
  BY BatchAssumption, FS_Subset, Zenon DEF BatchAssumption, Unpushed
<1> QED BY <1>1, FS_CardinalityType

(* Every action keeps the types of what lies outside the batch row. *)
LEMMA RestTypeStep ==
    ASSUME DoneInv, RestType, [Next]_vars
    PROVE  RestType'
<1> USE BatchAssumption DEF BatchAssumption, RestType, repoVars, dispVars, callbackVars
<1>f. ASSUME Fault \/ UNCHANGED faults PROVE faults' \in 0..MaxFaults
  BY <1>f DEF Fault
<1>d. ASSUME NEW K, DispatchCallbacks(K) PROVE pushing' \in [Kinds -> Nat]
  BY <1>d DEF DispatchCallbacks
<1>t. ASSUME NEW b, FireTerminalCallbacks(b)
      PROVE /\ pushing' \in [Kinds -> Nat] /\ fires' \in Nat
            /\ UNCHANGED <<dispatched, marking, callback, runs>>
  BY <1>t, <1>d DEF FireTerminalCallbacks
<1>m. ASSUME NEW j \in Jobs, NEW from, NEW to \in JobStates, Move(j, from, to)
      PROVE job' \in [Jobs -> JobStates]
  BY <1>m DEF Move
<1>r. (row.failed > 0) \in BOOLEAN /\ row.cancelled \in BOOLEAN
  BY DEF DoneInv, RowType
<1>l. ASSUME CancelLocal \/ CancelLocalFails
      PROVE local' \in [cancelled: BOOLEAN, failures: BOOLEAN, finished: BOOLEAN]
  BY <1>l, Zenon DEF CancelLocal, CancelLocalFails
<1>1. CASE UNCHANGED vars
  BY <1>1 DEF vars
<1>2. ASSUME NEW j \in Jobs, Push(j) PROVE RestType'
  BY <1>2 DEF Push, DispStates, JobStates
<1>3. ASSUME NEW j \in Jobs, PushFails(j) PROVE RestType'
  BY <1>3, <1>f, UnpushedCount DEF PushFails, DispStates, JobStates
<1>4. CASE Drain
  <2>1. faults' \in 0..MaxFaults
    BY <1>4, <1>f DEF Drain
  <2>2. left' \in Nat /\ lost' \in Nat /\ disp' \in DispStates
    BY <1>4 DEF Drain, DispStates
  <2>3. local' \in [cancelled: BOOLEAN, failures: BOOLEAN, finished: BOOLEAN]
    BY <1>4, Zenon DEF Drain
  <2> QED BY <1>4, <2>1, <2>2, <2>3 DEF Drain
<1>5. CASE Refresh
  BY <1>5, <1>r, ZenonT(30) DEF Refresh, DispStates
<1>6. CASE CancelDispatched
  BY <1>6, <1>l DEF CancelDispatched, DispStates
<1>7. CASE FireDispatched
  BY <1>7, <1>t DEF FireDispatched, DispStates
<1>8. CASE DispatchCrashes
  BY <1>8, <1>f, UnpushedCount DEF DispatchCrashes, DispStates
<1>9. CASE Cancel
  BY <1>9, <1>l, <1>f DEF Cancel
<1>10. CASE PruneStale
  BY <1>10 DEF PruneStale
<1>11. ASSUME NEW j \in Jobs, PopJob(j) PROVE RestType'
  BY <1>11, <1>m, <1>f DEF PopJob, JobStates
<1>12. ASSUME NEW j \in Jobs, SettleJob(j) PROVE RestType'
  BY <1>12, <1>m DEF SettleJob, JobStates
<1>13. ASSUME NEW j \in Jobs, RecordOutcome(j) PROVE RestType'
  <2>1. ASSUME NEW c \in {0, 1}, NEW f \in {0, 1}, NEW next \in JobStates, Record(j, c, f, next)
        PROVE RestType'
    <3>1. JustFinished(c, f) \in BOOLEAN
      BY DEF JustFinished
    <3>2. fin' \in [Jobs -> BOOLEAN]
      BY <2>1, <3>1 DEF Record
    <3>3. job' \in [Jobs -> JobStates]
      BY <2>1 DEF Record, JobStates
    <3> QED BY <2>1, <3>2, <3>3 DEF Record
  <2>2. "firing" \in JobStates /\ "catching" \in JobStates
    BY DEF JobStates
  <2> QED BY <1>13, <2>1, <2>2 DEF RecordOutcome
<1>14. ASSUME NEW j \in Jobs, RecordLost(j) PROVE RestType'
  BY <1>14, <1>f DEF RecordLost, CallFails, JobStates
<1>15. ASSUME NEW j \in Jobs, DispatchCatch(j) PROVE RestType'
  BY <1>15, <1>m, <1>d DEF DispatchCatch, JobStates
<1>16. ASSUME NEW j \in Jobs, AutoCancel(j) PROVE RestType'
  BY <1>16, <1>m, <1>f DEF AutoCancel, CallFails, JobStates
<1>17. ASSUME NEW j \in Jobs, FireRecorded(j) PROVE RestType'
  BY <1>17, <1>m, <1>t DEF FireRecorded, JobStates
<1>18. ASSUME NEW j \in Jobs, Redeliver(j) PROVE RestType'
  BY <1>18, <1>m, <1>f DEF Redeliver, JobStates
<1>19. ASSUME NEW j \in Jobs, RecorderCrashes(j) PROVE RestType'
  BY <1>19, <1>f DEF RecorderCrashes, JobStates
<1>20. ASSUME NEW k \in Kinds, PushCallback(k) PROVE RestType'
  <2>1. pushing' \in [Kinds -> Nat]
    BY <1>20 DEF PushCallback, Bump
  <2>2. marking' \in [Kinds -> Nat]
    BY <1>20 DEF PushCallback, Bump
  <2>3. callback' \in [Kinds -> {"none", "queued", "done"}]
    BY <1>20 DEF PushCallback, Enqueued
  <2> QED BY <1>20, <1>f, <2>1, <2>2, <2>3 DEF PushCallback
<1>21. ASSUME NEW k \in Kinds, MarkCallbackDispatched(k) PROVE RestType'
  <2>1. marking' \in [Kinds -> Nat]
    BY <1>21 DEF MarkCallbackDispatched, Bump
  <2>2. dispatched' \in [Kinds -> BOOLEAN]
    BY <1>21, Zenon DEF MarkCallbackDispatched
  <2> QED BY <1>21, <1>f, <2>1, <2>2 DEF MarkCallbackDispatched
<1>22. ASSUME NEW k \in Kinds, ReaperTick(k) PROVE RestType'
  BY <1>22, <1>d DEF ReaperTick
<1>23. ASSUME NEW k \in Kinds, HandleCallback(k) PROVE RestType'
  <2>1. Ran(k) \in [Kinds -> Nat]
    BY DEF Ran, Bump
  <2> QED BY <1>23, <1>f, <2>1 DEF HandleCallback
<1> QED
  BY <1>1, <1>2, <1>3, <1>4, <1>5, <1>6, <1>7, <1>8, <1>9, <1>10, <1>11, <1>12, <1>13, <1>14, <1>15, ZenonT(30),
     <1>16, <1>17, <1>18, <1>19, <1>20, <1>21, <1>22, <1>23
  DEF Next, DispatchStep, JobStep

(* Every variable keeps its type; in particular pending_jobs never goes    *)
(* below zero, which is the clamp of buildIncrementUpdate.                 *)
THEOREM TypeCorrect == Spec => [](RestType /\ TypeOK)
<1>1. Init => RestType
  <2> SUFFICES ASSUME Init PROVE RestType
    OBVIOUS
  <2>1. fin \in [Jobs -> BOOLEAN] /\ dispatched \in [Kinds -> BOOLEAN]
    BY Zenon DEF Init
  <2>2. local \in [cancelled: BOOLEAN, failures: BOOLEAN, finished: BOOLEAN]
    BY DEF Init
  <2>3. /\ job \in [Jobs -> JobStates] /\ disp \in DispStates
        /\ callback \in [Kinds -> {"none", "queued", "done"}]
    BY DEF Init, JobStates, DispStates
  <2>4. /\ left \in Nat /\ fires \in Nat /\ lost \in Nat /\ faults \in 0..MaxFaults
        /\ pushing \in [Kinds -> Nat] /\ marking \in [Kinds -> Nat] /\ runs \in [Kinds -> Nat]
    BY BatchAssumption DEF BatchAssumption, Init
  <2> QED BY <2>1, <2>2, <2>3, <2>4, Zenon DEF Init, RestType
<1>2. DoneInv /\ RestType /\ [Next]_vars => RestType'
  BY RestTypeStep
<1>3. DoneInv /\ RestType => TypeOK
  BY DEF DoneInv, RowType, RestType, TypeOK
<1> QED BY <1>1, <1>2, <1>3, DoneCorrect, PTL DEF Spec

-----------------------------------------------------------------------------
(* Who was told that it finished the batch: a job's recorder (fin[j]) or   *)
(* Dispatch (local.finished).  There is at most one, only of a done batch, *)
(* and once the callbacks have fired it is past firing them.               *)
Recorded == {"catching", "cancelling", "firing", "recorded"}

OwnerInv ==
    /\ \A j \in Jobs : fin[j] => row.done /\ job[j] \in Recorded /\ ~local.finished
    /\ \A i, j \in Jobs : fin[i] /\ fin[j] => i = j
    /\ local.finished => row.done /\ disp # "pushing"
    /\ fires \in {0, 1}
    /\ fires = 1 => /\ row.done
                    /\ \A j \in Jobs : fin[j] => job[j] = "recorded"
                    /\ local.finished => disp \in {"done", "crashed"}

(* justFinished holds only for the caller that sets completed_at. *)
LEMMA FinishOnce ==
    ASSUME DoneInv, NEW c \in {0, 1}, NEW f \in {0, 1}, JustFinished(c, f)
    PROVE  ~row.done /\ ~pruned /\ Settled(c, f).done
<1>1. ~row.done /\ Settled(c, f).done
  BY DEF JustFinished
<1>2. CASE pruned
  BY <1>1, <1>2 DEF Settled
<1> QED BY <1>1, <1>2

(* Every action keeps a single caller entitled to fire the callbacks. *)
LEMMA OwnerStep ==
    ASSUME DoneInv, RestType, OwnerInv, [Next]_vars
    PROVE  OwnerInv'
<1> USE DEF repoVars, dispVars, callbackVars
<1>d. row.done => row'.done
  BY RowSteps, DoneStep
<1>y. /\ job \in [Jobs -> JobStates] /\ fin \in [Jobs -> BOOLEAN] /\ fires \in Nat
      /\ local \in [cancelled: BOOLEAN, failures: BOOLEAN, finished: BOOLEAN]
  BY DEF RestType
(* A step that keeps the owners and what they have done. *)
<1>k. ASSUME UNCHANGED <<fin, fires>>, local'.finished = local.finished,
             local.finished => disp' # "pushing" /\ (disp \in {"done", "crashed"} => disp' \in {"done", "crashed"}),
             \A j \in Jobs : job[j] \in Recorded => job'[j] \in Recorded /\ (job[j] = "recorded" => job'[j] = "recorded")
      PROVE OwnerInv'
  BY <1>k, <1>d DEF OwnerInv, Recorded
(* A job leaves a state in which it cannot be an owner, or moves on in one. *)
<1>m. ASSUME NEW j \in Jobs, NEW to, job' = [job EXCEPT ![j] = to],
             job[j] \in Recorded => to \in Recorded /\ job[j] # "recorded",
             UNCHANGED <<fin, fires, dispVars>>
      PROVE OwnerInv'
  <2>1. \A i \in Jobs : job[i] \in Recorded => job'[i] \in Recorded /\ (job[i] = "recorded" => job'[i] = "recorded")
    BY <1>m, <1>y DEF Recorded
  <2>2. local.finished => disp # "pushing"
    BY ZenonT(30) DEF OwnerInv
  <2> QED BY <1>m, <1>k, <2>1, <2>2
<1>1. CASE UNCHANGED vars
  BY <1>1, <1>k DEF vars, OwnerInv
<1>2. ASSUME NEW j \in Jobs, Push(j) \/ PushFails(j) PROVE OwnerInv'
  <2>1. \A i \in Jobs : job[i] \in Recorded => job'[i] = job[i]
    BY <1>2, <1>y DEF Push, PushFails, Recorded
  <2>2. ~local.finished
    BY <1>2 DEF Push, PushFails, OwnerInv
  <2>3. UNCHANGED <<fin, fires, local>>
    BY <1>2 DEF Push, PushFails
  <2> QED BY <1>k, <2>1, <2>2, <2>3
<1>4. CASE Drain
  <2>1. UNCHANGED <<fin, fires, job>> /\ disp = "draining" /\ disp' \in {"draining", "refreshing"}
    BY <1>4 DEF Drain
  <2>2. CASE UNCHANGED local
    BY <1>k, <2>1, <2>2 DEF OwnerInv
  <2>3. CASE /\ row' = Settled(0, 0)
             /\ local' = [local EXCEPT !.finished = @ \/ JustFinished(0, 0)]
    <3>1. local'.finished <=> (local.finished \/ JustFinished(0, 0))
      BY <2>3, <1>y, ZenonT(30)
    <3>2. CASE JustFinished(0, 0)
      <4>1. ~row.done /\ row'.done
        BY <3>2, <2>3, FinishOnce
      <4>2. local'.finished
        BY <3>1, <3>2, ZenonT(30)
      <4> QED BY <4>1, <4>2, <2>1 DEF OwnerInv
    <3>3. CASE ~JustFinished(0, 0)
      <4>1. local'.finished = local.finished
        BY <2>3, <3>3, <1>y
      <4> QED BY <4>1, <1>k, <2>1 DEF OwnerInv
    <3> QED BY <3>2, <3>3
  <2> QED BY <1>4, <2>2, <2>3 DEF Drain
<1>5. CASE Refresh
  <2>1. local'.finished = local.finished
    BY <1>5, <1>y, Zenon DEF Refresh
  <2> QED BY <2>1, <1>5, <1>k DEF Refresh, OwnerInv
<1>l. ASSUME CancelLocal \/ CancelLocalFails PROVE local'.finished = local.finished
  BY <1>l, <1>y, ZenonT(30) DEF CancelLocal, CancelLocalFails
<1>6. CASE CancelDispatched
  BY <1>6, <1>l, <1>k DEF CancelDispatched, OwnerInv
<1>7. CASE FireDispatched
  <2>1. disp = "firing" /\ disp' = "done" /\ UNCHANGED <<row, local, job, fin>>
    BY <1>7 DEF FireDispatched
  <2>2. CASE local.finished
    <3>1. fires' = fires + 1
      BY <1>7, <2>2 DEF FireDispatched, FireTerminalCallbacks
    <3>2. fires = 0
      BY <2>1, <2>2 DEF OwnerInv
    <3> QED BY <2>1, <2>2, <3>1, <3>2 DEF OwnerInv
  <2>3. CASE ~local.finished
    BY <1>7, <2>1, <2>3, <1>k DEF FireDispatched
  <2> QED BY <2>2, <2>3
<1>8. CASE DispatchCrashes
  BY <1>8, <1>k, ZenonT(30) DEF DispatchCrashes
<1>9. CASE Cancel
  <2>1. local'.finished = local.finished
    BY <1>9, <1>l, ZenonT(30) DEF Cancel
  <2> QED BY <1>9, <2>1, <1>k DEF Cancel, OwnerInv
<1>10. CASE PruneStale
  BY <1>10, <1>k, ZenonT(30) DEF PruneStale, OwnerInv
<1>11. ASSUME NEW j \in Jobs, PopJob(j) \/ SettleJob(j) \/ RecordLost(j) \/ Redeliver(j) PROVE OwnerInv'
  BY <1>11, <1>m DEF PopJob, SettleJob, RecordLost, Redeliver, Move, Recorded
<1>13. ASSUME NEW j \in Jobs, RecordOutcome(j) PROVE OwnerInv'
  <2>1. ASSUME NEW c \in {0, 1}, NEW f \in {0, 1}, NEW next \in Recorded, Record(j, c, f, next),
               job[j] \in {"succeeded", "failed", "skipped"}
        PROVE OwnerInv'
    <3>1. ~fin[j]
      BY <2>1 DEF OwnerInv, Recorded
    <3>2. /\ row' = Settled(c, f) /\ UNCHANGED <<disp, local, fires>>
          /\ fin' = [fin EXCEPT ![j] = JustFinished(c, f)]
      BY <2>1 DEF Record
    <3>3. \A i \in Jobs : i # j => job'[i] = job[i] /\ fin'[i] = fin[i]
      BY <2>1, <1>y DEF Record
    <3>4. job'[j] \in Recorded
      BY <2>1, <1>y, ZenonT(30) DEF Record, Recorded
    <3>5. CASE JustFinished(c, f)
      <4>1. ~row.done /\ row'.done
        BY <3>5, <3>2, FinishOnce, ZenonT(30)
      <4>2. \A i \in Jobs : fin'[i] => i = j
        BY <3>3, <4>1 DEF OwnerInv
      <4>3. fires = 0 /\ ~local.finished
        BY <4>1, ZenonT(30) DEF OwnerInv
      <4> QED BY <3>2, <3>4, <4>1, <4>2, <4>3 DEF OwnerInv
    <3>6. CASE ~JustFinished(c, f)
      <4>1. ~fin'[j]
        BY <3>2, <3>6, <1>y
      <4> QED BY <1>d, <3>1, <3>2, <3>3, <4>1 DEF OwnerInv
    <3> QED BY <3>5, <3>6
  <2>2. "firing" \in Recorded /\ "catching" \in Recorded
    BY ZenonT(30) DEF Recorded
  <2> QED BY <1>13, <2>1, <2>2 DEF RecordOutcome
<1>15. ASSUME NEW j \in Jobs, DispatchCatch(j) \/ AutoCancel(j) \/ RecorderCrashes(j) PROVE OwnerInv'
  BY <1>15, <1>m DEF DispatchCatch, AutoCancel, RecorderCrashes, Move, Recorded
<1>17. ASSUME NEW j \in Jobs, FireRecorded(j) PROVE OwnerInv'
  <2>1. /\ job[j] = "firing" /\ job' = [job EXCEPT ![j] = "recorded"]
        /\ UNCHANGED <<row, disp, left, local, fin>>
    BY <1>17, ZenonT(30) DEF FireRecorded, Move
  <2>2. CASE fin[j]
    <3>1. fires' = fires + 1
      BY <1>17, <2>2 DEF FireRecorded, FireTerminalCallbacks
    <3>2. fires = 0
      BY <2>1, <2>2 DEF OwnerInv
    <3>3. \A i \in Jobs : fin[i] => job'[i] = "recorded"
      BY <2>1, <2>2, <1>y DEF OwnerInv
    <3> QED BY <2>1, <2>2, <3>1, <3>2, <3>3 DEF OwnerInv, Recorded
  <2>3. CASE ~fin[j]
    BY <1>17, <2>1, <2>3, <1>m, ZenonT(30) DEF FireRecorded, Recorded
  <2> QED BY <2>2, <2>3
<1>20. ASSUME NEW k \in Kinds,
              PushCallback(k) \/ MarkCallbackDispatched(k) \/ ReaperTick(k) \/ HandleCallback(k)
       PROVE OwnerInv'
  BY <1>20, <1>k, Zenon DEF PushCallback, MarkCallbackDispatched, ReaperTick, HandleCallback, OwnerInv
<1> QED
  BY <1>1, <1>2, <1>4, <1>5, <1>6, <1>7, <1>8, <1>9, <1>10, <1>11, <1>13, <1>15, <1>17, <1>20, ZenonT(30)
  DEF Next, DispatchStep, JobStep

(* OwnerInv holds throughout. *)
THEOREM OneOwner == Spec => []OwnerInv
<1>1. Init => OwnerInv
  BY DEF Init, OwnerInv
<1> QED BY <1>1, OwnerStep, DoneCorrect, TypeCorrect, PTL DEF Spec

(* fireTerminalCallbacks is called at most once for a batch, whichever of  *)
(* its workers or its Dispatch finishes it, also when a push that reported *)
(* an error makes outcomes outnumber slots.                                *)
THEOREM TerminalFiresOnce == Spec => []TerminalOnce
<1>1. OwnerInv => TerminalOnce
  BY DEF OwnerInv, TerminalOnce
<1> QED BY <1>1, OneOwner, PTL

-----------------------------------------------------------------------------
(* Then is on its way only for a batch that is done without failures,      *)
(* unless the batch is pruned, and then it does not run.  Dispatch knows   *)
(* the failures by the time it fires, if its reads work.                   *)
ThenInv ==
    /\ runs["then"] > 0 => row.done /\ row.failed = 0
    /\ ~pruned /\ (pushing["then"] > 0 \/ callback["then"] # "none") => row.done /\ row.failed = 0
    /\ disp \in {"cancelling", "firing"} /\ local.finished /\ ~pruned /\ row.failed > 0 => local.failures

(* No action queues or runs Then for a batch that counts a failure. *)
LEMMA ThenStep ==
    ASSUME ~ReadsFail, DoneInv, RestType, OwnerInv, ThenInv, [Next]_vars
    PROVE  ThenInv'
<1> USE DEF repoVars, dispVars, callbackVars
<1>d. row.done => row'.done /\ row'.failed = row.failed
  BY RowSteps, DoneStep, ZenonT(30)
<1>o. /\ local.finished => row.done
      /\ \A j \in Jobs : fin[j] => row.done
  BY DEF OwnerInv
<1>y. /\ pushing \in [Kinds -> Nat] /\ runs \in [Kinds -> Nat] /\ "then" \in Kinds
      /\ callback \in [Kinds -> {"none", "queued", "done"}] /\ row.failed \in Nat
      /\ local \in [cancelled: BOOLEAN, failures: BOOLEAN, finished: BOOLEAN]
  BY DEF RestType, DoneInv, RowType, Kinds
(* Steps that add no Then and leave Dispatch where it is. *)
<1>k. ASSUME runs'["then"] = runs["then"], pushing'["then"] > 0 => pushing["then"] > 0,
             callback'["then"] # "none" => pushing["then"] > 0 \/ callback["then"] # "none",
             pruned => pruned', UNCHANGED <<disp, local>>
      PROVE ThenInv'
  BY <1>k, <1>d, <1>o DEF ThenInv
(* Steps of Dispatch that touch no callback. *)
<1>p. ASSUME UNCHANGED callbackVars, UNCHANGED pruned, disp' \notin {"cancelling", "firing"}
      PROVE ThenInv'
  BY <1>p, <1>d DEF ThenInv
<1>t. ASSUME NEW b \in BOOLEAN, FireTerminalCallbacks(b)
      PROVE /\ UNCHANGED <<callback, runs>>
            /\ b => pushing'["then"] = pushing["then"]
  BY <1>t, <1>y DEF FireTerminalCallbacks, TerminalKinds, DispatchCallbacks
<1>c. ASSUME NEW K, DispatchCallbacks(K), "then" \notin K PROVE pushing'["then"] = pushing["then"]
  BY <1>c, <1>y DEF DispatchCallbacks
<1>1. CASE UNCHANGED vars
  BY <1>1, <1>k DEF vars
<1>2. ASSUME NEW j \in Jobs, Push(j) \/ PushFails(j) PROVE ThenInv'
  BY <1>2, <1>p DEF Push, PushFails
<1>4. CASE Drain
  <2>1. UNCHANGED callbackVars /\ UNCHANGED pruned /\ disp' \notin {"cancelling", "firing"}
    BY <1>4 DEF Drain
  <2> QED BY <2>1, <1>p
<1>5. CASE Refresh
  <2>1. UNCHANGED <<row, pruned, runs, pushing, callback>>
    BY <1>5 DEF Refresh
  <2>2. ~pruned /\ row.failed > 0 => local'.failures
    BY <1>5, <1>y, ZenonT(30) DEF Refresh
  <2> QED BY <2>1, <2>2 DEF ThenInv
<1>6. CASE CancelDispatched
  <2>1. disp = "cancelling" /\ UNCHANGED <<pruned, runs, pushing, callback>>
    BY <1>6 DEF CancelDispatched
  <2>2. local'.finished = local.finished /\ (local.failures => local'.failures)
    BY <1>6, <1>y, Zenon DEF CancelDispatched, CancelLocal
  <2> QED BY <2>1, <2>2, <1>d, <1>o DEF ThenInv
<1>7. CASE FireDispatched
  <2>1. disp = "firing" /\ disp' = "done" /\ UNCHANGED <<row, pruned, local>>
    BY <1>7 DEF FireDispatched
  <2>2. CASE ~local.finished
    BY <1>7, <2>1, <2>2, <1>p, ZenonT(30) DEF FireDispatched
  <2>3. CASE local.finished
    <3>1. FireTerminalCallbacks(local.failures) /\ local.failures \in BOOLEAN
      BY <1>7, <2>3, <1>y DEF FireDispatched
    <3>2. UNCHANGED <<callback, runs>> /\ (local.failures => pushing'["then"] = pushing["then"])
      BY <3>1, <1>t
    <3>3. ~pruned /\ ~local.failures => row.done /\ row.failed = 0
      BY <2>1, <2>3, <1>o, <1>y DEF ThenInv
    <3> QED BY <2>1, <3>2, <3>3 DEF ThenInv
  <2> QED BY <2>2, <2>3
<1>8. CASE DispatchCrashes
  BY <1>8, <1>p, ZenonT(30) DEF DispatchCrashes
<1>9. CASE Cancel
  <2>1. UNCHANGED <<disp, pruned, callbackVars>>
    BY <1>9 DEF Cancel
  <2>2. local'.finished = local.finished /\ (local.failures => local'.failures)
    BY <1>9, <1>y, Zenon DEF Cancel, CancelLocal, CancelLocalFails
  <2> QED BY <2>1, <2>2, <1>d, <1>o DEF ThenInv
<1>10. CASE PruneStale
  BY <1>10, <1>k, ZenonT(30) DEF PruneStale
<1>11. ASSUME NEW j \in Jobs,
              PopJob(j) \/ SettleJob(j) \/ RecordLost(j) \/ Redeliver(j) \/ AutoCancel(j) \/ RecorderCrashes(j)
       PROVE ThenInv'
  BY <1>11, <1>k, SMTT(30) DEF PopJob, SettleJob, RecordLost, Redeliver, AutoCancel, RecorderCrashes
<1>13. ASSUME NEW j \in Jobs, RecordOutcome(j) PROVE ThenInv'
  BY <1>13, <1>k DEF RecordOutcome, Record
<1>15. ASSUME NEW j \in Jobs, DispatchCatch(j) PROVE ThenInv'
  <2>1. pushing'["then"] = pushing["then"]
    BY <1>15, <1>c DEF DispatchCatch
  <2> QED BY <1>15, <2>1, <1>k DEF DispatchCatch
<1>17. ASSUME NEW j \in Jobs, FireRecorded(j) PROVE ThenInv'
  <2>1. UNCHANGED <<row, pruned, disp, local>>
    BY <1>17, ZenonT(30) DEF FireRecorded
  <2>2. CASE ~fin[j]
    BY <1>17, <2>1, <2>2, <1>k, SMTT(30) DEF FireRecorded
  <2>3. CASE fin[j]
    <3>1. UNCHANGED <<callback, runs>> /\ (row.failed > 0 => pushing'["then"] = pushing["then"])
      BY <1>17, <2>3, <1>y DEF FireRecorded, FireTerminalCallbacks, TerminalKinds, DispatchCallbacks
    <3>2. row.done
      BY <2>3, <1>o, ZenonT(30)
    <3> QED BY <2>1, <3>1, <3>2, <1>y DEF ThenInv
  <2> QED BY <2>2, <2>3
<1>20. ASSUME NEW k \in Kinds, PushCallback(k) PROVE ThenInv'
  <2>1. pushing'["then"] > 0 => pushing["then"] > 0
    BY <1>20, <1>y, ZenonT(30) DEF PushCallback, Bump
  <2>2. callback'["then"] # "none" => pushing["then"] > 0 \/ callback["then"] # "none"
    BY <1>20, <1>y, ZenonT(30) DEF PushCallback, Enqueued
  <2> QED BY <1>20, <2>1, <2>2, <1>k DEF PushCallback
<1>21. ASSUME NEW k \in Kinds, MarkCallbackDispatched(k) PROVE ThenInv'
  BY <1>21, <1>k DEF MarkCallbackDispatched
<1>22. ASSUME NEW k \in Kinds, ReaperTick(k) PROVE ThenInv'
  <2>1. CASE k = "then"
    <3>1. row.done /\ row.failed = 0
      BY <1>22, <2>1, ZenonT(30) DEF ReaperTick, Undispatched
    <3> QED BY <1>22, <3>1 DEF ReaperTick, ThenInv
  <2>2. CASE k # "then"
    <3>1. pushing'["then"] = pushing["then"]
      BY <1>22, <2>2, <1>c, ZenonT(30) DEF ReaperTick
    <3> QED BY <1>22, <3>1, <1>k DEF ReaperTick
  <2> QED BY <2>1, <2>2
<1>23. ASSUME NEW k \in Kinds, HandleCallback(k) PROVE ThenInv'
  <2>1. /\ UNCHANGED <<row, pruned, disp, local, pushing>>
        /\ callback'["then"] # "none" => callback["then"] # "none"
    BY <1>23, <1>y, ZenonT(30) DEF HandleCallback
  <2>2. runs'["then"] > 0 => runs["then"] > 0 \/ (~pruned /\ callback["then"] = "queued")
    BY <1>23, <1>y DEF HandleCallback, Ran, Bump
  <2> QED BY <2>1, <2>2 DEF ThenInv
<1> QED
  BY <1>1, <1>2, <1>4, <1>5, <1>6, <1>7, <1>8, <1>9, <1>10, <1>11, <1>13, <1>15, <1>17, <1>20, <1>21, <1>22, <1>23, ZenonT(30)
  DEF Next, DispatchStep, JobStep

(* As long as the settlement of a failed Dispatch can read the batch, the  *)
(* Then handler never runs for a batch with a failed job, whichever of     *)
(* worker, Dispatch and reaper queued it.                                  *)
THEOREM ThenOnlyWithoutFailure == ~ReadsFail /\ Spec => []ThenNotAfterFailure
<1> SUFFICES ASSUME ~ReadsFail PROVE Spec => []ThenNotAfterFailure
  OBVIOUS
<1>1. Init => ThenInv
  BY DEF Init, ThenInv, Kinds
<1>2. DoneInv /\ RestType /\ OwnerInv /\ ThenInv /\ [Next]_vars => ThenInv'
  BY ThenStep
<1>3. ThenInv => ThenNotAfterFailure
  BY DEF ThenInv, ThenNotAfterFailure
<1> QED BY <1>1, <1>2, <1>3, DoneCorrect, TypeCorrect, OneOwner, PTL DEF Spec
=============================================================================
