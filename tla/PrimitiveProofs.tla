-------------------------- MODULE PrimitiveProofs ---------------------------
(***************************************************************************)
(* Four primitives the services share, each for any number of users: the   *)
(* drain protocol closes its idle channel once, reports a drained run and  *)
(* implements RunLifecycle; one instance at a time holds a file cache lock; *)
(* a keyed timer delivers the event it was armed for, once; the batching   *)
(* dispatcher hands over events in the order it was given them.  They have *)
(* no state in common, and each part is about its own specification.       *)
(***************************************************************************)
EXTENDS Drain, FileLock, KeyedTimers, EventBatching, SequenceTheorems, TLAPS

-----------------------------------------------------------------------------
(* The drain protocol *)

(* One operation on one stop, apart from Close. *)
Waits(s) == EnterStop(s) \/ AwaitResult(s) \/ CtxEnds(s) \/ GiveUpWaiting(s)

(* Every action keeps the state well formed. *)
LEMMA DrainTypeStep == DrainTypeOK /\ [DrainNext]_drainVars => DrainTypeOK'
<1> SUFFICES ASSUME DrainTypeOK, [DrainNext]_drainVars PROVE DrainTypeOK'
  OBVIOUS
<1> USE DEF DrainTypeOK, StopStates, Returned
<1>1. CASE NewRun
  BY <1>1, Zenon DEF NewRun
<1>2. ASSUME NEW u \in Units, Admit(u) \/ \E v \in Units : Join(v, u) PROVE DrainTypeOK'
  BY <1>2, Zenon DEF Admit, Join
<1>3. ASSUME NEW u \in Units, Release(u) PROVE DrainTypeOK'
  BY <1>3, Zenon DEF Release
<1>4. ASSUME NEW x \in closers, CloseIdle(x) PROVE DrainTypeOK'
  BY <1>4 DEF CloseIdle
<1>5. ASSUME NEW s \in Stops, NEW x \in Units \cup {Outside, InDrain}, CallStop(s, x)
      PROVE DrainTypeOK'
  BY <1>5, Zenon DEF CallStop
<1>6. ASSUME NEW s \in Stops, Close(s) PROVE DrainTypeOK'
  BY <1>6, Zenon DEF Close
<1>7. ASSUME NEW s \in Stops, EnterStop(s) \/ AwaitResult(s) \/ CtxEnds(s) PROVE DrainTypeOK'
  BY <1>7, Zenon DEF EnterStop, AwaitResult, CtxEnds
<1>8. ASSUME NEW s \in Stops, GiveUpWaiting(s) PROVE DrainTypeOK'
  <2>1. forced' \in BOOLEAN
    BY <1>8, Zenon DEF GiveUpWaiting
  <2> QED
    BY <1>8, <2>1, Zenon DEF GiveUpWaiting
<1>9. CASE StartDrain \/ Finish \/ WorkPanics
  BY <1>9, Zenon DEF StartDrain, Finish, WorkPanics
<1>10. CASE UNCHANGED drainVars
  BY <1>10, Zenon DEF drainVars
<1> QED
  BY <1>1, <1>2, <1>3, <1>4, <1>5, <1>6, <1>7, <1>8, <1>9, <1>10, Zenon DEF DrainNext

(* The steps of the waiting stops leave the run alone. *)
LEMMA WaitsLeaveRun ==
    ASSUME NEW s \in Stops, Waits(s)
    PROVE  UNCHANGED <<begun, closed, counted, spentUnits, closers, idle, work, finished, panicked>>
BY Zenon DEF Waits, EnterStop, AwaitResult, CtxEnds, GiveUpWaiting

(* Release and Close pick one closer between them, and it closes once. *)
LEMMA IdleStep ==
    DrainTypeOK /\ IdleClosedOnce /\ [DrainNext]_drainVars => IdleClosedOnce'
<1> SUFFICES ASSUME DrainTypeOK, IdleClosedOnce, [DrainNext]_drainVars PROVE IdleClosedOnce'
  OBVIOUS
<1> USE DEF IdleClosedOnce
<1>1. CASE NewRun
  BY <1>1, Zenon DEF NewRun
<1>2. ASSUME NEW u \in Units, Admit(u) PROVE IdleClosedOnce'
  BY <1>2, Zenon DEF Admit
<1>3. ASSUME NEW u \in Units, NEW v \in Units, Join(v, u) PROVE IdleClosedOnce'
  <2>1. counted # {} /\ counted' # {}
    BY <1>3, Zenon DEF Join
  <2> QED
    BY <1>3, <2>1, Zenon DEF Join
<1>4. ASSUME NEW u \in Units, Release(u) PROVE IdleClosedOnce'
  <2>1. counted # {} /\ idle = 0 /\ closers = {}
    BY <1>4, Zenon DEF Release
  <2>2. CASE closed /\ counted' = {}
    <3>1. closers' = {u} /\ idle' = 0 /\ closed'
      BY <1>4, <2>1, <2>2, Zenon DEF Release
    <3> QED
      BY <3>1, <2>2, Zenon
  <2>3. CASE ~(closed /\ counted' = {})
    BY <1>4, <2>1, <2>3, Zenon DEF Release
  <2> QED
    BY <2>2, <2>3, Zenon
<1>5. ASSUME NEW x \in closers, CloseIdle(x) PROVE IdleClosedOnce'
  <2>1. closed /\ counted = {} /\ idle = 0
    BY <1>5, Zenon
  <2>2. PICK y \in Units \cup Stops : closers = {y}
    BY <1>5, <2>1, Zenon
  <2>3. closers' = {} /\ idle' = 1
    BY <1>5, <2>1, <2>2 DEF CloseIdle
  <2> QED
    BY <1>5, <2>1, <2>3, Zenon DEF CloseIdle
<1>6. ASSUME NEW s \in Stops, Close(s) PROVE IdleClosedOnce'
  <2>1. CASE closed
    BY <1>6, <2>1, Zenon DEF Close, DrainTypeOK
  <2>2. CASE ~closed /\ counted = {}
    <3>1. closers' = {s} /\ idle' = 0
      BY <1>6, <2>2, Zenon DEF Close
    <3> QED
      BY <1>6, <2>2, <3>1, Zenon DEF Close
  <2>3. CASE ~closed /\ counted # {}
    BY <1>6, <2>3, Zenon DEF Close
  <2> QED
    BY <2>1, <2>2, <2>3, Zenon
<1>7. ASSUME NEW s \in Stops, Waits(s) PROVE IdleClosedOnce'
  BY <1>7, WaitsLeaveRun
<1>8. ASSUME NEW s \in Stops, NEW x \in Units \cup {Outside, InDrain}, CallStop(s, x)
      PROVE IdleClosedOnce'
  BY <1>8, Zenon DEF CallStop
<1>9. CASE StartDrain \/ Finish \/ WorkPanics
  BY <1>9 DEF StartDrain, Finish, WorkPanics
<1>10. CASE UNCHANGED drainVars
  BY <1>10, Zenon DEF drainVars
<1> QED
  BY <1>1, <1>2, <1>3, <1>4, <1>5, <1>6, <1>7, <1>8, <1>9, <1>10, Zenon DEF DrainNext, Waits

(* The order of a run: units and stops come after NewRun, the drain after  *)
(* the close, the result after the idle channel or by a panic.             *)
Ordered ==
    /\ (counted # {} \/ closed) => begun
    /\ \A s \in Stops : stopAt[s] # "uncalled" => begun
    /\ work # "none" => closed
    /\ finished => work = "done" /\ (panicked \/ idle = 1)
    /\ panicked => finished

LEMMA OrderedStep ==
    DrainTypeOK /\ IdleClosedOnce /\ Ordered /\ [DrainNext]_drainVars => Ordered'
<1> SUFFICES ASSUME DrainTypeOK, IdleClosedOnce, Ordered, [DrainNext]_drainVars PROVE Ordered'
  OBVIOUS
<1> USE DEF Ordered, DrainTypeOK
<1>1. CASE NewRun
  BY <1>1, Zenon DEF NewRun
<1>2. ASSUME NEW u \in Units, Admit(u) \/ \E v \in Units : Join(v, u) PROVE Ordered'
  BY <1>2 DEF Admit, Join
<1>3. ASSUME NEW u \in Units, Release(u) PROVE Ordered'
  BY <1>3, Zenon DEF Release
<1>4. ASSUME NEW x \in closers, CloseIdle(x) PROVE Ordered'
  <2>1. finished => panicked
    BY <1>4 DEF IdleClosedOnce
  <2> QED
    BY <1>4, <2>1, Zenon DEF CloseIdle
<1>5. ASSUME NEW s \in Stops, NEW x \in Units \cup {Outside, InDrain}, CallStop(s, x)
      PROVE Ordered'
  BY <1>5, Zenon DEF CallStop
<1>6. ASSUME NEW s \in Stops, Close(s) PROVE Ordered'
  <2>1. finished => closed
    BY DEF IdleClosedOnce
  <2> QED
    BY <1>6, <2>1, Zenon DEF Close
<1>7. ASSUME NEW s \in Stops, EnterStop(s) \/ AwaitResult(s) \/ CtxEnds(s) \/ GiveUpWaiting(s)
      PROVE Ordered'
  BY <1>7 DEF EnterStop, AwaitResult, CtxEnds, GiveUpWaiting
<1>8. CASE StartDrain
  BY <1>8, Zenon DEF StartDrain
<1>9. CASE Finish
  <2>1. idle = 1
    BY <1>9 DEF Finish, IdleClosedOnce
  <2> QED
    BY <1>9, <2>1, Zenon DEF Finish
<1>10. CASE WorkPanics
  BY <1>10, Zenon DEF WorkPanics
<1>11. CASE UNCHANGED drainVars
  BY <1>11, Zenon DEF drainVars
<1> QED
  BY <1>1, <1>2, <1>3, <1>4, <1>5, <1>6, <1>7, <1>8, <1>9, <1>10, <1>11, Zenon DEF DrainNext

(* What holds of every reachable state. *)
DrainInv == DrainTypeOK /\ IdleClosedOnce /\ Ordered

LEMMA DrainInvariant == DrainSpec => []DrainInv
<1>1. DrainInit => DrainInv
  <2> SUFFICES ASSUME DrainInit PROVE DrainInv
    OBVIOUS
  <2>1. DrainTypeOK
    BY Zenon DEF DrainInit, DrainTypeOK, StopStates
  <2>2. IdleClosedOnce
    BY Zenon DEF DrainInit, IdleClosedOnce
  <2>3. Ordered
    BY Zenon DEF DrainInit, Ordered
  <2> QED
    BY <2>1, <2>2, <2>3, Zenon DEF DrainInv
<1>2. DrainInv /\ [DrainNext]_drainVars => DrainInv'
  BY DrainTypeStep, IdleStep, OrderedStep, Zenon DEF DrainInv
<1> QED
  BY <1>1, <1>2, PTL DEF DrainSpec

(* For any number of units and stops, the idle channel is closed once at   *)
(* most, and only with admission closed and no unit counted: Release and   *)
(* Close never both close it (drain.Run).                                  *)
THEOREM IdleOnce == DrainSpec => []IdleClosedOnce
<1>1. DrainInv => IdleClosedOnce
  BY Zenon DEF DrainInv
<1> QED
  BY <1>1, DrainInvariant, PTL

(* A finished run has no unit, and keeps none, unless its drain panicked. *)
LEMMA FinishedIsEmpty == DrainInv /\ finished => closed /\ (panicked \/ counted = {})
BY DEF DrainInv, Ordered, IdleClosedOnce

LEMMA ResultStep ==
    DrainInv /\ DrainInv' /\ ResultMeansDrained /\ [DrainNext]_drainVars => ResultMeansDrained'
<1> SUFFICES ASSUME DrainInv, DrainInv', ResultMeansDrained, [DrainNext]_drainVars
             PROVE ResultMeansDrained'
  OBVIOUS
<1>a. finished' => panicked' \/ counted' = {}
  BY FinishedIsEmpty DEF DrainInv, Ordered, IdleClosedOnce
<1> USE DEF ResultMeansDrained, DrainInv, DrainTypeOK
<1>1. CASE NewRun
  BY <1>1, Zenon DEF NewRun
<1>2. ASSUME NEW u \in Units, Admit(u) \/ \E v \in Units : Join(v, u) PROVE ResultMeansDrained'
  BY <1>2, <1>a, Zenon DEF Admit, Join
<1>3. ASSUME NEW u \in Units, Release(u) PROVE ResultMeansDrained'
  BY <1>3, <1>a, Zenon DEF Release
<1>4. ASSUME NEW x \in closers, CloseIdle(x) PROVE ResultMeansDrained'
  BY <1>4, Zenon DEF CloseIdle
<1>5. ASSUME NEW s \in Stops, NEW x \in Units \cup {Outside, InDrain}, CallStop(s, x)
      PROVE ResultMeansDrained'
  BY <1>5, Zenon DEF CallStop
<1>6. ASSUME NEW s \in Stops, Close(s) PROVE ResultMeansDrained'
  BY <1>6, Zenon DEF Close
<1>7. ASSUME NEW s \in Stops, EnterStop(s) PROVE ResultMeansDrained'
  BY <1>7, <1>a, Zenon DEF EnterStop
<1>8. ASSUME NEW s \in Stops, AwaitResult(s) \/ CtxEnds(s) PROVE ResultMeansDrained'
  BY <1>8, <1>a, Zenon DEF AwaitResult, CtxEnds
<1>9. ASSUME NEW s \in Stops, GiveUpWaiting(s) PROVE ResultMeansDrained'
  <2>1. UNCHANGED <<finished, panicked, counted>>
    BY <1>9, Zenon DEF GiveUpWaiting
  <2>2. ASSUME NEW t \in Stops, stopAt'[t] = "result" PROVE finished' /\ (panicked' \/ counted' = {})
    BY <1>9, <1>a, <2>1, <2>2 DEF GiveUpWaiting
  <2>3. ASSUME forced' PROVE \E t \in Stops : stopAt'[t] = "ctxErr"
    <3>1. CASE finished
      <4>1. PICK t \in Stops : stopAt[t] = "ctxErr"
        BY <1>9, <2>3, <3>1, Zenon DEF GiveUpWaiting
      <4> QED
        BY <1>9, <4>1, Zenon DEF GiveUpWaiting
    <3>2. CASE ~finished
      BY <1>9, <3>2, Zenon DEF GiveUpWaiting
    <3> QED
      BY <3>1, <3>2, Zenon
  <2> QED
    BY <2>2, <2>3, Zenon
<1>10. CASE StartDrain \/ Finish \/ WorkPanics
  BY <1>10, <1>a, Zenon DEF StartDrain, Finish, WorkPanics
<1>11. CASE UNCHANGED drainVars
  BY <1>11, Zenon DEF drainVars
<1> QED
  BY <1>1, <1>2, <1>3, <1>4, <1>5, <1>6, <1>7, <1>8, <1>9, <1>10, <1>11, Zenon DEF DrainNext

(* "a nil return means they all finished": for any number of units and     *)
(* stops, a stop that returned the run's result left no unit behind unless *)
(* the drain panicked, and a run is forced only by a stop that gave up     *)
(* (Await).                                                                *)
THEOREM ResultIsDrained == DrainSpec => []ResultMeansDrained
<1>1. DrainInit => ResultMeansDrained
  BY Zenon DEF DrainInit, ResultMeansDrained
<1> QED
  BY <1>1, ResultStep, DrainInvariant, PTL DEF DrainSpec

(* Each step of the protocol is a step of the run it implements, or none. *)
LEMMA LifecycleStep ==
    DrainInv /\ [DrainNext]_drainVars
      => [Lifecycle!LifecycleNext]_<<RunPhase, counted>>
<1> SUFFICES ASSUME DrainInv, [DrainNext]_drainVars
             PROVE Lifecycle!LifecycleNext \/ UNCHANGED <<RunPhase, counted>>
  OBVIOUS
<1> USE DEF RunPhase
<1>1. CASE NewRun
  <2>1. counted = {} /\ ~closed /\ RunPhase = "none"
    BY <1>1, Zenon DEF NewRun, DrainInv, Ordered
  <2>2. ~finished
    BY <2>1 DEF DrainInv, Ordered, IdleClosedOnce
  <2>3. RunPhase' = "running"
    BY <1>1, <2>1, <2>2, Zenon DEF NewRun
  <2> QED
    BY <2>1, <2>3, Zenon DEF Lifecycle!LifecycleNext, Lifecycle!Begin
<1>2. ASSUME NEW u \in Units, Admit(u) PROVE Lifecycle!LifecycleNext
  <2>1. RunPhase = "running" /\ RunPhase' = RunPhase
    BY <1>2, FinishedIsEmpty, Zenon DEF Admit
  <2>2. u \notin counted /\ counted' = counted \cup {u}
    BY <1>2, Zenon DEF Admit
  <2> QED
    BY <2>1, <2>2, Zenon DEF Lifecycle!LifecycleNext, Lifecycle!AdmitUnit
<1>3. ASSUME NEW u \in Units, NEW v \in Units, Join(v, u) PROVE Lifecycle!LifecycleNext
  <2>1. counted # {} /\ u \notin counted /\ counted' = counted \cup {u}
    BY <1>3, Zenon DEF Join
  <2>2. RunPhase \in {"running", "draining"} /\ RunPhase' = RunPhase
    BY <1>3, <2>1, FinishedIsEmpty, Zenon DEF Join, DrainInv, Ordered
  <2> QED
    BY <2>1, <2>2, Zenon DEF Lifecycle!LifecycleNext, Lifecycle!JoinUnit
<1>4. ASSUME NEW u \in Units, Release(u) PROVE Lifecycle!LifecycleNext
  <2>1. u \in counted /\ counted' = counted \ {u}
    BY <1>4, Zenon DEF Release
  <2>2. RunPhase \in {"running", "draining"} /\ RunPhase' = RunPhase
    BY <1>4, <2>1, FinishedIsEmpty, Zenon DEF Release, DrainInv, Ordered
  <2> QED
    BY <2>1, <2>2, Zenon DEF Lifecycle!LifecycleNext, Lifecycle!ReleaseUnit
<1>5. ASSUME NEW x \in closers, CloseIdle(x) PROVE UNCHANGED <<RunPhase, counted>>
  BY <1>5, Zenon DEF CloseIdle
<1>6. ASSUME NEW s \in Stops, NEW x \in Units \cup {Outside, InDrain}, CallStop(s, x)
      PROVE UNCHANGED <<RunPhase, counted>>
  BY <1>6, Zenon DEF CallStop
<1>7. ASSUME NEW s \in Stops, Waits(s) PROVE UNCHANGED <<RunPhase, counted>>
  BY <1>7, WaitsLeaveRun
<1>8. ASSUME NEW s \in Stops, Close(s)
      PROVE Lifecycle!LifecycleNext \/ UNCHANGED <<RunPhase, counted>>
  <2>1. CASE closed
    BY <1>8, <2>1, Zenon DEF Close
  <2>2. CASE ~closed
    <3>1. begun /\ ~finished
      BY <1>8, <2>2, FinishedIsEmpty, Zenon DEF Close, DrainInv, Ordered
    <3>2. RunPhase = "running" /\ RunPhase' = "draining" /\ counted' = counted
      BY <1>8, <2>2, <3>1, Zenon DEF Close
    <3> QED
      BY <3>2, Zenon DEF Lifecycle!LifecycleNext, Lifecycle!CloseAdmission
  <2> QED
    BY <2>1, <2>2, Zenon DEF DrainInv, DrainTypeOK
<1>9. CASE StartDrain
  BY <1>9, Zenon DEF StartDrain
<1>10. CASE Finish
  <2>1. closed /\ counted = {} /\ ~finished /\ ~panicked /\ begun
    BY <1>10 DEF Finish, DrainInv, Ordered, IdleClosedOnce, DrainTypeOK
  <2>2. RunPhase = "draining" /\ RunPhase' = "finished" /\ counted' = counted
    BY <1>10, <2>1, Zenon DEF Finish
  <2> QED
    BY <2>1, <2>2, Zenon DEF Lifecycle!LifecycleNext, Lifecycle!FinishRun
<1>11. CASE WorkPanics
  <2>1. RunPhase = "draining" /\ RunPhase' = "draining" /\ counted' = counted
    BY <1>11, Zenon DEF WorkPanics, DrainInv, Ordered
  <2> QED
    BY <2>1, Zenon
<1>12. CASE UNCHANGED drainVars
  BY <1>12, Zenon DEF drainVars
<1> QED
  BY <1>1, <1>2, <1>3, <1>4, <1>5, <1>6, <1>7, <1>8, <1>9, <1>10, <1>11, <1>12, Zenon DEF DrainNext, Waits

(* The atomic word, the channels and the drain's goroutine implement the   *)
(* run of RunLifecycle for any number of units and stops: no unit is       *)
(* admitted after the close, and the run finishes only when all were       *)
(* released (drain.Run).                                                   *)
THEOREM DrainImplementsRun == DrainSpec => KeepsLifecycle
<1>1. DrainInit => Lifecycle!LifecycleInit
  BY Zenon DEF DrainInit, Lifecycle!LifecycleInit, RunPhase
<1> QED
  BY <1>1, LifecycleStep, DrainInvariant, PTL
     DEF DrainSpec, KeepsLifecycle, Lifecycle!LifecycleSpec

-----------------------------------------------------------------------------
(* The file cache's locks *)

(* What the actions rest on, besides their own guards. *)
InGuard(l) == lockAt[l] \in {"get", "truncate", "write", "release", "force"}

(* Every action keeps the state well formed. *)
LEMMA LockTypeStep == LockTypeOK /\ [LockNext]_lockVars => LockTypeOK'
<1> SUFFICES ASSUME LockTypeOK, [LockNext]_lockVars PROVE LockTypeOK'
  OBVIOUS
<1> USE FileLockAssumption DEF LockTypeOK
<1>1. ASSUME NEW l \in Lockers, LockStep(l) PROVE LockTypeOK'
  <2>1. CASE TakeGuard(l)
    BY <2>1 DEF TakeGuard, Step
  <2>2. CASE CheckRecord(l)
    BY <2>2, Zenon DEF CheckRecord, LeaveGuard, Step
  <2>3. CASE Truncate(l)
    BY <2>3, Zenon DEF Truncate, Step, Torn, NoRecord
  <2>4. CASE WriteRecord(l)
    <3>1. record' = record \/ record' = HeldBy(l)
      BY <2>4, Zenon DEF WriteRecord
    <3>2. record' \in [is: {"none", "torn", "held"}, owner: Lockers \cup {Nobody}, past: BOOLEAN]
      <4>1. CASE record' = record
        BY <4>1, Zenon
      <4>2. CASE record' = HeldBy(l)
        BY <4>2, Zenon DEF HeldBy
      <4> QED
        BY <3>1, <4>1, <4>2, Zenon
    <3>3. holds' \in [Lockers -> BOOLEAN] /\ cleared' \subseteq Lockers
      BY <2>4, Zenon DEF WriteRecord
    <3> QED
      BY <2>4, <3>2, <3>3, Zenon DEF WriteRecord, LeaveGuard, Step
  <2>5. CASE ReleaseLock(l)
    BY <2>5, Zenon DEF ReleaseLock, LeaveGuard, Step, NoRecord
  <2>6. CASE ForceRelease(l)
    <3>1. holds' \in [Lockers -> BOOLEAN]
      BY <2>6, Zenon DEF ForceRelease
    <3> QED
      BY <3>1, <2>6, Zenon DEF ForceRelease, LeaveGuard, Step, NoRecord
  <2> QED
    BY <1>1, <2>1, <2>2, <2>3, <2>4, <2>5, <2>6, Zenon DEF LockStep
<1>2. ASSUME NEW l \in Lockers, CrashLocker(l) PROVE LockTypeOK'
  BY <1>2, Zenon DEF CrashLocker, Step
<1>3. ASSUME NEW l \in Lockers, NEW w \in {"get", "release", "force"}, CallLock(l, w)
      PROVE LockTypeOK'
  BY <1>3, Zenon DEF CallLock, Step
<1>4. CASE Walk \/ LookAgain
  BY <1>4, Zenon DEF Walk, LookAgain
<1>5. CASE RemoveRecord
  BY <1>5, Zenon DEF RemoveRecord, NoRecord
<1>6. CASE LockTimePasses
  <2>1. CASE /\ record' = [record EXCEPT !.past = TRUE]
             /\ holds' = [l \in Lockers |-> holds[l] /\ record.owner # l]
             /\ UNCHANGED <<guard, lockAt, wants, cleared, cleaner>>
    <3>1. holds' \in [Lockers -> BOOLEAN]
      BY <2>1, Zenon
    <3> QED
      BY <3>1, <2>1, Zenon
  <2>2. CASE /\ \E l \in cleared :
                  /\ holds[l] /\ holds' = [holds EXCEPT ![l] = FALSE]
                  /\ cleared' = cleared \ {l}
             /\ UNCHANGED <<record, guard, lockAt, wants, cleaner>>
    BY <2>2, ZenonT(30)
  <2> QED
    BY <1>6, <2>1, <2>2, Zenon DEF LockTimePasses
<1>7. CASE UNCHANGED lockVars
  BY <1>7, Zenon DEF lockVars
<1> QED
  BY <1>1, <1>2, <1>3, <1>4, <1>5, <1>6, <1>7 DEF LockNext

(* The guard and what holds inside it. *)
Guarded ==
    \A l \in Lockers :
        /\ InGuard(l) => guard = l
        /\ lockAt[l] = "truncate" => ~(record.is = "held" /\ ~record.past)
        /\ lockAt[l] = "write" => record.is # "held"

(* Inside the guard nobody else changes the record to a held one. *)
LEMMA GuardedStep == LockTypeOK /\ Guarded /\ [LockNext]_lockVars => Guarded'
<1> SUFFICES ASSUME LockTypeOK, Guarded, [LockNext]_lockVars PROVE Guarded'
  OBVIOUS
<1> USE FileLockAssumption DEF LockTypeOK, Guarded, InGuard
<1>1. ASSUME NEW l \in Lockers, LockStep(l) PROVE Guarded'
  <2>1. CASE TakeGuard(l)
    BY <2>1 DEF TakeGuard, Step
  <2>2. CASE CheckRecord(l)
    BY <2>2 DEF CheckRecord, LeaveGuard, Step
  <2>3. CASE Truncate(l)
    BY <2>3, Zenon DEF Truncate, Step, Torn, NoRecord
  <2>4. CASE WriteRecord(l)
    BY <2>4, Zenon DEF WriteRecord, LeaveGuard, Step
  <2>5. CASE ReleaseLock(l)
    BY <2>5, Zenon DEF ReleaseLock, LeaveGuard, Step
  <2>6. CASE ForceRelease(l)
    BY <2>6, Zenon DEF ForceRelease, LeaveGuard, Step
  <2> QED
    BY <1>1, <2>1, <2>2, <2>3, <2>4, <2>5, <2>6, Zenon DEF LockStep
<1>2. ASSUME NEW l \in Lockers, CrashLocker(l) PROVE Guarded'
  BY <1>2, Zenon DEF CrashLocker, Step
<1>3. ASSUME NEW l \in Lockers, NEW w \in {"get", "release", "force"}, CallLock(l, w)
      PROVE Guarded'
  BY <1>3, Zenon DEF CallLock, Step
<1>4. CASE Walk \/ LookAgain
  BY <1>4, Zenon DEF Walk, LookAgain
<1>5. CASE RemoveRecord
  BY <1>5, Zenon DEF RemoveRecord, NoRecord
<1>6. CASE LockTimePasses
  BY <1>6, Zenon DEF LockTimePasses
<1>7. CASE UNCHANGED lockVars
  BY <1>7, Zenon DEF lockVars
<1> QED
  BY <1>1, <1>2, <1>3, <1>4, <1>5, <1>6, <1>7 DEF LockNext

(* A holder keeps its record unless it is cleared. *)
LEMMA RecordedStep ==
    LockTypeOK /\ Guarded /\ HolderIsRecorded /\ [LockNext]_lockVars => HolderIsRecorded'
<1> SUFFICES ASSUME LockTypeOK, Guarded, HolderIsRecorded, [LockNext]_lockVars
             PROVE HolderIsRecorded'
  OBVIOUS
<1> USE FileLockAssumption DEF LockTypeOK, HolderIsRecorded, HeldBy
<1>1. ASSUME NEW l \in Lockers, LockStep(l) PROVE HolderIsRecorded'
  <2>1. CASE TakeGuard(l)
    BY <2>1, Zenon DEF TakeGuard
  <2>2. CASE CheckRecord(l)
    BY <2>2, Zenon DEF CheckRecord
  <2>3. CASE Truncate(l)
    BY <2>3 DEF Truncate, Guarded
  <2>4. CASE WriteRecord(l)
    BY <2>4 DEF WriteRecord, Guarded
  <2>5. CASE ReleaseLock(l)
    <3> SUFFICES ASSUME NEW m \in Lockers, holds'[m] PROVE record' = HeldBy(m) \/ m \in cleared'
      OBVIOUS
    <3>1. m # l /\ holds[m]
      BY <2>5, Zenon DEF ReleaseLock
    <3>2. CASE record = HeldBy(m)
      <4>1. record.owner = m
        BY <3>2, Zenon
      <4> QED
        BY <2>5, <3>1, <3>2, <4>1, Zenon DEF ReleaseLock
    <3>3. CASE m \in cleared
      BY <2>5, <3>1, <3>3, Zenon DEF ReleaseLock
    <3> QED
      BY <3>1, <3>2, <3>3, Zenon
  <2>6. CASE ForceRelease(l)
    <3> SUFFICES ASSUME NEW m \in Lockers, holds'[m] PROVE m \in cleared'
      OBVIOUS
    <3>1. holds[m] /\ record.owner # m /\ cleared' = cleared
      BY <2>6, Zenon DEF ForceRelease
    <3> QED
      BY <3>1
  <2> QED
    BY <1>1, <2>1, <2>2, <2>3, <2>4, <2>5, <2>6, Zenon DEF LockStep
<1>2. ASSUME NEW l \in Lockers, CrashLocker(l) PROVE HolderIsRecorded'
  <2> SUFFICES ASSUME NEW m \in Lockers, holds'[m] PROVE record' = HeldBy(m) \/ m \in cleared'
    OBVIOUS
  <2>1. m # l /\ holds[m]
    BY <1>2, Zenon DEF CrashLocker
  <2>2. CASE record = HeldBy(m)
    <3>1. record.owner = m
      BY <2>2, Zenon
    <3> QED
      BY <1>2, <2>1, <2>2, <3>1, Zenon DEF CrashLocker
  <2>3. CASE m \in cleared
    BY <1>2, <2>1, <2>3, Zenon DEF CrashLocker
  <2> QED
    BY <2>1, <2>2, <2>3, Zenon
<1>3. ASSUME NEW l \in Lockers, NEW w \in {"get", "release", "force"}, CallLock(l, w)
      PROVE HolderIsRecorded'
  BY <1>3, Zenon DEF CallLock
<1>4. CASE Walk \/ LookAgain
  BY <1>4, Zenon DEF Walk, LookAgain
<1>5. CASE RemoveRecord
  BY <1>5, Zenon DEF RemoveRecord, NoRecord
<1>6. CASE LockTimePasses
  BY <1>6 DEF LockTimePasses
<1>7. CASE UNCHANGED lockVars
  BY <1>7, Zenon DEF lockVars
<1> QED
  BY <1>1, <1>2, <1>3, <1>4, <1>5, <1>6, <1>7 DEF LockNext

(* For any set of lock instances, a caller that holds a file lock is the   *)
(* owner its record names unless the sweep or Flush removed the record: no *)
(* interleaving of Get, Release, ForceRelease, crashes and TTLs breaks the *)
(* exclusion (acquire, Release, ForceRelease in file_lock.go).             *)
THEOREM FileLockExclusion == LockSpec => []HolderIsRecorded
<1> DEFINE Inv == LockTypeOK /\ Guarded /\ HolderIsRecorded
<1>1. LockInit => Inv
  BY FileLockAssumption
     DEF LockInit, LockTypeOK, Guarded, InGuard, HolderIsRecorded, NoRecord
<1>2. Inv /\ [LockNext]_lockVars => Inv'
  BY LockTypeStep, GuardedStep, RecordedStep, Zenon
<1>3. Inv => HolderIsRecorded
  OBVIOUS
<1> QED
  BY <1>1, <1>2, <1>3, PTL DEF LockSpec

-----------------------------------------------------------------------------
(* Keyed timers *)

(* A timer. *)
IsTimer(t) == /\ t = [name |-> t.name, gen |-> t.gen, fired |-> t.fired]
              /\ t.name \in EventNames /\ t.gen \in Nat \ {0}

(* No generation is carried by two timers or pending under two names, and   *)
(* what is pending, taken and dropped splits the generations handed out.    *)
TimersInv ==
    /\ gen \in Nat /\ pendingEv \in [EventNames -> Nat]
    /\ \A t \in timers : IsTimer(t) /\ t.gen <= gen
    /\ \A t, u \in timers : t.gen = u.gen => t = u
    /\ \A m, n \in EventNames : pendingEv[m] = pendingEv[n] /\ pendingEv[m] # 0 => m = n
    /\ OwnDeliveryOnly

Taken == {c.gen : c \in claims}
Pend == PendingGens(EventNames)

LEMMA OwnSplit ==
    OwnDeliveryOnly <=> /\ \A c \in claims : c.gen = c.timer
                        /\ \A t \in timers : t.gen \notin Taken
                        /\ Taken \intersect dropped = {} /\ Pend \intersect (Taken \union dropped) = {}
                        /\ Taken \union dropped \union Pend = 1..gen
  BY Zenon DEF OwnDeliveryOnly, Taken, Pend

LEMMA OwnSplitNext ==
    OwnDeliveryOnly' <=> /\ \A c \in claims' : c.gen = c.timer
                         /\ \A t \in timers' : t.gen \notin Taken'
                         /\ Taken' \intersect dropped' = {} /\ Pend' \intersect (Taken' \union dropped') = {}
                         /\ Taken' \union dropped' \union Pend' = 1..gen'
  BY Zenon DEF OwnDeliveryOnly, Taken, Pend

LEMMA ScheduleKeeps == ASSUME TimersInv, NEW n \in EventNames, Schedule(n) PROVE TimersInv'
<1>1. gen' = gen + 1 /\ gen' \in Nat /\ pendingEv' \in [EventNames -> Nat]
      /\ pendingEv'[n] = gen + 1 /\ \A m \in EventNames : m # n => pendingEv'[m] = pendingEv[m]
  BY DEF TimersInv, Schedule
<1>2. \A m \in EventNames : pendingEv[m] # 0 => pendingEv[m] \in 1..gen
  BY OwnSplit, Zenon DEF TimersInv, Pend, PendingGens
<1>3. \A t \in timers' : t \in timers \/ t = [name |-> n, gen |-> gen + 1, fired |-> FALSE]
  BY Zenon DEF Schedule, StopTimers
<1>4. /\ \A t \in timers' : IsTimer(t) /\ t.gen <= gen'
      /\ \A t, u \in timers' : t.gen = u.gen => t = u
  <2> DEFINE new == [name |-> n, gen |-> gen + 1, fired |-> FALSE]
  <2>1. new.gen = gen + 1 /\ new.name = n /\ new = [name |-> new.name, gen |-> new.gen, fired |-> new.fired]
    OBVIOUS
  <2>2. \A t \in timers : IsTimer(t) /\ t.gen \in Nat /\ t.gen <= gen /\ t.gen # gen + 1 /\ gen \in Nat
    BY DEF TimersInv, IsTimer
  <2>3. \A t \in timers' : t \in timers \/ t = new
    BY <1>3, Zenon
  <2>4. IsTimer(new) /\ new.gen <= gen'
    BY <1>1, <2>1, <2>2 DEF IsTimer, TimersInv
  <2> HIDE DEF new
  <2>5. \A t \in timers : t.gen <= gen'
    BY <1>1, <2>2
  <2>6. \A t, u \in timers : t.gen = u.gen => t = u
    BY Zenon DEF TimersInv
  <2> QED
    BY <2>1, <2>2, <2>3, <2>4, <2>5, <2>6, Zenon
<1>5. \A k, m \in EventNames : pendingEv'[k] = pendingEv'[m] /\ pendingEv'[k] # 0 => k = m
  BY <1>1, <1>2 DEF TimersInv
<1>6. Taken' = Taken /\ dropped' = dropped \union ({pendingEv[n]} \ {0})
  BY Zenon DEF Schedule, Taken, PendingGens
<1>7. Pend' = (Pend \ {pendingEv[n]}) \union {gen + 1}
  BY <1>1, <1>2 DEF TimersInv, Pend, PendingGens
<1>8. \A x : x \in 1..gen' <=> x \in 1..gen \/ x = gen + 1
  BY <1>1 DEF TimersInv
<1>9. pendingEv[n] # 0 => pendingEv[n] \in Pend
  BY Zenon DEF Pend, PendingGens
<1>10. gen + 1 \notin 1..gen
  BY DEF TimersInv
<1>11. \A t \in timers' : t.gen \notin Taken'
  BY <1>3, <1>6, <1>10, OwnSplit, Zenon DEF TimersInv
<1>12. Taken' \intersect dropped' = {} /\ Pend' \intersect (Taken' \union dropped') = {}
  BY <1>6, <1>7, <1>9, <1>10, OwnSplit DEF TimersInv
<1>13. Taken' \union dropped' \union Pend' = 1..gen'
  BY <1>6, <1>7, <1>8, <1>9, OwnSplit, 0 \notin 1..gen DEF TimersInv, Pend, PendingGens
<1> QED
  BY <1>1, <1>4, <1>5, <1>11, <1>12, <1>13, OwnSplit, OwnSplitNext, Zenon DEF TimersInv, Schedule

LEMMA FiresKeeps == ASSUME TimersInv, NEW t \in timers, Fires(t) PROVE TimersInv'
<1>1. UNCHANGED <<gen, pendingEv, claims, dropped>> /\ Taken' = Taken /\ Pend' = Pend
  BY Zenon DEF Fires, Taken, Pend, PendingGens
<1>2. \A u \in timers' : IsTimer(u) /\ \E v \in timers : v.gen = u.gen /\ (u # v => v = t /\ u = [t EXCEPT !.fired = TRUE])
  BY DEF TimersInv, Fires, IsTimer
<1>3. \A u, v \in timers' : u.gen = v.gen => u = v
  <2>1. timers' = (timers \ {t}) \union {[t EXCEPT !.fired = TRUE]} /\ [t EXCEPT !.fired = TRUE].gen = t.gen
    BY DEF TimersInv, Fires, IsTimer
  <2> QED
    BY <2>1, ZenonT(30) DEF TimersInv
<1> QED
  BY <1>1, <1>2, <1>3, OwnSplit, OwnSplitNext, Zenon DEF TimersInv

LEMMA ClaimKeeps == ASSUME TimersInv, NEW t \in timers, Claim(t) PROVE TimersInv'
<1>1. gen' = gen /\ dropped' = dropped /\ timers' = timers \ {t} /\ t.name \in EventNames /\ t.gen \in Nat \ {0}
  BY Zenon DEF TimersInv, Claim, IsTimer
<1>2. CASE pendingEv[t.name] # t.gen
  <2>1. UNCHANGED <<claims, pendingEv>> /\ Taken' = Taken /\ Pend' = Pend
    BY <1>2, Zenon DEF Claim, Taken, Pend, PendingGens
  <2> QED
    BY <1>1, <2>1, OwnSplit, OwnSplitNext, Zenon DEF TimersInv
<1>3. CASE pendingEv[t.name] = t.gen
  <2>1. /\ claims' = claims \union {[timer |-> t.gen, gen |-> t.gen]}
        /\ pendingEv' = [pendingEv EXCEPT ![t.name] = 0]
    BY <1>3, Zenon DEF Claim
  <2>2. Taken' = Taken \union {t.gen} /\ \A c \in claims' : c.gen = c.timer
    <3> DEFINE c == [timer |-> t.gen, gen |-> t.gen]
    <3>1. c.gen = t.gen /\ c.timer = t.gen /\ claims' = claims \union {c}
      BY <2>1, Zenon
    <3> HIDE DEF c
    <3> QED
      BY <3>1, OwnSplit DEF TimersInv, Taken
  <2>3. /\ pendingEv' \in [EventNames -> Nat] /\ pendingEv'[t.name] = 0
        /\ \A m \in EventNames : m # t.name => pendingEv'[m] = pendingEv[m]
    BY <1>1, <2>1, Zenon DEF TimersInv
  <2>4. Pend' = Pend \ {t.gen}
    BY <1>1, <1>3, <2>3 DEF TimersInv, Pend, PendingGens
  <2>5. t.gen \in Pend
    BY <1>1, <1>3, Zenon DEF Pend, PendingGens
  <2>6. /\ Taken' \intersect dropped' = {} /\ Pend' \intersect (Taken' \union dropped') = {}
        /\ Taken' \union dropped' \union Pend' = 1..gen'
    BY <1>1, <2>2, <2>4, <2>5, OwnSplit DEF TimersInv
  <2>7. \A u \in timers' : u.gen \notin Taken'
    BY <1>1, <2>2, OwnSplit, Zenon DEF TimersInv
  <2> QED
    BY <1>1, <2>2, <2>3, <2>6, <2>7, OwnSplitNext, ZenonT(30) DEF TimersInv
<1> QED  BY <1>2, <1>3

LEMMA CancelKeeps == ASSUME TimersInv, NEW names \in SUBSET EventNames, CancelTimers(names) PROVE TimersInv'
<1>1. /\ UNCHANGED <<gen, claims>> /\ Taken' = Taken /\ dropped' = dropped \union PendingGens(names)
      /\ timers' \subseteq timers
  BY Zenon DEF CancelTimers, Taken, StopTimers
<1>2. pendingEv' = [m \in EventNames |-> IF m \in names THEN 0 ELSE pendingEv[m]]
  BY Zenon DEF CancelTimers
<1>3. /\ pendingEv' \in [EventNames -> Nat] /\ \A m \in names : pendingEv'[m] = 0
      /\ \A m \in EventNames \ names : pendingEv'[m] = pendingEv[m]
  BY <1>2, Zenon DEF TimersInv
<1>4. Pend' = Pend \ PendingGens(names) /\ PendingGens(names) \subseteq Pend
  BY <1>3 DEF TimersInv, Pend, PendingGens
<1>5. Taken' \intersect dropped' = {} /\ Pend' \intersect (Taken' \union dropped') = {}
      /\ Taken' \union dropped' \union Pend' = 1..gen'
  BY <1>1, <1>4, OwnSplit, Zenon DEF TimersInv
<1>6. \A k, m \in EventNames : pendingEv'[k] = pendingEv'[m] /\ pendingEv'[k] # 0 => k = m
  BY <1>3, Zenon DEF TimersInv
<1> QED
  BY <1>1, <1>3, <1>5, <1>6, OwnSplit, OwnSplitNext, Zenon DEF TimersInv

(* A timer never delivers an event other than its own, nor one that was     *)
(* replaced, cancelled or stopped first, for any number of names and        *)
(* schedules, however late its goroutine reaches the claim.                 *)
THEOREM TimersDeliverTheirOwn == TimersSpec => []OwnDeliveryOnly
<1>1. TimersInit => TimersInv
  <2> SUFFICES ASSUME TimersInit PROVE TimersInv  OBVIOUS
  <2>1. Taken = {} /\ Pend = {} /\ 1..gen = {}
    BY DEF TimersInit, Taken, Pend, PendingGens
  <2> QED
    BY <2>1, OwnSplit, Zenon DEF TimersInit, TimersInv
<1>2. TimersInv /\ [TimersNext]_timerVars => TimersInv'
  <2> SUFFICES ASSUME TimersInv, [TimersNext]_timerVars PROVE TimersInv'  OBVIOUS
  <2>1. CASE UNCHANGED timerVars
    BY <2>1 DEF timerVars, TimersInv, OwnDeliveryOnly, PendingGens
  <2>2. CASE StopAll \/ \E n \in EventNames : DispatchNow(n)
    BY <2>2, CancelKeeps, Zenon DEF StopAll, DispatchNow
  <2> QED
    BY <2>1, <2>2, ScheduleKeeps, FiresKeeps, ClaimKeeps, Zenon DEF TimersNext
<1> QED
  BY <1>1, <1>2, PTL DEF TimersSpec, TimersInv

-----------------------------------------------------------------------------
(* The batching dispatcher *)

Delivering == {"deliver", "stopInside"}

(* Every event so far, in the order it was recorded. *)
AllInOrder(n) == [e \in 1..n |-> e]

(* Only the goroutine that marked the flush in progress holds events. *)
BatchingShape ==
    /\ recorded \in Nat /\ buffered \in Seq(Nat) /\ handed \in Seq(Nat)
    /\ held \in [Flushers -> Seq(Nat)] /\ place = [a \in Flushers |-> place[a]]
    /\ \A a \in Flushers : held[a] # << >> => place[a] \in Delivering
    /\ \A a \in Flushers : place[a] \in Delivering => flushing
    /\ \A a, b \in Flushers : place[a] \in Delivering /\ place[b] \in Delivering => a = b

BatchingInv == BatchingShape /\ BatchInOrder

-----------------------------------------------------------------------------
(* Sequences *)

LEMMA RecordedNext ==
    ASSUME NEW n \in Nat
    PROVE  AllInOrder(n) \in Seq(Nat) /\ AllInOrder(n + 1) = Append(AllInOrder(n), n + 1)
<1> DEFINE s == AllInOrder(n)
           t == AllInOrder(n + 1)
           u == Append(s, n + 1)
<1>1. s \in Seq(Nat) /\ t \in Seq(Nat) /\ Len(s) = n /\ Len(t) = n + 1
  BY DEF AllInOrder
<1>2. u \in Seq(Nat) /\ Len(u) = n + 1 /\ (\A i \in 1..n : u[i] = s[i]) /\ u[n + 1] = n + 1
  BY <1>1, AppendProperties
<1>3. (\A i \in 1..n : s[i] = i) /\ \A i \in 1..n + 1 : t[i] = i
  BY Zenon DEF AllInOrder
<1> HIDE DEF s, t, u
<1>4. \A i \in 1..n + 1 : t[i] = u[i]
  BY <1>2, <1>3
<1>5. t = u
  BY <1>1, <1>2, <1>4, SeqEqual, Zenon
<1> QED
  BY <1>1, <1>5, Zenon DEF s, t, u

LEMMA Regroup ==
    ASSUME NEW s \in Seq(Nat), NEW t \in Seq(Nat), NEW u \in Seq(Nat)
    PROVE  (s \o t) \o u = s \o (t \o u)
  BY ConcatAssociative, SMTT(30)

(* An event recorded goes to the end of all of them. *)
LEMMA RecordLast ==
    ASSUME NEW h \in Seq(Nat), NEW s \in Seq(Nat), NEW b \in Seq(Nat), NEW n \in Nat,
           h \o s \o b = AllInOrder(n)
    PROVE  h \o s \o Append(b, n + 1) = AllInOrder(n + 1)
<1> DEFINE p == h \o s
           e == n + 1
           q == << e >>
<1>1. p \in Seq(Nat) /\ e \in Nat /\ q \in Seq(Nat)
  BY ConcatProperties
<1>2. AllInOrder(n) \in Seq(Nat) /\ AllInOrder(n + 1) = Append(AllInOrder(n), e)
  BY RecordedNext, Zenon
<1> HIDE DEF p, e
<1>3. Append(b, e) = b \o q /\ Append(AllInOrder(n), e) = AllInOrder(n) \o q
  BY <1>1, <1>2, AppendIsConcat, Zenon
<1> HIDE DEF q
<1>4. (p \o b) \o q = p \o (b \o q)
  BY <1>1, Regroup, ZenonT(30)
<1> QED
  BY <1>2, <1>3, <1>4, Zenon DEF p, e

(* The first event held goes to the end of those delivered. *)
LEMMA HandFirst ==
    ASSUME NEW h \in Seq(Nat), NEW s \in Seq(Nat), s # << >>
    PROVE  Append(h, Head(s)) \o Tail(s) = h \o s
<1>1. Head(s) \in Nat /\ Tail(s) \in Seq(Nat) /\ << Head(s) >> \in Seq(Nat)
  BY HeadTailProperties
<1>2. << Head(s) >> \o Tail(s) = s
  <2> DEFINE u == << Head(s) >> \o Tail(s)
             m == Len(s)
  <2>1. m \in Nat /\ m > 0 /\ Len(Tail(s)) = m - 1 /\ (\A i \in 1..m - 1 : Tail(s)[i] = s[i + 1])
        /\ Head(s) = s[1]
    BY HeadTailProperties, EmptySeq, LenProperties
  <2>2. Len(<< Head(s) >>) = 1 /\ << Head(s) >>[1] = s[1]
    BY <2>1, Zenon
  <2> DEFINE q == << Head(s) >>
  <2> HIDE DEF q
  <2>3. q \in Seq(Nat) /\ Len(q) = 1 /\ q[1] = s[1] /\ u = q \o Tail(s)
    BY <1>1, <2>2, Zenon DEF q
  <2>4. u \in Seq(Nat) /\ Len(u) = 1 + (m - 1)
        /\ \A i \in 1..1 + (m - 1) : u[i] = IF i <= 1 THEN q[i] ELSE Tail(s)[i - 1]
    <3>1. /\ q \o Tail(s) \in Seq(Nat)
          /\ Len(q \o Tail(s)) = Len(q) + Len(Tail(s))
          /\ \A i \in 1..Len(q) + Len(Tail(s)) :
                (q \o Tail(s))[i] = IF i <= Len(q) THEN q[i] ELSE Tail(s)[i - Len(q)]
      BY <1>1, <2>3, ConcatProperties, Zenon
    <3> QED
      BY <2>1, <2>3, <3>1, Zenon
  <2> HIDE DEF u
  <2>5. \A i \in 1..m : u[i] = s[i]
    <3> SUFFICES ASSUME NEW i \in 1..m PROVE u[i] = s[i]
      OBVIOUS
    <3>1. CASE i = 1
      BY <2>1, <2>3, <2>4, <3>1
    <3>2. CASE i # 1
      <4>1. i - 1 \in 1..m - 1 /\ (i - 1) + 1 = i /\ ~(i <= 1) /\ i \in 1..1 + (m - 1)
        BY <2>1, <3>2
      <4> QED
        BY <2>1, <2>4, <4>1, Zenon
    <3> QED  BY <3>1, <3>2
  <2>6. Len(u) = m
    BY <2>1, <2>4
  <2> HIDE DEF m
  <2>7. u = s
    BY <2>4, <2>5, <2>6, SeqEqual, Zenon DEF m
  <2> QED
    BY <2>7, Zenon DEF u
<1>3. Append(h, Head(s)) = h \o << Head(s) >>
  BY <1>1, AppendIsConcat, Zenon
<1>4. (h \o << Head(s) >>) \o Tail(s) = h \o (<< Head(s) >> \o Tail(s))
  BY <1>1, Regroup, Zenon
<1> QED
  BY <1>2, <1>3, <1>4, Zenon

-----------------------------------------------------------------------------
(* The flusher whose events stand between those delivered and the batch. *)
InOrderWith(a) == /\ \A b \in Flushers \ {a} : held[b] = << >>
                  /\ handed \o held[a] \o buffered = AllInOrder(recorded)

LEMMA OrderSplit == (BatchInOrder <=> \E a \in Flushers : InOrderWith(a))
                    /\ (BatchInOrder' <=> \E a \in Flushers : InOrderWith(a)')
  BY Zenon DEF BatchInOrder, InOrderWith, AllInOrder

(* A goroutine that holds events is that flusher. *)
LEMMA HolderInOrder == ASSUME BatchingInv, NEW a \in Flushers, held[a] # << >> PROVE InOrderWith(a)
  BY OrderSplit, Zenon DEF BatchingInv, InOrderWith

(* With no flush in progress any goroutine is. *)
LEMMA IdleInOrder ==
    ASSUME BatchingInv, NEW a \in Flushers, \A b \in Flushers : held[b] = << >> PROVE InOrderWith(a)
<1>1. PICK c \in Flushers : InOrderWith(c)
  BY OrderSplit, Zenon DEF BatchingInv
<1> QED
  BY <1>1, Zenon DEF InOrderWith

(* The goroutine a moves on without a change to the events. *)
LEMMA MoveKeeps ==
    ASSUME BatchingInv, NEW a \in Flushers, NEW where, Moves(a, where),
           UNCHANGED <<buffered, held, recorded, handed>>,
           where \in Delivering => place[a] \in Delivering,
           held[a] # << >> => where \in Delivering,
           \/ flushing' = flushing
           \/ place[a] \in Delivering /\ where \notin Delivering
    PROVE  BatchingInv'
<1>1. place' = [b \in Flushers |-> IF b = a THEN where ELSE place[b]]
  BY Zenon DEF Moves, BatchingInv, BatchingShape
<1>2. BatchingShape'
  BY <1>1 DEF BatchingInv, BatchingShape
<1> QED
  BY <1>2, Zenon DEF BatchingInv, BatchInOrder

LEMMA RecordKeeps ==
    ASSUME BatchingInv, recorded' = recorded + 1, buffered' = Append(buffered, recorded'),
           UNCHANGED <<held, handed>>
    PROVE  BatchInOrder' /\ buffered' \in Seq(Nat) /\ recorded' \in Nat
<1>1. PICK a \in Flushers : InOrderWith(a)
  BY OrderSplit, Zenon DEF BatchingInv
<1>2. /\ handed \in Seq(Nat) /\ held[a] \in Seq(Nat) /\ buffered \in Seq(Nat) /\ recorded \in Nat
      /\ handed \o held[a] \o buffered = AllInOrder(recorded)
  BY <1>1, Zenon DEF BatchingInv, BatchingShape, InOrderWith
<1>3. handed \o held[a] \o Append(buffered, recorded + 1) = AllInOrder(recorded + 1)
  BY <1>2, RecordLast, ZenonT(30)
<1>4. InOrderWith(a)'
  BY <1>1, <1>3, Zenon DEF InOrderWith
<1> QED
  BY <1>2, <1>4, OrderSplit, AppendProperties

LEMMA RecordsKeeps == ASSUME BatchingInv, NEW c \in Callers, Records(c) PROVE BatchingInv'
<1>1. BatchInOrder' /\ buffered' \in Seq(Nat) /\ recorded' \in Nat
  BY RecordKeeps, Zenon DEF Records
<1>2. c \in Flushers /\ place[c] = "idle" /\ UNCHANGED <<flushing, held, handed>>
      /\ \E where \in {"flush", "idle"} : place' = [b \in Flushers |-> IF b = c THEN where ELSE place[b]]
  BY Zenon DEF Records, Moves, Flushers, BatchingInv, BatchingShape
<1>3. BatchingShape'
  BY <1>1, <1>2, Zenon DEF BatchingInv, BatchingShape, Delivering
<1> QED
  BY <1>1, <1>3, Zenon DEF BatchingInv

LEMMA ReentersKeeps == ASSUME BatchingInv, NEW a \in Flushers, Reenters(a) PROVE BatchingInv'
<1>1. BatchInOrder' /\ buffered' \in Seq(Nat) /\ recorded' \in Nat
  BY RecordKeeps, Zenon DEF Reenters
<1> QED
  BY <1>1, Zenon DEF Reenters, BatchingInv, BatchingShape

LEMMA TakeBatchKeeps == ASSUME BatchingInv, NEW a \in Flushers, TakeBatch(a) PROVE BatchingInv'
<1>1. CASE flushing \/ buffered = << >>
  <2>1. place[a] = "flush" /\ held[a] = << >> /\ Moves(a, Done(a)) /\ Done(a) \notin Delivering
    BY <1>1, Zenon DEF TakeBatch, BatchingInv, BatchingShape, Delivering, Done
  <2> QED
    BY <1>1, <2>1, MoveKeeps, Zenon DEF TakeBatch
<1>2. CASE ~flushing /\ buffered # << >>
  <2>1. /\ held' = [held EXCEPT ![a] = buffered] /\ buffered' = << >> /\ flushing' = TRUE
        /\ place' = [b \in Flushers |-> IF b = a THEN "deliver" ELSE place[b]]
        /\ UNCHANGED <<recorded, handed>>
    BY <1>2, Zenon DEF TakeBatch, Moves, BatchingInv, BatchingShape
  <2>2. \A b \in Flushers : held[b] = << >> /\ place[b] \notin Delivering
    BY <1>2, Zenon DEF BatchingInv, BatchingShape
  <2>3. BatchingShape'
    BY <2>1, <2>2 DEF BatchingInv, BatchingShape, Delivering
  <2>4. InOrderWith(a) /\ handed \in Seq(Nat) /\ buffered \in Seq(Nat) /\ held'[a] = buffered
        /\ \A b \in Flushers : b # a => held'[b] = << >>
    BY <2>1, <2>2, IdleInOrder, Zenon DEF BatchingInv, BatchingShape
  <2>5. handed \o << >> = handed /\ (handed \o buffered) \o << >> = handed \o buffered
    BY <2>4, ConcatEmptySeq, ConcatProperties
  <2>6. handed \o buffered \o << >> = AllInOrder(recorded)
    BY <2>2, <2>4, <2>5, Zenon DEF InOrderWith
  <2>7. InOrderWith(a)'
    BY <2>1, <2>4, <2>6, Zenon DEF InOrderWith
  <2> QED
    BY <2>3, <2>7, OrderSplit, Zenon DEF BatchingInv
<1> QED  BY <1>1, <1>2

LEMMA HandsKeeps == ASSUME BatchingInv, NEW a \in Flushers, Hands(a) PROVE BatchingInv'
<1>1. /\ place[a] = "deliver" /\ held[a] # << >> /\ handed' = Append(handed, Head(held[a]))
      /\ held' = [held EXCEPT ![a] = Tail(@)] /\ UNCHANGED <<buffered, flushing, place, recorded>>
  BY Zenon DEF Hands
<1>2. /\ held[a] \in Seq(Nat) /\ handed \in Seq(Nat) /\ Head(held[a]) \in Nat /\ Tail(held[a]) \in Seq(Nat)
      /\ held'[a] = Tail(held[a]) /\ \A b \in Flushers : b # a => held'[b] = held[b]
  BY <1>1, HeadTailProperties, Zenon DEF BatchingInv, BatchingShape
<1>3. handed' \in Seq(Nat) /\ held' \in [Flushers -> Seq(Nat)]
  BY <1>1, <1>2, AppendProperties, Zenon DEF BatchingInv, BatchingShape
<1>4. BatchingShape'
  BY <1>1, <1>2, <1>3, Zenon DEF BatchingInv, BatchingShape, Delivering
<1>5. Append(handed, Head(held[a])) \o Tail(held[a]) = handed \o held[a]
  BY <1>1, <1>2, HandFirst, Zenon
<1>6. InOrderWith(a)
  BY <1>1, HolderInOrder, Zenon
<1>7. InOrderWith(a)'
  BY <1>1, <1>2, <1>5, <1>6, Zenon DEF InOrderWith
<1> QED
  BY <1>4, <1>7, OrderSplit, Zenon DEF BatchingInv

LEMMA EntryFailsKeeps == ASSUME BatchingInv, NEW c \in Callers, EntryFails(c) PROVE BatchingInv'
<1>1. /\ c \in Flushers /\ place[c] = "deliver" /\ held[c] # << >> /\ buffered' = held[c] \o buffered
      /\ held' = [held EXCEPT ![c] = << >>] /\ flushing' = FALSE /\ UNCHANGED <<recorded, handed>>
      /\ place' = [b \in Flushers |-> IF b = c THEN "idle" ELSE place[b]]
  BY Zenon DEF EntryFails, Moves, Flushers, BatchingInv, BatchingShape
<1>2. /\ held[c] \in Seq(Nat) /\ handed \in Seq(Nat) /\ buffered \in Seq(Nat) /\ held'[c] = << >>
      /\ \A b \in Flushers : b # c => held'[b] = held[b]
  BY <1>1, Zenon DEF BatchingInv, BatchingShape
<1>3. buffered' \in Seq(Nat) /\ held' \in [Flushers -> Seq(Nat)]
  BY <1>1, <1>2, ConcatProperties DEF BatchingInv, BatchingShape
<1>4. BatchingShape'
  BY <1>1, <1>2, <1>3, Zenon DEF BatchingInv, BatchingShape, Delivering
<1>5. InOrderWith(c)
  BY <1>1, HolderInOrder, Zenon
<1>6. handed \o << >> = handed
  BY <1>2, ConcatEmptySeq, Zenon
<1>7. (handed \o held[c]) \o buffered = handed \o (held[c] \o buffered)
  BY <1>2, Regroup, Zenon
<1>8. InOrderWith(c)'
  BY <1>1, <1>2, <1>5, <1>6, <1>7, Zenon DEF InOrderWith
<1> QED
  BY <1>1, <1>4, <1>8, OrderSplit, Zenon DEF BatchingInv

LEMMA EndFlushKeeps == ASSUME BatchingInv, NEW a \in Flushers, EndFlush(a) PROVE BatchingInv'
<1>1. place[a] = "deliver" /\ held[a] = << >> /\ Moves(a, Done(a)) /\ Done(a) \notin Delivering
  BY Zenon DEF EndFlush, Delivering, Done
<1> QED
  BY <1>1, MoveKeeps, Zenon DEF EndFlush, Delivering

LEMMA CallKeeps ==
    ASSUME BatchingInv, \/ Ticks \/ SeesStop
                        \/ \E c \in Callers : CallsFlush(c) \/ CallsStop(c)
    PROVE  BatchingInv'
<1>1. PICK a \in Flushers, where \in {"flush", "stop"} :
          place[a] \in {"idle", "select"} /\ Moves(a, where)
          /\ UNCHANGED <<buffered, held, recorded, handed, flushing>>
  BY Zenon DEF Ticks, SeesStop, CallsFlush, CallsStop, Flushers
<1>2. held[a] = << >>
  BY <1>1, Zenon DEF BatchingInv, BatchingShape, Delivering
<1>3. where \notin Delivering
  BY Zenon DEF Delivering
<1> QED
  BY <1>1, <1>2, <1>3, MoveKeeps, Zenon

LEMMA StopInsideKeeps ==
    ASSUME BatchingInv, NEW a \in Flushers, ListenerStops(a) \/ StopReturns(a) PROVE BatchingInv'
<1>1. CASE ListenerStops(a)
  BY <1>1, MoveKeeps, Zenon DEF ListenerStops, Delivering
<1>2. CASE StopReturns(a)
  <2>1. place[a] = "stop" => held[a] = << >>
    BY Zenon DEF BatchingInv, BatchingShape, Delivering
  <2> QED
    BY <1>2, <2>1, MoveKeeps, Zenon DEF StopReturns, Delivering
<1> QED  BY <1>1, <1>2

(* For any number of callers, batches of any size and any failures, every   *)
(* event recorded is delivered, in hand or waiting, once and in the order   *)
(* it was recorded in.                                                      *)
THEOREM EventsStayInOrder == BatchingSpec => []BatchInOrder
<1>1. BatchingInit => BatchingInv
  <2> SUFFICES ASSUME BatchingInit PROVE BatchingInv
    OBVIOUS
  <2>1. BatchingShape
    <3>1. << >> \in Seq(Nat)
      BY EmptySeq, Zenon
    <3>2. \A a \in Flushers : held[a] = << >> /\ place[a] \in {"select", "idle"} /\ place[a] \notin Delivering
      BY Zenon DEF BatchingInit, Delivering
    <3>3. place = [a \in Flushers |-> place[a]] /\ held \in [Flushers -> Seq(Nat)]
      BY <3>1, Zenon DEF BatchingInit
    <3> QED
      BY <3>1, <3>2, <3>3, Zenon DEF BatchingInit, BatchingShape
  <2>2. << >> \o << >> \o << >> = AllInOrder(0)
    <3>1. << >> \in Seq(Nat) /\ << >> \o << >> = << >>
      BY ConcatEmptySeq, EmptySeq, Zenon
    <3>2. AllInOrder(0) \in Seq(Nat) /\ Len(AllInOrder(0)) = 0
      BY DEF AllInOrder
    <3> QED
      BY <3>1, <3>2, EmptySeq, Zenon
  <2>3. InOrderWith("loop") /\ "loop" \in Flushers
    BY <2>2, Zenon DEF BatchingInit, InOrderWith, Flushers
  <2> QED
    BY <2>1, <2>3, OrderSplit, Zenon DEF BatchingInv
<1>2. BatchingInv /\ [BatchingNext]_batchingVars => BatchingInv'
  <2> SUFFICES ASSUME BatchingInv, [BatchingNext]_batchingVars PROVE BatchingInv'
    OBVIOUS
  <2>1. CASE UNCHANGED batchingVars
    BY <2>1, Zenon DEF batchingVars, BatchingInv, BatchingShape, BatchInOrder
  <2>2. ASSUME NEW a \in Flushers, FlusherStep(a) PROVE BatchingInv'
    BY <2>2, TakeBatchKeeps, HandsKeeps, EndFlushKeeps, StopInsideKeeps, EntryFailsKeeps, Zenon DEF FlusherStep
  <2> QED
    BY <2>1, <2>2, ReentersKeeps, StopInsideKeeps, RecordsKeeps, CallKeeps, Zenon DEF BatchingNext
<1> QED
  BY <1>1, <1>2, PTL DEF BatchingSpec, BatchingInv
=============================================================================
