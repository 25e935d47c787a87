------------------------------ MODULE Scheduler ------------------------------
(***************************************************************************)
(* Schedulers on several hosts contesting one job through a shared Locker  *)
(* (scheduler/scheduler.go, scheduler/job.go, scheduler/lock.go and        *)
(* scheduler_cache_locker.go).  Each host runs a loop of ticks; a tick     *)
(* reads the clock once, decides whether the job is due, takes the         *)
(* minute's OnOneServer lock and the WithoutOverlapping lock, and hands    *)
(* the job to a goroutine.  Instants count minutes of absolute time; the   *)
(* wall clock falls back once, so some wall minutes come twice.  A task is *)
(* named by its host, the process of that host and the instant of its      *)
(* tick.                                                                   *)
(***************************************************************************)
EXTENDS Integers, FiniteSets

CONSTANTS
    Hosts,
    MaxInstant,   \* bound: the last instant
    FallBackAt,   \* the instant at which the wall clock is set back
    Repeat,       \* by how many minutes
    DueMinutes,   \* the wall minutes the job's cron expression matches
    OneServerTTL, OverlapTTL, \* in minutes
    OneServer, NoOverlap,     \* the job's flags
    MaxCrashes,   \* bound: process crashes per host
    MaxErrors,    \* bound: Locker calls that fail
    MaxStops      \* bound: Shutdowns and contexts that end

ASSUME SchedulerAssumption ==
    /\ MaxInstant \in Nat /\ FallBackAt \in Nat /\ Repeat \in 0..FallBackAt
    /\ OneServerTTL \in Nat \ {0} /\ OverlapTTL \in Nat \ {0}
    /\ OneServer \in BOOLEAN /\ NoOverlap \in BOOLEAN
    /\ MaxCrashes \in Nat /\ MaxErrors \in Nat /\ MaxStops \in Nat

VARIABLES
    instant,
    process,    \* process[h]: how often host h's process crashed
    running, started, terminated, \* the Scheduler's flags
    schedPhase, \* the phase of s.run: "none", "running", "draining", "finished"
    loopAt,     \* where the run's loop is: idle, or at a step of a tick
    tickNow,    \* the instant its tick read
    lastFired,  \* Job.lastFiredWallMinute; -1 when empty
    jobRunning, \* Job.running
    task,       \* task[t]: where task t is
    slotLock,   \* slotLock[w]: the OnOneServer lock of wall minute w
    overlapLock,\* the WithoutOverlapping lock
    slotAt, overlapAt, \* when a task took each lock; -1 when it did not
    lockErrors, stops

processVars == <<process, running, started, terminated, schedPhase, stops>>
lockVars == <<slotLock, overlapLock, slotAt, overlapAt, lockErrors>>
schedVars == <<instant, processVars, loopAt, tickNow, lastFired, jobRunning, task, lockVars>>

Instants == 0..MaxInstant

Wall(i) == IF i < FallBackAt THEN i ELSE i - Repeat

Tasks == Hosts \X (0..MaxCrashes) \X Instants

TickTask(h) == <<h, process[h], tickNow[h]>>

(* A task is "done" once it was released or its process died. *)
TaskStates == {"none", "joined", "dispatched", "running", "releasing", "done"}

Live == {"joined", "dispatched", "running", "releasing"}

Ticking == {"due", "slot", "overlap", "after"}

Free == [owner |-> <<>>, until |-> 0]

SchedInit ==
    /\ instant = 0
    /\ process = [h \in Hosts |-> 0]
    /\ running = [h \in Hosts |-> FALSE]
    /\ started = [h \in Hosts |-> FALSE]
    /\ terminated = [h \in Hosts |-> FALSE]
    /\ schedPhase = [h \in Hosts |-> "none"]
    /\ loopAt = [h \in Hosts |-> "idle"]
    /\ tickNow = [h \in Hosts |-> 0]
    /\ lastFired = [h \in Hosts |-> -1]
    /\ jobRunning = [h \in Hosts |-> FALSE]
    /\ task = [t \in Tasks |-> "none"]
    /\ slotLock = [w \in {Wall(i) : i \in Instants} |-> Free]
    /\ overlapLock = Free
    /\ slotAt = [t \in Tasks |-> -1]
    /\ overlapAt = [t \in Tasks |-> -1]
    /\ lockErrors = 0 /\ stops = 0

-----------------------------------------------------------------------------
(* The Locker *)

(* An expired lock is as good as none. *)
Expire(lock, i) == IF lock.until > i THEN lock ELSE Free

Held(t, ttl) == [owner |-> t, until |-> instant + ttl]

(* Bug: the owner of the lock is not compared. *)
ReleasedBlind(lock, t) == Free

(* Release drops the lock only while this acquisition still owns it. *)
Released(lock, t) == IF lock.owner = t THEN Free ELSE lock

(* A call that fails with a backend error or a panic. *)
LockerDown == lockErrors < MaxErrors /\ lockErrors' = lockErrors + 1

(* Acquire runs under the run's context too; Release does not. *)
AcquireFails(h) ==
    \/ LockerDown
    \/ schedPhase[h] = "draining" /\ UNCHANGED lockErrors

-----------------------------------------------------------------------------
(* The tick *)

(* The run's loop ticks at once and then on its ticker.  A run that is     *)
(* stopping admits no tick; a stopped loop may still be in its select.     *)
TickStarts(h) ==
    /\ loopAt[h] = "idle" /\ schedPhase[h] = "running"
    /\ loopAt' = [loopAt EXCEPT ![h] = "due"]
    /\ tickNow' = [tickNow EXCEPT ![h] = instant]
    /\ UNCHANGED <<instant, processVars, lastFired, jobRunning, task, lockVars>>

AlreadyFiredAt(h, i) == lastFired[h] = Wall(i)

(* The job is not due, its conditions say no, or the minute was fired. *)
NotDue(h) ==
    /\ loopAt[h] = "due"
    /\ loopAt' = [loopAt EXCEPT ![h] = "after"]
    /\ UNCHANGED <<instant, processVars, tickNow, lastFired, jobRunning, task, lockVars>>

(* The job is due and may run: its minute is marked, and unless it is held *)
(* back by maintenance mode it joins the run.                              *)
Fire(h) ==
    /\ loopAt[h] = "due" /\ Wall(tickNow[h]) \in DueMinutes
    /\ ~(NoOverlap /\ jobRunning[h])
    /\ ~AlreadyFiredAt(h, tickNow[h])
    /\ lastFired' = [lastFired EXCEPT ![h] = Wall(tickNow[h])]
    /\ \/ loopAt' = [loopAt EXCEPT ![h] = "after"] /\ UNCHANGED task
       \/ /\ loopAt' = [loopAt EXCEPT ![h] = "slot"]
          /\ task' = [task EXCEPT ![TickTask(h)] = "joined"]
    /\ UNCHANGED <<instant, processVars, tickNow, jobRunning, lockVars>>

(* A failed acquire skips the job: skipAfterAcquireFailure. *)
Skip(h) ==
    /\ task' = [task EXCEPT ![TickTask(h)] = "none"]
    /\ slotAt' = [slotAt EXCEPT ![TickTask(h)] = -1]
    /\ loopAt' = [loopAt EXCEPT ![h] = "after"]

AcquireSlot(h) ==
    LET t == TickTask(h)  w == Wall(tickNow[h]) IN
    /\ loopAt[h] = "slot"
    /\ \/ /\ ~OneServer
          /\ loopAt' = [loopAt EXCEPT ![h] = "overlap"]
          /\ UNCHANGED <<task, slotLock, slotAt, lockErrors>>
       \/ /\ OneServer /\ slotLock[w] = Free
          /\ slotLock' = [slotLock EXCEPT ![w] = Held(t, OneServerTTL)]
          /\ slotAt' = [slotAt EXCEPT ![t] = instant]
          /\ loopAt' = [loopAt EXCEPT ![h] = "overlap"]
          /\ UNCHANGED <<task, lockErrors>>
       \/ /\ OneServer /\ slotLock[w] # Free /\ Skip(h)
          /\ UNCHANGED <<slotLock, lockErrors>>
       \/ /\ OneServer /\ AcquireFails(h) /\ Skip(h)
          /\ slotLock' \in {slotLock} \cup
               (IF slotLock[w] = Free
                THEN {[slotLock EXCEPT ![w] = Held(t, OneServerTTL)]} ELSE {})
    /\ UNCHANGED <<instant, processVars, tickNow, lastFired, jobRunning, overlapLock, overlapAt>>

(* The slot goes back to the cluster when the job does not start here. *)
GiveSlotBack(h) ==
    LET w == Wall(tickNow[h]) IN
    slotLock' = [slotLock EXCEPT ![w] = Released(slotLock[w], TickTask(h))]

Dispatch(h) ==
    /\ task' = [task EXCEPT ![TickTask(h)] = "dispatched"]
    /\ loopAt' = [loopAt EXCEPT ![h] = "after"]
    /\ UNCHANGED <<slotLock, slotAt>>

AcquireOverlap(h) ==
    LET t == TickTask(h) IN
    /\ loopAt[h] = "overlap"
    /\ \/ ~NoOverlap /\ Dispatch(h) /\ UNCHANGED <<overlapLock, overlapAt, lockErrors>>
       \/ /\ NoOverlap /\ overlapLock = Free /\ Dispatch(h)
          /\ overlapLock' = Held(t, OverlapTTL)
          /\ overlapAt' = [overlapAt EXCEPT ![t] = instant]
          /\ UNCHANGED lockErrors
       \/ /\ NoOverlap /\ overlapLock # Free /\ Skip(h)
          /\ \/ GiveSlotBack(h) /\ UNCHANGED lockErrors
             \/ LockerDown /\ UNCHANGED slotLock
          /\ UNCHANGED <<overlapLock, overlapAt>>
       \/ /\ NoOverlap /\ AcquireFails(h) /\ Skip(h)
          /\ GiveSlotBack(h) \/ UNCHANGED slotLock
          /\ overlapLock' \in {overlapLock} \cup
               (IF overlapLock = Free THEN {Held(t, OverlapTTL)} ELSE {})
          /\ UNCHANGED overlapAt
    /\ UNCHANGED <<instant, processVars, tickNow, lastFired, jobRunning>>

TickEnds(h) ==
    /\ loopAt[h] = "after"
    /\ loopAt' = [loopAt EXCEPT ![h] = "idle"]
    /\ tickNow' = [tickNow EXCEPT ![h] = 0]
    /\ UNCHANGED <<instant, processVars, lastFired, jobRunning, task, lockVars>>

-----------------------------------------------------------------------------
(* A task *)

(* The goroutine enters runInternal, or finds the job running, or panics   *)
(* before it gets there.                                                   *)
StartTask(t) ==
    LET h == t[1] IN
    /\ task[t] = "dispatched"
    /\ \/ /\ ~(NoOverlap /\ jobRunning[h])
          /\ task' = [task EXCEPT ![t] = "running"]
          /\ jobRunning' = [jobRunning EXCEPT ![h] = TRUE]
       \/ task' = [task EXCEPT ![t] = "releasing"] /\ UNCHANGED jobRunning
    /\ UNCHANGED <<instant, processVars, loopAt, tickNow, lastFired, lockVars>>

(* The job's callback or command ended, or its background process was     *)
(* reaped: the running flag goes down first.                               *)
EndTask(t) ==
    /\ task[t] = "running"
    /\ task' = [task EXCEPT ![t] = "releasing"]
    /\ jobRunning' = [jobRunning EXCEPT ![t[1]] = FALSE]
    /\ UNCHANGED <<instant, processVars, loopAt, tickNow, lastFired, lockVars>>

(* Bug: the minute's slot is released with the rest on completion. *)
ReleaseTaskAndSlot(t) ==
    /\ task[t] = "releasing"
    /\ task' = [task EXCEPT ![t] = "done"]
    /\ overlapLock' = Released(overlapLock, t)
    /\ slotLock' = [slotLock EXCEPT ![Wall(t[3])] = Released(slotLock[Wall(t[3])], t)]
    /\ UNCHANGED <<instant, processVars, loopAt, tickNow, lastFired, jobRunning,
                   slotAt, overlapAt, lockErrors>>

(* release: the overlap lock, unless the backend fails, and then the unit. *)
ReleaseTask(t) ==
    /\ task[t] = "releasing"
    /\ task' = [task EXCEPT ![t] = "done"]
    /\ \/ overlapLock' = Released(overlapLock, t) /\ UNCHANGED lockErrors
       \/ NoOverlap /\ LockerDown /\ UNCHANGED overlapLock
    /\ UNCHANGED <<instant, processVars, loopAt, tickNow, lastFired, jobRunning,
                   slotLock, slotAt, overlapAt>>

-----------------------------------------------------------------------------
(* Runs *)

HostUnits(h) ==
    {t \in Tasks : t[1] = h /\ task[t] \in Live}
      \cup (IF loopAt[h] \in Ticking THEN {<<h>>} ELSE {})

(* Run, once a previous run has drained.  The loop of that run may still   *)
(* sit in its select, where it can do nothing any more.                    *)
Run(h) ==
    /\ ~running[h] /\ ~terminated[h] /\ schedPhase[h] \in {"none", "finished"}
    /\ running' = [running EXCEPT ![h] = TRUE]
    /\ started' = [started EXCEPT ![h] = TRUE]
    /\ schedPhase' = [schedPhase EXCEPT ![h] = "running"]
    /\ UNCHANGED <<instant, process, terminated, stops, loopAt, tickNow, lastFired, jobRunning, task, lockVars>>

(* Shutdown of a scheduler that never ran keeps a late Run from starting. *)
ShutdownEarly(h) ==
    /\ stops < MaxStops /\ stops' = stops + 1
    /\ ~running[h] /\ ~started[h] /\ ~terminated[h]
    /\ terminated' = [terminated EXCEPT ![h] = TRUE]
    /\ UNCHANGED <<instant, process, running, started, schedPhase, loopAt, tickNow, lastFired,
                   jobRunning, task, lockVars>>

(* stopRun, called by Shutdown or by the loop whose context ended. *)
StopLoop(h) ==
    /\ stops < MaxStops /\ stops' = stops + 1
    /\ running[h]
    /\ running' = [running EXCEPT ![h] = FALSE]
    /\ UNCHANGED <<instant, process, started, terminated, schedPhase, loopAt, tickNow, lastFired,
                   jobRunning, task, lockVars>>

(* drain.Owner.Stop closes admission; the drain cancels the run's context. *)
CloseRun(h) ==
    /\ ~running[h] /\ schedPhase[h] = "running"
    /\ schedPhase' = [schedPhase EXCEPT ![h] = "draining"]
    /\ UNCHANGED <<instant, process, running, started, terminated, stops, loopAt, tickNow, lastFired,
                   jobRunning, task, lockVars>>

RunFinishes(h) ==
    /\ schedPhase[h] = "draining" /\ HostUnits(h) = {}
    /\ schedPhase' = [schedPhase EXCEPT ![h] = "finished"]
    /\ UNCHANGED <<instant, process, running, started, terminated, stops, loopAt, tickNow, lastFired,
                   jobRunning, task, lockVars>>

-----------------------------------------------------------------------------
(* The environment *)

ClockTicks ==
    /\ instant < MaxInstant /\ instant' = instant + 1
    /\ slotLock' = [w \in DOMAIN slotLock |-> Expire(slotLock[w], instant')]
    /\ overlapLock' = Expire(overlapLock, instant')
    /\ UNCHANGED <<processVars, loopAt, tickNow, lastFired, jobRunning, task,
                   slotAt, overlapAt, lockErrors>>

(* The process of a host dies and a new one takes its place. *)
CrashHost(h) ==
    /\ process[h] < MaxCrashes
    /\ process' = [process EXCEPT ![h] = @ + 1]
    /\ running' = [running EXCEPT ![h] = FALSE]
    /\ started' = [started EXCEPT ![h] = FALSE]
    /\ terminated' = [terminated EXCEPT ![h] = FALSE]
    /\ schedPhase' = [schedPhase EXCEPT ![h] = "none"]
    /\ loopAt' = [loopAt EXCEPT ![h] = "idle"]
    /\ tickNow' = [tickNow EXCEPT ![h] = 0]
    /\ lastFired' = [lastFired EXCEPT ![h] = -1]
    /\ jobRunning' = [jobRunning EXCEPT ![h] = FALSE]
    /\ task' = [t \in Tasks |-> IF t[1] # h \/ task[t] \notin Live THEN task[t]
                             ELSE IF task[t] = "joined" THEN "none" ELSE "done"]
    /\ slotAt' = [t \in Tasks |-> IF t[1] = h /\ task[t] = "joined" THEN -1 ELSE slotAt[t]]
    /\ UNCHANGED <<instant, stops, slotLock, overlapLock, overlapAt, lockErrors>>

TickStep(h) == NotDue(h) \/ Fire(h) \/ AcquireSlot(h) \/ AcquireOverlap(h) \/ TickEnds(h)

TaskStep(t) == StartTask(t) \/ EndTask(t) \/ ReleaseTask(t)

SchedNext ==
    \/ ClockTicks
    \/ \E h \in Hosts :
         \/ TickStarts(h) \/ TickStep(h)
         \/ Run(h) \/ ShutdownEarly(h) \/ StopLoop(h) \/ CloseRun(h)
         \/ RunFinishes(h) \/ CrashHost(h)
    \/ \E t \in Tasks : TaskStep(t)

SchedSpec == SchedInit /\ [][SchedNext]_schedVars

(* Goroutines that were started go on, jobs end, and a stop that has begun *)
(* is carried out.  Nobody has to call Run or Shutdown.                    *)
SchedFairness ==
    /\ \A h \in Hosts :
         WF_schedVars(TickStep(h)) /\ WF_schedVars(CloseRun(h)) /\ WF_schedVars(RunFinishes(h))
    /\ \A t \in Tasks : WF_schedVars(TaskStep(t))

SchedLiveSpec == SchedSpec /\ SchedFairness

-----------------------------------------------------------------------------
(* Properties *)

(* The scheduler's flags, the tasks and the locks are well formed. *)
SchedTypeOK ==
    /\ instant \in Instants /\ lastFired \in [Hosts -> Instants \cup {-1}]
    /\ schedPhase \in [Hosts -> {"none", "running", "draining", "finished"}]
    /\ loopAt \in [Hosts -> {"idle"} \cup Ticking]
    /\ task \in [Tasks -> TaskStates]

(* The tasks handed to a goroutine. *)
Dispatched == {t \in Tasks : task[t] \in {"dispatched", "running", "releasing", "done"}}

Apart(at, a, b, ttl) == at[a] - at[b] >= ttl \/ at[b] - at[a] >= ttl

(* "exactly one host wins per minute for OnOneServer jobs" (tick), through *)
(* backend errors, returned slots, shutdowns, crashes and restarts: two    *)
(* tasks of one wall minute are dispatched only when the second took the   *)
(* slot a whole OneServerTTL after the first.                              *)
OneServerPerMinute ==
    OneServer =>
        \A a, b \in Dispatched :
            a # b /\ Wall(a[3]) = Wall(b[3]) => Apart(slotAt, a, b, OneServerTTL)

(* WithoutOverlapping: two runs of the job are under way at once only when *)
(* the lock of the first had expired before the second took it, although   *)
(* late runs release after others took the lock (inMemoryLock.Release).    *)
OverlapOnlyAfterExpiry ==
    NoOverlap =>
        \A a, b \in Tasks :
            a # b /\ task[a] = "running" /\ task[b] = "running"
              => Apart(overlapAt, a, b, OverlapTTL)

(* The running flag of a WithoutOverlapping job is up exactly while the    *)
(* job runs in the process: a flag left up would keep the job from ever    *)
(* running there again, one taken down early would let it overlap          *)
(* (runInternal, clearRunningFlag).                                        *)
FlagFollowsTask ==
    NoOverlap =>
        \A h \in Hosts :
            jobRunning[h] <=> \E t \in Tasks : t[1] = h /\ task[t] = "running"

(* The two guards of a WithoutOverlapping job, in the process and between  *)
(* hosts.                                                                  *)
OverlapGuarded == OverlapOnlyAfterExpiry /\ FlagFollowsTask

(* "the job fires exactly once per distinct local minute"                  *)
(* (lastFiredWallMinute): one process never dispatches the job twice for   *)
(* the same minute of the wall clock, although the minutes come again when *)
(* the clock is set back (alreadyFiredAt, markFired).                      *)
OncePerWallMinute ==
    \A a, b \in Dispatched :
        a # b /\ a[1] = b[1] /\ a[2] = b[2] => Wall(a[3]) # Wall(b[3])

SchedLife(h) == INSTANCE RunLifecycle WITH phase <- schedPhase[h], held <- HostUnits(h)

(* The scheduler's runs keep the promise of drain.Run: no tick and no task *)
(* starts after the stop closed the run, other than a task of a tick under *)
(* way, "nil always means its jobs have finished" (Shutdown), and a run    *)
(* begins only after the previous one drained.                             *)
SchedKeepsLifecycle ==
    /\ \A h \in Hosts : SchedLife(h)!LifecycleInit
    /\ [][\A h \in Hosts : [SchedLife(h)!LifecycleNext]_<<schedPhase[h], HostUnits(h)>>]_schedVars

(* A stop that has begun completes: neither a tick in the middle of its    *)
(* locks nor a task keeps a run from finishing (stopRun).                  *)
StopCompletes ==
    \A h \in Hosts :
        ~running[h] /\ schedPhase[h] = "running" ~> schedPhase[h] \in {"none", "finished"}
=============================================================================
