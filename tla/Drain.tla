-------------------------------- MODULE Drain --------------------------------
(***************************************************************************)
(* One run of a component and the stops of it (internal/drain/drain.go).   *)
(* The count of admitted units and the closed bit share one atomic word,   *)
(* so each operation on them is one step; closing the idle channel is a    *)
(* step of its own, after the operation that found it due.  The count is   *)
(* modelled by the set of units it counts.  Stops arrive from outside,     *)
(* from inside an admitted unit, and from inside the drain itself.         *)
(***************************************************************************)
EXTENDS Naturals

CONSTANTS
    Units,   \* units of work: tasks, dispatches, pumps
    Stops,   \* calls of Owner.Stop
    Outside, \* a caller that is not the owner's work
    InDrain  \* a caller running in the drain's goroutine

ASSUME DrainAssumption ==
    /\ Outside \notin Units /\ InDrain \notin Units /\ Outside # InDrain
    /\ Units \cap Stops = {}

VARIABLES
    begun,    \* NewRun returned
    closed,   \* closedBit of Run.state
    counted,  \* the units Run.state counts
    spentUnits, \* units released; a unit is not admitted twice
    closers,  \* the callers that found the idle channel due and have yet to close it
    idle,     \* how often the idle channel was closed; a second time panics
    work,     \* the drain's goroutine: "none", "starting", "running" or "done"
    finished, \* the finished channel is closed
    panicked, \* the run's result is a panic of the drain's work
    forced,   \* Run.forced
    stopAt,   \* stopAt[s]: where stop s is
    from      \* from[s]: whose work called stop s

drainVars == <<begun, closed, counted, spentUnits, closers, idle, work, finished, panicked, forced, stopAt, from>>

Returned == {"result", "refused", "ctxErr"}

StopStates == {"uncalled", "called", "closing", "awaiting", "expired"} \cup Returned

DrainInit ==
    /\ begun = FALSE /\ closed = FALSE /\ counted = {} /\ spentUnits = {}
    /\ closers = {} /\ idle = 0
    /\ work = "none" /\ finished = FALSE /\ panicked = FALSE /\ forced = FALSE
    /\ stopAt = [s \in Stops |-> "uncalled"]
    /\ from = [s \in Stops |-> Outside]

NewRun ==
    /\ ~begun /\ begun' = TRUE
    /\ UNCHANGED <<closed, counted, spentUnits, closers, idle, work, finished, panicked, forced, stopAt, from>>

-----------------------------------------------------------------------------
(* Admission *)

(* Bug: the load of the closed bit and the increment are not one CAS. *)
AdmitUnchecked(u) ==
    /\ begun /\ u \notin counted \cup spentUnits
    /\ counted' = counted \cup {u}
    /\ UNCHANGED <<begun, closed, spentUnits, closers, idle, work, finished, panicked, forced, stopAt, from>>

(* Admit: the CAS that succeeds saw the closed bit unset. *)
Admit(u) ==
    /\ begun /\ u \notin counted \cup spentUnits /\ ~closed
    /\ counted' = counted \cup {u}
    /\ UNCHANGED <<begun, closed, spentUnits, closers, idle, work, finished, panicked, forced, stopAt, from>>

(* Join: counted by unit v on behalf of u, closed or not. *)
Join(v, u) ==
    /\ v \in counted /\ u \notin counted \cup spentUnits
    /\ counted' = counted \cup {u}
    /\ UNCHANGED <<begun, closed, spentUnits, closers, idle, work, finished, panicked, forced, stopAt, from>>

(* A unit that waits in a Stop it called does not go on. *)
Busy(x) == \E s \in Stops : from[s] = x /\ stopAt[s] \notin Returned \cup {"uncalled"}

(* Release: the last unit out after Close owes the close of idle. *)
Release(u) ==
    /\ u \in counted /\ ~Busy(u)
    /\ counted' = counted \ {u} /\ spentUnits' = spentUnits \cup {u}
    /\ closers' = IF closed /\ counted' = {} THEN closers \cup {u} ELSE closers
    /\ UNCHANGED <<begun, closed, idle, work, finished, panicked, forced, stopAt, from>>

CloseIdle(x) ==
    /\ x \in closers
    /\ closers' = closers \ {x} /\ idle' = idle + 1
    /\ UNCHANGED <<begun, closed, counted, spentUnits, work, finished, panicked, forced, stopAt, from>>

-----------------------------------------------------------------------------
(* Stopping *)

CallStop(s, x) ==
    /\ begun /\ stopAt[s] = "uncalled" /\ (x = Outside \/ ~Busy(x))
    /\ x \in counted \cup {Outside} \cup (IF work = "running" THEN {InDrain} ELSE {})
    /\ stopAt' = [stopAt EXCEPT ![s] = "called"]
    /\ from' = [from EXCEPT ![s] = x]
    /\ UNCHANGED <<begun, closed, counted, spentUnits, closers, idle, work, finished, panicked, forced>>

(* Bug: a stop from the owner's own work waits like any other. *)
EnterStopNestedWaits(s) ==
    /\ stopAt[s] = "called"
    /\ stopAt' = [stopAt EXCEPT ![s] = "closing"]
    /\ UNCHANGED <<begun, closed, counted, spentUnits, closers, idle, work, finished, panicked, forced, from>>

(* Owner.Stop: a nested stop gets the result if there is one, and is       *)
(* refused otherwise.                                                      *)
EnterStop(s) ==
    /\ stopAt[s] = "called"
    /\ stopAt' = [stopAt EXCEPT ![s] =
                    IF from[s] = Outside THEN "closing"
                    ELSE IF finished THEN "result" ELSE "refused"]
    /\ UNCHANGED <<begun, closed, counted, spentUnits, closers, idle, work, finished, panicked, forced, from>>

(* Signal: the one Close that set the bit owns the drain; on an empty run  *)
(* it also owes the close of idle, before it starts the drain.             *)
Close(s) ==
    /\ stopAt[s] = "closing"
    /\ closed' = TRUE
    /\ closers' = IF ~closed /\ counted = {} THEN closers \cup {s} ELSE closers
    /\ work' = IF closed THEN work ELSE "starting"
    /\ stopAt' = [stopAt EXCEPT ![s] = "awaiting"]
    /\ UNCHANGED <<begun, counted, spentUnits, idle, finished, panicked, forced, from>>

StartDrain ==
    /\ work = "starting" /\ closers \cap Stops = {}
    /\ work' = "running"
    /\ UNCHANGED <<begun, closed, counted, spentUnits, closers, idle, finished, panicked, forced, stopAt, from>>

(* The drain waits for Idle and publishes its result; a nil work, for a    *)
(* run that admits nothing, finds it closed.                               *)
Finish ==
    /\ work = "running" /\ ~Busy(InDrain) /\ idle > 0
    /\ work' = "done" /\ finished' = TRUE
    /\ UNCHANGED <<begun, closed, counted, spentUnits, closers, idle, panicked, forced, stopAt, from>>

(* runContained: a panic of the work, before Idle or after it, is the      *)
(* run's result.                                                           *)
WorkPanics ==
    /\ work = "running" /\ ~Busy(InDrain)
    /\ work' = "done" /\ finished' = TRUE /\ panicked' = TRUE
    /\ UNCHANGED <<begun, closed, counted, spentUnits, closers, idle, forced, stopAt, from>>

AwaitResult(s) ==
    /\ stopAt[s] = "awaiting" /\ s \notin closers /\ finished
    /\ stopAt' = [stopAt EXCEPT ![s] = "result"]
    /\ UNCHANGED <<begun, closed, counted, spentUnits, closers, idle, work, finished, panicked, forced, from>>

CtxEnds(s) ==
    /\ stopAt[s] = "awaiting" /\ s \notin closers
    /\ stopAt' = [stopAt EXCEPT ![s] = "expired"]
    /\ UNCHANGED <<begun, closed, counted, spentUnits, closers, idle, work, finished, panicked, forced, from>>

(* Await at ctx: the result if it came meanwhile, else force once. *)
GiveUpWaiting(s) ==
    /\ stopAt[s] = "expired"
    /\ stopAt' = [stopAt EXCEPT ![s] = IF finished THEN "result" ELSE "ctxErr"]
    /\ forced' = (forced \/ ~finished)
    /\ UNCHANGED <<begun, closed, counted, spentUnits, closers, idle, work, finished, panicked, from>>

DrainNext ==
    \/ NewRun
    \/ \E u \in Units : Admit(u) \/ Release(u) \/ \E v \in Units : Join(v, u)
    \/ \E x \in closers : CloseIdle(x)
    \/ \E s \in Stops, x \in Units \cup {Outside, InDrain} : CallStop(s, x)
    \/ \E s \in Stops : EnterStop(s) \/ Close(s) \/ AwaitResult(s) \/ CtxEnds(s) \/ GiveUpWaiting(s)
    \/ StartDrain \/ Finish \/ WorkPanics

DrainSpec == DrainInit /\ [][DrainNext]_drainVars

(* Units come to an end, goroutines are scheduled, and Stop's caller       *)
(* returns; no context ever has to end.                                    *)
DrainFairness ==
    /\ \A u \in Units : WF_drainVars(Release(u))
    /\ WF_drainVars(\E x \in closers : CloseIdle(x))
    /\ WF_drainVars(StartDrain) /\ WF_drainVars(Finish)
    /\ \A s \in Stops : WF_drainVars(EnterStop(s) \/ Close(s) \/ AwaitResult(s) \/ GiveUpWaiting(s))

DrainLiveSpec == DrainSpec /\ DrainFairness

-----------------------------------------------------------------------------
(* Properties *)

(* Each stop is where the state of the run says it can be. *)
DrainTypeOK ==
    /\ begun \in BOOLEAN /\ closed \in BOOLEAN /\ finished \in BOOLEAN /\ panicked \in BOOLEAN /\ forced \in BOOLEAN
    /\ counted \subseteq Units /\ spentUnits \subseteq Units
    /\ closers \subseteq Units \cup Stops
    /\ idle \in Nat
    /\ work \in {"none", "starting", "running", "done"}
    /\ stopAt \in [Stops -> StopStates]
    /\ from \in [Stops -> Units \cup {Outside, InDrain}]

(* The idle channel is closed once at most (a second close would panic):   *)
(* Release and Close race for it, and the atomic word picks one of them.   *)
(* Once it is closed, or due, no unit is counted and admission is closed.  *)
IdleClosedOnce ==
    IF closed /\ counted = {}
    THEN \/ idle = 1 /\ closers = {}
         \/ idle = 0 /\ \E x \in Units \cup Stops : closers = {x}
    ELSE idle = 0 /\ closers = {}

(* "a nil return means they all finished" (Relay.Stop): a stop that got    *)
(* the run's result returns to a run with no unit left, unless the result  *)
(* is a panic of the drain, and the run is forced only by a stop whose     *)
(* context ended.                                                          *)
ResultMeansDrained ==
    /\ \A s \in Stops : stopAt[s] = "result" => finished /\ (panicked \/ counted = {})
    /\ forced => \E s \in Stops : stopAt[s] = "ctxErr"

(* The run of RunLifecycle that this one implements; a run whose drain     *)
(* panicked is one that never finishes.                                    *)
RunPhase ==
    IF ~begun THEN "none"
    ELSE IF finished /\ ~panicked THEN "finished"
    ELSE IF closed THEN "draining" ELSE "running"

Lifecycle == INSTANCE RunLifecycle WITH phase <- RunPhase, held <- counted

(* The atomic word, the two channels and the drain's goroutine implement   *)
(* the promise of a run (drain.Run): units start only before the stop, and *)
(* the run finishes only after the last of them.                           *)
KeepsLifecycle == Lifecycle!LifecycleSpec

(* Every call of Stop returns, without any context ending: one from inside *)
(* the work it would wait for is refused, the others wait for a drain that *)
(* comes to an end (Owner.Stop).                                           *)
StopsReturn == \A s \in Stops : stopAt[s] = "called" ~> stopAt[s] \in Returned
=============================================================================
