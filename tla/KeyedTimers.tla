----------------------------- MODULE KeyedTimers -----------------------------
(***************************************************************************)
(* The timers under the debouncing and the coalescing event dispatcher     *)
(* (events/keyed_timers.go and the two dispatchers of events/batching.go). *)
(* A timer that fires runs on a goroutine of its own, so its claim races   *)
(* the schedule that replaces it, DispatchNow and Stop.  An event is named *)
(* by the generation its schedule took.                                    *)
(***************************************************************************)
EXTENDS Naturals

CONSTANTS
    EventNames,   \* keys of the timers
    MaxSchedules  \* bound: schedules, hence generations

ASSUME SchedulesAssumption == MaxSchedules \in Nat

VARIABLES
    gen,        \* the generation taken last
    pendingEv,  \* the generation of each name's pending delivery, 0 when it has none
    timers,     \* timers that are armed, or fired and yet to claim
    claims,     \* deliveries taken: the timer's generation and the event's
    dropped     \* generations replaced, cancelled or stopped before a claim

timerVars == <<gen, pendingEv, timers, claims, dropped>>

TimersInit ==
    /\ gen = 0 /\ pendingEv = [n \in EventNames |-> 0]
    /\ timers = {} /\ claims = {} /\ dropped = {}

(* timer.Stop: an armed timer is gone, one that fired keeps its goroutine. *)
StopTimers(ts, names) == {t \in ts : t.name \in names => t.fired}

(* Generations of the pending deliveries of the names. *)
PendingGens(names) == {pendingEv[n] : n \in names} \ {0}

(* schedule: the name's pending delivery is replaced. *)
Schedule(n) ==
    /\ gen < MaxSchedules /\ gen' = gen + 1
    /\ dropped' = dropped \union PendingGens({n})
    /\ pendingEv' = [pendingEv EXCEPT ![n] = gen + 1]
    /\ timers' = StopTimers(timers, {n}) \union {[name |-> n, gen |-> gen + 1, fired |-> FALSE]}
    /\ UNCHANGED claims

(* The window of an armed timer is over. *)
Fires(t) ==
    /\ t \in timers /\ ~t.fired
    /\ timers' = (timers \ {t}) \union {[t EXCEPT !.fired = TRUE]}
    /\ UNCHANGED <<gen, pendingEv, claims, dropped>>

(* Bug: a timer takes whatever its name has pending. *)
ClaimAny(t) ==
    /\ t \in timers /\ t.fired /\ timers' = timers \ {t}
    /\ IF pendingEv[t.name] # 0
       THEN /\ claims' = claims \union {[timer |-> t.gen, gen |-> pendingEv[t.name]]}
            /\ pendingEv' = [pendingEv EXCEPT ![t.name] = 0]
       ELSE UNCHANGED <<claims, pendingEv>>
    /\ UNCHANGED <<gen, dropped>>

(* claim: a timer takes the delivery that still carries its generation, and *)
(* its event goes to the listeners with the lock released.                  *)
Claim(t) ==
    /\ t \in timers /\ t.fired /\ timers' = timers \ {t}
    /\ IF pendingEv[t.name] = t.gen
       THEN /\ claims' = claims \union {[timer |-> t.gen, gen |-> pendingEv[t.name]]}
            /\ pendingEv' = [pendingEv EXCEPT ![t.name] = 0]
       ELSE UNCHANGED <<claims, pendingEv>>
    /\ UNCHANGED <<gen, dropped>>

(* cancel (DispatchNow) of one name and stopAll (Stop) of them all. *)
CancelTimers(names) ==
    /\ PendingGens(names) # {}
    /\ dropped' = dropped \union PendingGens(names)
    /\ pendingEv' = [n \in EventNames |-> IF n \in names THEN 0 ELSE pendingEv[n]]
    /\ timers' = StopTimers(timers, names)
    /\ UNCHANGED <<gen, claims>>

DispatchNow(n) == CancelTimers({n})
StopAll == CancelTimers(EventNames)

TimersNext ==
    \/ \E n \in EventNames : Schedule(n) \/ DispatchNow(n)
    \/ \E t \in timers : Fires(t) \/ Claim(t)
    \/ StopAll

TimersSpec == TimersInit /\ [][TimersNext]_timerVars

-----------------------------------------------------------------------------
(* A timer delivers only the event it was armed for, never one that was     *)
(* replaced, cancelled or stopped first, and no event twice: the            *)
(* replacement keeps its full window.  Every schedule is pending, delivered *)
(* or dropped (schedule, claim, cancel, stopAll).                           *)
OwnDeliveryOnly ==
    LET taken == {c.gen : c \in claims} pend == PendingGens(EventNames) IN
    /\ \A c \in claims : c.gen = c.timer
    /\ \A t \in timers : t.gen \notin taken
    /\ taken \intersect dropped = {} /\ pend \intersect (taken \union dropped) = {}
    /\ taken \union dropped \union pend = 1..gen
=============================================================================
