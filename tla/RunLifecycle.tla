---------------------------- MODULE RunLifecycle ----------------------------
(***************************************************************************)
(* What a component that runs work promises about one run of it (the       *)
(* comments on drain.Owner and drain.Run): a run admits units of work      *)
(* while it is running, a stop closes admission, the run finishes only     *)
(* when every unit was released, and the next run begins only after that,  *)
(* so two runs never overlap.  Drain implements it with an atomic count    *)
(* and channels; the outbox relay and the scheduler use it.                *)
(***************************************************************************)

VARIABLES
    phase,  \* "none", "running", "draining" or "finished"
    held    \* the admitted units not yet released

LifecycleInit == phase = "none" /\ held = {}

(* A run begins, its first units already admitted. *)
Begin == phase \in {"none", "finished"} /\ held = {} /\ phase' = "running"

AdmitUnit ==
    /\ phase = "running" /\ phase' = phase
    /\ \E u \in held' : u \notin held /\ held' = held \cup {u}

(* A unit that is held starts another one, stopping or not. *)
JoinUnit ==
    /\ held # {} /\ phase \in {"running", "draining"} /\ phase' = phase
    /\ \E u \in held' : u \notin held /\ held' = held \cup {u}

ReleaseUnit ==
    /\ phase \in {"running", "draining"} /\ phase' = phase
    /\ \E u \in held : held' = held \ {u}

CloseAdmission == phase = "running" /\ phase' = "draining" /\ held' = held

FinishRun == phase = "draining" /\ held = {} /\ phase' = "finished" /\ held' = held

(* The process dies with its runs; a new one takes its place. *)
Vanish == phase' = "none" /\ held' = {}

LifecycleNext ==
    \/ Begin \/ AdmitUnit \/ JoinUnit \/ ReleaseUnit
    \/ CloseAdmission \/ FinishRun \/ Vanish

LifecycleSpec == LifecycleInit /\ [][LifecycleNext]_<<phase, held>>
=============================================================================
