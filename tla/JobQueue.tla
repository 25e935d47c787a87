------------------------------ MODULE JobQueue ------------------------------
(***************************************************************************)
(* What a queue driver with leases promises (queue.ReservationDriver): a   *)
(* job that was pushed is in one place at a time, and leaves the queue by  *)
(* an acknowledgement, by a recorded failure, or by Clear.                 *)
(***************************************************************************)
EXTENDS FiniteSets

VARIABLES
    ready,   \* jobs a pop may take
    waiting, \* jobs with a delay or a back-off to sit out
    leased,  \* jobs handed to a worker
    settled  \* jobs acknowledged or recorded as failed

jobVars == <<ready, waiting, leased, settled>>

JobInit == ready = {} /\ waiting = {} /\ leased = {} /\ settled = {}

Known == ready \cup waiting \cup leased \cup settled

PushJob ==
    /\ leased' = leased /\ settled' = settled
    /\ \/ waiting' = waiting /\ \E j \in ready' \ Known : ready' = ready \cup {j}
       \/ ready' = ready /\ \E j \in waiting' \ Known : waiting' = waiting \cup {j}

(* Delays end, of one job or of several at a time. *)
Promote ==
    /\ waiting' \subseteq waiting /\ ready' = ready \cup (waiting \ waiting')
    /\ leased' = leased /\ settled' = settled

Lease ==
    /\ waiting' = waiting /\ settled' = settled
    /\ \E j \in ready : ready' = ready \ {j} /\ leased' = leased \cup {j}

ReleaseJob ==
    /\ ready' = ready /\ settled' = settled
    /\ \E j \in leased : leased' = leased \ {j} /\ waiting' = waiting \cup {j}

Settle ==
    /\ ready' = ready /\ waiting' = waiting
    /\ \E j \in leased : leased' = leased \ {j} /\ settled' = settled \cup {j}

ClearAll == ready' = {} /\ waiting' = {} /\ leased' = {} /\ settled' = settled

JobNext == PushJob \/ Promote \/ Lease \/ ReleaseJob \/ Settle \/ ClearAll

JobSpec == JobInit /\ [][JobNext]_jobVars
=============================================================================
