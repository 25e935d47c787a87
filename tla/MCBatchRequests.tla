--------------------------- MODULE MCBatchRequests ---------------------------
(* Small instances of Batch, with pushes that report what they did and with *)
(* pushes that may take effect and report an error, so that outcomes        *)
(* outnumber slots; of the session store, of a request's commit listeners   *)
(* and of the keyed event timers.  A behaviour is one of the part named by  *)
(* subject; the variables of the other parts keep their initial values.     *)
EXTENDS Batch, SessionRecords, CommitListeners, KeyedTimers, TLC

CONSTANTS j1, j2

(* The two instances and the two event names are alike, and so are j1 and   *)
(* j2; as one part moves at a time they may be swapped together.            *)
Other(S) == [x \in S |-> CHOOSE y \in S : y # x]

Others == Other(Instances) @@ Other(EventNames) @@ Other({j1, j2})

Symmetric == {[x \in DOMAIN Others |-> IF swap THEN Others[x] ELSE x] : swap \in BOOLEAN}

VARIABLE subject

Ambiguous == INSTANCE Batch WITH Jobs <- {j1, j2}, Named <- {"finally"}, AllowFailures <- TRUE,
                                 Timeouts <- FALSE, ReadsFail <- TRUE, PushCommits <- TRUE, MaxFaults <- 1

CertainMoves ==
    subject = "certain" /\ Next /\ UNCHANGED <<subject, recordVars, commitVars, timerVars>>
AmbiguousMoves ==
    subject = "ambiguous" /\ Ambiguous!Next /\ UNCHANGED <<subject, recordVars, commitVars, timerVars>>
RecordMoves ==
    subject = "records" /\ RecordsNext /\ UNCHANGED <<subject, vars, commitVars, timerVars>>
CommitMoves ==
    subject = "commit" /\ CommitNext /\ UNCHANGED <<subject, vars, recordVars, timerVars>>
TimerMoves ==
    subject = "timers" /\ TimersNext /\ UNCHANGED <<subject, vars, recordVars, commitVars>>

BatchRequestsInit ==
    /\ subject \in {"certain", "ambiguous", "records", "commit", "timers"}
    /\ (IF subject = "ambiguous" THEN Ambiguous!Init ELSE Init)
    /\ CommitInit /\ TimersInit
    /\ RecordsInit /\ (subject # "records" => idx = {})

BatchRequestsNext == CertainMoves \/ AmbiguousMoves \/ RecordMoves \/ CommitMoves \/ TimerMoves

BatchRequestsSpec ==
    BatchRequestsInit /\ [][BatchRequestsNext]_<<subject, vars, recordVars, commitVars, timerVars>>

(* With pushes that report what they did, no job of a finished batch is     *)
(* still to be delivered, running, or waiting for its outcome to be counted *)
(* (Batch.Finished, recordOutcome, Dispatch).                               *)
CertainlyProcessed == subject = "certain" => FinishedMeansProcessed
=============================================================================
