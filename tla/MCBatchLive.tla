---------------------------- MODULE MCBatchLive ----------------------------
(* Small instances of Batch under fair scheduling, without and with named   *)
(* callbacks, as subject says.                                              *)
EXTENDS Batch

CONSTANTS j1

VARIABLE subject

(* One job, every callback named; a crash or a failed call while they are   *)
(* delivered.                                                               *)
Called == INSTANCE Batch WITH Jobs <- {j1}, Named <- {"then", "catch", "finally"}, Timeouts <- FALSE,
                              ReadsFail <- FALSE, MaxFaults <- 1

BatchMoves == subject = "batch" /\ Next /\ UNCHANGED subject
CalledMoves == subject = "callbacks" /\ Called!Next /\ UNCHANGED subject

BatchLiveInit ==
    /\ subject \in {"batch", "callbacks"}
    /\ IF subject = "callbacks" THEN Called!Init ELSE Init

(* The fairness of Batch, for the instance that moves. *)
BatchFair ==
    /\ WF_vars(subject = "batch" /\ DispatchStep)
    /\ \A j \in Jobs : WF_vars(subject = "batch" /\ JobStep(j))
    /\ \A k \in Kinds : /\ WF_vars(subject = "batch" /\ PushCallback(k))
                        /\ WF_vars(subject = "batch" /\ MarkCallbackDispatched(k))
                        /\ WF_vars(subject = "batch" /\ ReaperTick(k))
                        /\ WF_vars(subject = "batch" /\ HandleCallback(k))

CalledFair ==
    /\ WF_vars(subject = "callbacks" /\ Called!DispatchStep)
    /\ WF_vars(subject = "callbacks" /\ Called!JobStep(j1))
    /\ \A k \in Kinds : /\ WF_vars(subject = "callbacks" /\ Called!PushCallback(k))
                        /\ WF_vars(subject = "callbacks" /\ Called!MarkCallbackDispatched(k))
                        /\ WF_vars(subject = "callbacks" /\ Called!ReaperTick(k))
                        /\ WF_vars(subject = "callbacks" /\ Called!HandleCallback(k))

BatchLiveSpec ==
    /\ BatchLiveInit /\ [][BatchMoves \/ CalledMoves]_<<subject, vars>>
    /\ BatchFair /\ CalledFair

(* Every named callback of a finished or failed batch reaches the queue, be *)
(* it the reaper that delivers it, unless the row is pruned                 *)
(* (fireTerminalCallbacks, ReaperTick).                                     *)
CallbacksArrive == subject = "callbacks" => Called!CallbacksDelivered
=============================================================================
