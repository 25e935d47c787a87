--------------------------- MODULE MCRequestsLive ---------------------------
(* Small instances, under fair scheduling, of a request under deadlines and *)
(* of the batching event dispatcher.  A behaviour is one of the part named  *)
(* by subject; the variables of the other part keep their initial values.   *)
EXTENDS RequestTimeout, EventBatching

VARIABLE subject

RequestMoves == subject = "request" /\ TimeoutNext /\ UNCHANGED <<subject, batchingVars>>
EventsMove   == subject = "events" /\ BatchingNext /\ UNCHANGED <<subject, timeoutVars>>

RequestsLiveInit == subject \in {"request", "events"} /\ TimeoutInit /\ BatchingInit

(* The fairness of the parts, for the part that moves. *)
RequestFair ==
    LET Works(A) == subject = "request" /\ A IN
    /\ WF_timeoutVars(Works(ServerStep))
    /\ \A l \in Layers : WF_timeoutVars(Works(LayerStep(l))) /\ WF_timeoutVars(Works(DeadlinePasses(l)))

EventsFair ==
    LET Works(A) == subject = "events" /\ A IN
    /\ \A c \in Callers : WF_batchingVars(Works(FlusherStep(c)))
    /\ WF_batchingVars(Works(FlushLoopStep)) /\ SF_batchingVars(Works(SeesStop))

RequestsLiveSpec ==
    /\ RequestsLiveInit
    /\ [][RequestMoves \/ EventsMove]_<<subject, timeoutVars, batchingVars>>
    /\ RequestFair /\ EventsFair
=============================================================================
