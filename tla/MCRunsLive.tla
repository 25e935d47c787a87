----------------------------- MODULE MCRunsLive -----------------------------
(* Small instances, under fair scheduling, of drain.Run, of two services    *)
(* built on it, the outbox relay and the scheduler, and of the WebSocket    *)
(* server's shutdown.  A behaviour is one of the part named by subject; the *)
(* variables of the other parts keep their initial values.                  *)
EXTENDS Drain, OutboxRelay, Scheduler, WebSocket

CONSTANTS keyed

(* Every row in one partition, or every row in none. *)
MCPartOf == [i \in RelayRows |-> IF i \in keyed THEN CHOOSE p \in Parts : TRUE ELSE NoPart]

VARIABLE subject

DrainMoves     == subject = "drain" /\ DrainNext /\ UNCHANGED <<subject, relayVars, schedVars, wsVars>>
RelayMoves     == subject = "outbox" /\ RelayNext /\ UNCHANGED <<subject, drainVars, schedVars, wsVars>>
SchedulerMoves == subject = "scheduler" /\ SchedNext /\ UNCHANGED <<subject, drainVars, relayVars, wsVars>>
WebSocketMoves == subject = "websocket" /\ WsNext /\ UNCHANGED <<subject, drainVars, relayVars, schedVars>>

RunsLiveInit ==
    /\ subject \in {"drain", "outbox", "scheduler", "websocket"}
    /\ DrainInit /\ RelayInit /\ SchedInit /\ WsInit

RunsLiveNext == DrainMoves \/ RelayMoves \/ SchedulerMoves \/ WebSocketMoves

(* The fairness of the parts, for the part that moves. *)
DrainFair ==
    LET Works(A) == subject = "drain" /\ A IN
    /\ \A u \in Units : WF_drainVars(Works(Release(u)))
    /\ WF_drainVars(Works(\E x \in closers : CloseIdle(x)))
    /\ WF_drainVars(Works(StartDrain)) /\ WF_drainVars(Works(Finish))
    /\ \A s \in Stops : WF_drainVars(Works(EnterStop(s) \/ Close(s) \/ AwaitResult(s) \/ GiveUpWaiting(s)))

RelayFair ==
    LET Works(A) == subject = "outbox" /\ A IN
    /\ \A r \in Relays :
         /\ WF_relayVars(Works(LoopStep(r))) /\ WF_relayVars(Works(WorkerStep(r)))
         /\ WF_relayVars(Works(StartRelay(r))) /\ WF_relayVars(Works(FinishRelay(r)))
         /\ WF_relayVars(Works(runPhase[r] = "draining" /\ EndLoop(r)))
         /\ WF_relayVars(Works(loopDone[r] /\ StopRelay(r)))
    /\ WF_relayVars(Works(RelayTick))

SchedulerFair ==
    LET Works(A) == subject = "scheduler" /\ A IN
    /\ \A h \in Hosts : /\ WF_schedVars(Works(TickStep(h))) /\ WF_schedVars(Works(CloseRun(h)))
                        /\ WF_schedVars(Works(RunFinishes(h)))
    /\ \A t \in Tasks : WF_schedVars(Works(TaskStep(t)))

WebSocketFair ==
    LET Works(A) == subject = "websocket" /\ A IN
    /\ \A c \in Sockets :
        /\ WF_wsVars(Works(SendRegister(c) \/ (conn[c] = "admitted" /\ Refuse(c))))
        /\ WF_wsVars(Works(StartPumps(c))) /\ WF_wsVars(Works(ReaderStep(c)))
        /\ WF_wsVars(Works(WriterStep(c))) /\ WF_wsVars(Works(Unpark(c)))
    /\ WF_wsVars(Works(HandleRegister)) /\ WF_wsVars(Works(HandleUnregister)) /\ WF_wsVars(Works(LoopCloses))
    /\ WF_wsVars(Works(HandleBroadcast)) /\ WF_wsVars(Works(SignalFanout)) /\ WF_wsVars(Works(LoopStops))
    /\ WF_wsVars(Works(FanWakes)) /\ SF_wsVars(Works(FanStops)) /\ WF_wsVars(Works(FanNext))
    /\ WF_wsVars(Works(Deliver)) /\ WF_wsVars(Works(CloseConnections))

RunsLiveSpec ==
    /\ RunsLiveInit
    /\ [][RunsLiveNext]_<<subject, drainVars, relayVars, schedVars, wsVars>>
    /\ DrainFair /\ RelayFair /\ SchedulerFair /\ WebSocketFair

(* The services that hold a drain.Run, the relay and the scheduler, keep    *)
(* its contract: no unit after the stop, none left behind, one run at a     *)
(* time (beginRun, drainRun, stopRun).                                      *)
UsersKeepLifecycle == RelayKeepsLifecycle /\ SchedKeepsLifecycle

(* A stop that has begun is carried out: of a drain.Run, of the scheduler,  *)
(* and of the WebSocket server with every goroutine of it; until then the   *)
(* server's broadcasts fan out.                                             *)
StopsComplete == StopsReturn /\ StopCompletes /\ ShutdownDrains /\ BroadcastsFanOut

(* A committed row is delivered or dead-lettered in the end, and the rows   *)
(* in hand hold their partitions, one row each, and nothing else does.      *)
RelaySettles == RowsSettle /\ []PartitionsAccounted
=============================================================================
