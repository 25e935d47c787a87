--------------------------- MODULE RequestTimeout ---------------------------
(***************************************************************************)
(* One request under nested Timeout middleware (router/timeout.go), from   *)
(* its admission (router/admission.go, ServeHTTP) to its answer, with the  *)
(* asynchronous event pool its events go to (router/event_dispatcher.go)   *)
(* and a Shutdown of the router.  Layer l runs the rest of the chain on a  *)
(* goroutine of its own: for l < Depth that is layer l + 1, for Depth the  *)
(* handler.  What a goroutine ends with is                                 *)
(*   "ok" "error" "panic" (a *PanicError) "abort" (http.ErrAbortHandler)   *)
(*   "503" (a layer's deadline passed) or "canceled" (the caller went).    *)
(***************************************************************************)
EXTENDS Naturals

CONSTANTS
    Depth,      \* Timeout layers around the handler
    MaxChunks,  \* bound: body writes of the handler
    PoolBuffer  \* events the pool's channel holds

ASSUME TimeoutAssumption == Depth \in Nat \ {0} /\ MaxChunks \in Nat /\ PoolBuffer \in Nat \ {0}

Layers == 1..Depth
NoResult == "none"

VARIABLES
    tw,        \* tw[l]: the timeoutWriter of layer l
    doneCh,    \* doneCh[l]: its done channel, of capacity one
    layer,     \* layer[l]: where the middleware call is, and what it took from done and the buffer
    gor,       \* gor[l]: the goroutine runTimed
    ctxEnd,    \* ctxEnd[l]: how the layer's context ended: "no", "deadline", "canceled"
    wrote,     \* the header and the chunks the handler wrote
    wire,      \* what reached the router's response writer
    req,       \* where the request is
    reports,   \* times the handler's panic was reported
    reqUnits,  \* units the request run counts
    routerStop,\* where the router's Shutdown is
    pool       \* the event pool: channel, worker, and what became of the events

timeoutVars ==
    <<tw, doneCh, layer, gor, ctxEnd, wrote, wire, req, reports, reqUnits, routerStop, pool>>

TimeoutInit ==
    /\ tw = [l \in Layers |-> [timedOut |-> FALSE, header |-> FALSE, body |-> 0]]
    /\ doneCh = [l \in Layers |-> NoResult]
    /\ layer = [l \in Layers |-> [at |-> "off", res |-> NoResult, header |-> FALSE, body |-> 0]]
    /\ gor = [l \in Layers |-> [at |-> "off", res |-> NoResult]]
    /\ ctxEnd = [l \in Layers |-> "no"]
    /\ wrote = [header |-> FALSE, body |-> 0]
    /\ wire = [header |-> FALSE, body |-> 0, rendered |-> FALSE, aborted |-> FALSE]
    /\ req = "none" /\ reports = 0 /\ reqUnits = 0 /\ routerStop = "no"
    /\ pool = [buffered |-> 0, busy |-> FALSE, stopped |-> FALSE, full |-> 0, refused |-> 0]

(* enqueue: an event for the pool, dropped when the channel is full or closed. *)
Enqueue(p) ==
    IF p.stopped THEN [p EXCEPT !.refused = @ + 1]
    ELSE IF p.buffered = PoolBuffer THEN [p EXCEPT !.full = @ + 1]
    ELSE [p EXCEPT !.buffered = @ + 1]

-----------------------------------------------------------------------------
(* The request and the layers on its way in *)

(* Bug: the handler goroutine holds no unit of the run. *)
EnterUncounted(l) ==
    /\ layer' = [layer EXCEPT ![l].at = "select"]
    /\ gor' = [gor EXCEPT ![l].at = "running"]
    /\ reqUnits' = IF l = 1 THEN reqUnits + 1 ELSE reqUnits

(* The middleware call of layer l: Join, and the goroutine.  The first one *)
(* runs in the admitted request, which holds a unit itself.                *)
Enter(l) ==
    /\ layer' = [layer EXCEPT ![l].at = "select"]
    /\ gor' = [gor EXCEPT ![l].at = "running"]
    /\ reqUnits' = reqUnits + (IF l = 1 THEN 2 ELSE 1)

RequestArrives ==
    /\ req = "none" /\ routerStop = "no"
    /\ req' = "serving" /\ Enter(1)
    /\ pool' = Enqueue(pool)
    /\ UNCHANGED <<tw, doneCh, ctxEnd, wrote, wire, reports, routerStop>>

(* refuse: the boundary answers 503, nothing of the application runs. *)
RefuseRequest ==
    /\ req = "none" /\ routerStop # "no"
    /\ req' = "refused" /\ wire' = [wire EXCEPT !.rendered = TRUE]
    /\ UNCHANGED <<tw, doneCh, layer, gor, ctxEnd, wrote, reports, reqUnits, routerStop, pool>>

EnterInner(l) ==
    /\ l > 1 /\ gor[l - 1].at = "running" /\ layer[l].at = "off"
    /\ Enter(l)
    /\ UNCHANGED <<tw, doneCh, ctxEnd, wrote, wire, req, reports, routerStop, pool>>

(* The context of layer l ends, and with it those derived from it. *)
CtxEnds(l, how) == ctxEnd' = [m \in Layers |-> IF m >= l /\ ctxEnd[m] = "no" THEN how ELSE ctxEnd[m]]

DeadlinePasses(l) ==
    /\ layer[l].at # "off" /\ ctxEnd[l] = "no"
    /\ CtxEnds(l, "deadline")
    /\ UNCHANGED <<tw, doneCh, layer, gor, wrote, wire, req, reports, reqUnits, routerStop, pool>>

ClientGoes ==
    /\ req = "serving" /\ ctxEnd[1] = "no"
    /\ CtxEnds(1, "canceled")
    /\ UNCHANGED <<tw, doneCh, layer, gor, wrote, wire, req, reports, reqUnits, routerStop, pool>>

-----------------------------------------------------------------------------
(* The handler and the goroutines *)

(* WriteHeader and Write of a timeoutWriter. *)
Put(w, header, n) ==
    IF w.timedOut THEN w ELSE [w EXCEPT !.header = @ \/ header, !.body = @ + n]

HandlerWrites(header, n) ==
    /\ gor[Depth].at = "running" /\ wrote.body + n <= MaxChunks
    /\ wrote' = [header |-> wrote.header \/ header, body |-> wrote.body + n]
    /\ wrote' # wrote
    /\ tw' = [tw EXCEPT ![Depth] = Put(@, header, n)]
    /\ UNCHANGED <<doneCh, layer, gor, ctxEnd, wire, req, reports, reqUnits, routerStop, pool>>

(* deliver: to the middleware, or kept once it timed out.  A late abort is *)
(* dropped.                                                                *)
DeliverReport(l, res) ==
    IF tw[l].timedOut
    THEN /\ gor' = [gor EXCEPT ![l] = [at |-> IF res = "abort" THEN "ending" ELSE "late", res |-> res]]
         /\ UNCHANGED doneCh
    ELSE /\ doneCh' = [doneCh EXCEPT ![l] = res]
         /\ gor' = [gor EXCEPT ![l] = [at |-> "ending", res |-> res]]

HandlerEnds(res) ==
    /\ gor[Depth].at = "running"
    /\ DeliverReport(Depth, res)
    /\ UNCHANGED <<tw, layer, ctxEnd, wrote, wire, req, reports, reqUnits, routerStop, pool>>

(* The goroutine of layer l ends with what the layer inside it returned, or *)
(* with the abort it went on with.                                          *)
InnerReturned(l) ==
    /\ l < Depth /\ gor[l].at = "running" /\ layer[l + 1].at = "back"
    /\ DeliverReport(l, layer[l + 1].res)
    /\ UNCHANGED <<tw, layer, ctxEnd, wrote, wire, req, reports, reqUnits, routerStop, pool>>

(* reportLatePanic: only what carries a panic is reported. *)
Report(res) ==
    IF res = "panic" THEN reports' = reports + 1 /\ pool' = Enqueue(pool)
    ELSE UNCHANGED <<reports, pool>>

KeptResult(l) ==
    /\ gor[l].at = "late" /\ Report(gor[l].res)
    /\ gor' = [gor EXCEPT ![l].at = "ending"]
    /\ UNCHANGED <<tw, doneCh, layer, ctxEnd, wrote, wire, req, reqUnits, routerStop>>

ReleaseUnit(l) ==
    /\ gor[l].at = "ending"
    /\ gor' = [gor EXCEPT ![l].at = "ended"] /\ reqUnits' = reqUnits - 1
    /\ UNCHANGED <<tw, doneCh, layer, ctxEnd, wrote, wire, req, reports, routerStop, pool>>

-----------------------------------------------------------------------------
(* The middleware call, after its select *)

(* In time: the buffer is taken (an abort drops it). *)
InTime(l) ==
    /\ layer[l].at = "select" /\ doneCh[l] # NoResult
    /\ doneCh' = [doneCh EXCEPT ![l] = NoResult]
    /\ IF doneCh[l] = "abort"
       THEN /\ layer' = [layer EXCEPT ![l].at = "back", ![l].res = "abort"]
            /\ CtxEnds(l, "canceled") /\ UNCHANGED tw
       ELSE /\ layer' = [layer EXCEPT ![l] = [at |-> "header", res |-> doneCh[l],
                                               header |-> tw[l].header, body |-> tw[l].body]]
            /\ tw' = [tw EXCEPT ![l].body = 0] /\ UNCHANGED ctxEnd
    /\ UNCHANGED <<gor, wrote, wire, req, reports, reqUnits, routerStop, pool>>

(* What layer l writes below it: the writer of the layer around it, or the *)
(* router's.                                                               *)
Below(l, header, n) ==
    IF l = 1 THEN wire' = [wire EXCEPT !.header = @ \/ header, !.body = @ + n] /\ UNCHANGED tw
    ELSE tw' = [tw EXCEPT ![l - 1] = Put(@, header, n)] /\ UNCHANGED wire

FlushHeader(l) ==
    /\ layer[l].at = "header" /\ Below(l, layer[l].header, 0)
    /\ layer' = [layer EXCEPT ![l].at = "body"]
    /\ UNCHANGED <<doneCh, gor, ctxEnd, wrote, req, reports, reqUnits, routerStop, pool>>

(* The body, and the middleware returns, which cancels its context. *)
FlushBody(l) ==
    /\ layer[l].at = "body" /\ Below(l, layer[l].body > 0, layer[l].body)
    /\ layer' = [layer EXCEPT ![l].at = "back"] /\ CtxEnds(l, "canceled")
    /\ UNCHANGED <<doneCh, gor, wrote, req, reports, reqUnits, routerStop, pool>>

TimedOutResult(l) == IF ctxEnd[l] = "deadline" THEN "503" ELSE "canceled"

(* Bug: the deadline flushes what the handler has buffered. *)
TimesOutFlushing(l) ==
    /\ layer[l].at = "select" /\ ctxEnd[l] # "no"
    /\ doneCh' = [doneCh EXCEPT ![l] = NoResult]
    /\ Below(l, tw[l].header, tw[l].body)
    /\ layer' = [layer EXCEPT ![l].at = "late", ![l].res = doneCh[l]]
    /\ UNCHANGED <<gor, ctxEnd, wrote, req, reports, reqUnits, routerStop, pool>>

(* Bug: the call waits for the handler. *)
TimesOutWaiting(l) ==
    /\ layer[l].at = "select" /\ ctxEnd[l] # "no" /\ doneCh[l] # NoResult
    /\ tw' = [tw EXCEPT ![l] = [@ EXCEPT !.timedOut = TRUE, !.body = 0]]
    /\ doneCh' = [doneCh EXCEPT ![l] = NoResult]
    /\ layer' = [layer EXCEPT ![l].at = "late", ![l].res = doneCh[l]]
    /\ UNCHANGED <<gor, ctxEnd, wrote, wire, req, reports, reqUnits, routerStop, pool>>

(* The context ended, whether or not done holds a result as well (the       *)
(* select picks either): markTimedOut.                                      *)
TimesOut(l) ==
    /\ layer[l].at = "select" /\ ctxEnd[l] # "no"
    /\ tw' = [tw EXCEPT ![l] = [@ EXCEPT !.timedOut = TRUE, !.body = 0]]
    /\ doneCh' = [doneCh EXCEPT ![l] = NoResult]
    /\ layer' = [layer EXCEPT ![l].at = "late", ![l].res = doneCh[l]]
    /\ UNCHANGED <<gor, ctxEnd, wrote, wire, req, reports, reqUnits, routerStop, pool>>

(* The late result it took, if any, is reported; then the 503 is returned. *)
LateTaken(l) ==
    /\ layer[l].at = "late" /\ Report(layer[l].res)
    /\ layer' = [layer EXCEPT ![l].at = "back", ![l].res = TimedOutResult(l)]
    /\ UNCHANGED <<tw, doneCh, gor, ctxEnd, wrote, wire, req, reqUnits, routerStop>>

-----------------------------------------------------------------------------
(* The boundary (invokeHandler, handleError) and the router's Shutdown *)

(* An error is rendered on a response not committed yet, a caller that went *)
(* gets none; a panic is reported.  RequestFailed is dispatched for what    *)
(* fails at 500 or above.                                                   *)
Boundary ==
    /\ req = "serving" /\ layer[1].at = "back"
    /\ LET res == layer[1].res IN
       /\ wire' = [wire EXCEPT !.aborted = res = "abort",
                               !.rendered = res \in {"error", "503", "panic"} /\ ~wire.header]
       /\ reports' = IF res = "panic" THEN reports + 1 ELSE reports
       /\ \/ res \notin {"ok", "abort"} /\ pool' = Enqueue(pool)
          \/ res \notin {"panic", "503"} /\ UNCHANGED pool
    /\ req' = "answered"
    /\ UNCHANGED <<tw, doneCh, layer, gor, ctxEnd, wrote, reqUnits, routerStop>>

(* RequestHandled, and the request's unit. *)
Handled ==
    /\ req = "answered" /\ req' = "released"
    /\ pool' = Enqueue(pool) /\ reqUnits' = reqUnits - 1
    /\ UNCHANGED <<tw, doneCh, layer, gor, ctxEnd, wrote, wire, reports, routerStop>>

RouterShutdown ==
    /\ routerStop = "no" /\ routerStop' = "closed"
    /\ UNCHANGED <<tw, doneCh, layer, gor, ctxEnd, wrote, wire, req, reports, reqUnits, pool>>

(* stopWork: the requests, then the pool, whose workers deliver what it     *)
(* still buffers.                                                           *)
RequestsIdle ==
    /\ routerStop = "closed" /\ reqUnits = 0
    /\ routerStop' = "pools" /\ pool' = [pool EXCEPT !.stopped = TRUE]
    /\ UNCHANGED <<tw, doneCh, layer, gor, ctxEnd, wrote, wire, req, reports, reqUnits>>

PoolDrained ==
    /\ routerStop = "pools" /\ pool.buffered = 0 /\ ~pool.busy
    /\ routerStop' = "done"
    /\ UNCHANGED <<tw, doneCh, layer, gor, ctxEnd, wrote, wire, req, reports, reqUnits, pool>>

PoolTakes ==
    /\ ~pool.busy /\ pool.buffered > 0
    /\ pool' = [pool EXCEPT !.buffered = @ - 1, !.busy = TRUE]
    /\ UNCHANGED <<tw, doneCh, layer, gor, ctxEnd, wrote, wire, req, reports, reqUnits, routerStop>>

PoolDelivers ==
    /\ pool.busy /\ pool' = [pool EXCEPT !.busy = FALSE]
    /\ UNCHANGED <<tw, doneCh, layer, gor, ctxEnd, wrote, wire, req, reports, reqUnits, routerStop>>

LayerStep(l) ==
    \/ EnterInner(l) \/ InnerReturned(l) \/ KeptResult(l) \/ ReleaseUnit(l)
    \/ InTime(l) \/ FlushHeader(l) \/ FlushBody(l) \/ TimesOut(l) \/ LateTaken(l)

HandlerStep ==
    \/ HandlerWrites(TRUE, 0) \/ HandlerWrites(TRUE, 1)
    \/ \E res \in {"ok", "error", "panic", "abort"} : HandlerEnds(res)

ServerStep == Boundary \/ Handled \/ RequestsIdle \/ PoolDrained \/ PoolTakes \/ PoolDelivers

TimeoutNext ==
    \/ RequestArrives \/ RefuseRequest \/ ClientGoes \/ HandlerStep \/ RouterShutdown \/ ServerStep
    \/ \E l \in Layers : LayerStep(l) \/ DeadlinePasses(l)

(* Goroutines that can run do run, and timers fire.  The handler may never  *)
(* return.                                                                  *)
TimeoutFair ==
    /\ WF_timeoutVars(ServerStep)
    /\ \A l \in Layers : WF_timeoutVars(LayerStep(l)) /\ WF_timeoutVars(DeadlinePasses(l))

TimeoutSpec == TimeoutInit /\ [][TimeoutNext]_timeoutVars /\ TimeoutFair

-----------------------------------------------------------------------------
(* Properties *)

(* The client gets one answer: the handler's whole buffered response or the *)
(* boundary's, never both and never a part of the former; an aborted        *)
(* connection gets neither (flushBuffered, markTimedOut, handleError).      *)
OneAnswer ==
    /\ ~(wire.rendered /\ (wire.header \/ wire.body > 0))
    /\ wire.aborted => ~wire.rendered /\ ~wire.header /\ wire.body = 0
    /\ wire.body > 0 => wire.body = wrote.body /\ gor[Depth].at # "running"

Settled == req = "released" /\ \A l \in Layers : gor[l].at \in {"off", "ended"}

(* A handler panic is reported once, however many deadlines passed around   *)
(* it and wherever its result was then: by the boundary, by a layer that    *)
(* took it late, or by a goroutine that kept it (deliver, markTimedOut,     *)
(* reportLatePanic).                                                        *)
PanicReportedOnce ==
    /\ reports <= 1
    /\ Settled => reports = IF gor[Depth].res = "panic" THEN 1 ELSE 0

(* However deadlines, panics and late handlers race, a request has one     *)
(* answer and a panic of it one report.                                    *)
AnsweredOnce == OneAnswer /\ PanicReportedOnce

(* The router's stop waits for the goroutines that outlived their request:  *)
(* the pool is stopped only after their last event, so it refuses none, and *)
(* the stop is over only when they are (Join, runTimed, stopWork).          *)
StopWaitsForLate ==
    /\ pool.refused = 0
    /\ routerStop \in {"pools", "done"} => req \in {"none", "refused"} \/ Settled

(* A request is answered whether or not its handler ever returns, and once  *)
(* the handler does the router's stop completes (Timeout, Shutdown).        *)
RequestAnswered ==
    /\ (req = "serving") ~> (req = "released")
    /\ <>[](gor[Depth].at # "running") => ((routerStop = "closed") ~> (routerStop = "done"))
=============================================================================
