---------------------------- MODULE EventBatching ----------------------------
(***************************************************************************)
(* The batching event dispatcher (events/batching.go, BatchingDispatcher): *)
(* callers record events and flush a full batch, the background loop       *)
(* flushes on its ticker and once more when it is stopped, and listeners   *)
(* call back into the dispatcher while a flush runs them.  Events are      *)
(* numbered in the order they are recorded.                                *)
(***************************************************************************)
EXTENDS Naturals, Sequences

CONSTANTS
    Callers,           \* goroutines that dispatch, flush and stop
    FullBatch,         \* events that fill a batch
    MaxEvents,         \* bound: events recorded
    MaxListenerErrors  \* bound: failures of an entry in a caller's flush

ASSUME BatchingAssumption ==
    FullBatch \in Nat \ {0} /\ MaxEvents \in Nat /\ MaxListenerErrors \in Nat /\ "loop" \notin Callers

Flushers == Callers \union {"loop"}

VARIABLES
    buffered,  \* the events waiting
    flushing,  \* a flush is in progress
    place,     \* where each goroutine is
    held,      \* what is left of the snapshot each flush took
    stopCh,    \* closed by Stop
    final,     \* the loop saw stopCh: its flush is the last
    recorded,  \* events recorded so far
    handed,    \* the events delivered, in order; a detached failure counts, it is not retried
    errors     \* failed entries so far

batchingVars == <<buffered, flushing, place, held, stopCh, final, recorded, handed, errors>>

BatchingInit ==
    /\ buffered = << >> /\ flushing = FALSE /\ stopCh = FALSE /\ final = FALSE
    /\ place = [a \in Flushers |-> IF a = "loop" THEN "select" ELSE "idle"]
    /\ held = [a \in Flushers |-> << >>]
    /\ recorded = 0 /\ handed = << >> /\ errors = 0

Moves(a, where) == place' = [place EXCEPT ![a] = where]

(* Dispatch: a full batch is flushed after the lock is released. *)
Records(c) ==
    /\ place[c] = "idle" /\ recorded < MaxEvents
    /\ recorded' = recorded + 1 /\ buffered' = Append(buffered, recorded')
    /\ Moves(c, IF Len(buffered') >= FullBatch THEN "flush" ELSE "idle")
    /\ UNCHANGED <<flushing, held, stopCh, final, handed, errors>>

CallsFlush(c) ==
    /\ place[c] = "idle" /\ Moves(c, "flush")
    /\ UNCHANGED <<buffered, flushing, held, stopCh, final, recorded, handed, errors>>

(* Where a goroutine goes once its flush is over. *)
Done(a) == IF a # "loop" THEN "idle" ELSE IF final THEN "ended" ELSE "select"

(* Bug: a flush does not look for the one in progress. *)
TakeBatchBeside(a) ==
    /\ place[a] = "flush"
    /\ IF buffered = << >>
       THEN Moves(a, Done(a)) /\ UNCHANGED <<buffered, flushing, held>>
       ELSE /\ held' = [held EXCEPT ![a] = buffered] /\ buffered' = << >>
            /\ flushing' = TRUE /\ Moves(a, "deliver")
    /\ UNCHANGED <<stopCh, final, recorded, handed, errors>>

(* takeBatch: an empty batch, or one being flushed, is left alone. *)
TakeBatch(a) ==
    /\ place[a] = "flush"
    /\ IF flushing \/ buffered = << >>
       THEN Moves(a, Done(a)) /\ UNCHANGED <<buffered, flushing, held>>
       ELSE /\ held' = [held EXCEPT ![a] = buffered] /\ buffered' = << >>
            /\ flushing' = TRUE /\ Moves(a, "deliver")
    /\ UNCHANGED <<stopCh, final, recorded, handed, errors>>

(* The next entry's listeners are done with it: without an error, or, in    *)
(* the loop's flush, with a failure that is recorded and not requeued.      *)
Hands(a) ==
    /\ place[a] = "deliver" /\ held[a] # << >>
    /\ handed' = Append(handed, Head(held[a])) /\ held' = [held EXCEPT ![a] = Tail(@)]
    /\ UNCHANGED <<buffered, flushing, place, stopCh, final, recorded, errors>>

(* A listener dispatches; the flush a full batch asks for finds this one in *)
(* progress.                                                                *)
Reenters(a) ==
    /\ place[a] = "deliver" /\ held[a] # << >> /\ recorded < MaxEvents
    /\ recorded' = recorded + 1 /\ buffered' = Append(buffered, recorded')
    /\ UNCHANGED <<flushing, place, held, stopCh, final, handed, errors>>

(* Bug: the flush that fails stays marked in progress. *)
EntryFailsClaimed(c) ==
    /\ place[c] = "deliver" /\ held[c] # << >> /\ errors < MaxListenerErrors
    /\ errors' = errors + 1
    /\ buffered' = held[c] \o buffered /\ held' = [held EXCEPT ![c] = << >>]
    /\ Moves(c, "idle")
    /\ UNCHANGED <<flushing, stopCh, final, recorded, handed>>

(* An entry of a caller's flush fails or panics: it and the rest go back,   *)
(* ahead of what was recorded meanwhile.                                    *)
EntryFails(c) ==
    /\ place[c] = "deliver" /\ held[c] # << >> /\ errors < MaxListenerErrors
    /\ errors' = errors + 1
    /\ buffered' = held[c] \o buffered /\ held' = [held EXCEPT ![c] = << >>]
    /\ flushing' = FALSE /\ Moves(c, "idle")
    /\ UNCHANGED <<stopCh, final, recorded, handed>>

EndFlush(a) ==
    /\ place[a] = "deliver" /\ held[a] = << >>
    /\ flushing' = FALSE /\ Moves(a, Done(a))
    /\ UNCHANGED <<buffered, held, stopCh, final, recorded, handed, errors>>

(* flushLoop *)
Ticks ==
    /\ place["loop"] = "select" /\ Moves("loop", "flush")
    /\ UNCHANGED <<buffered, flushing, held, stopCh, final, recorded, handed, errors>>

SeesStop ==
    /\ place["loop"] = "select" /\ stopCh
    /\ final' = TRUE /\ Moves("loop", "flush")
    /\ UNCHANGED <<buffered, flushing, held, stopCh, recorded, handed, errors>>

(* Stop closes stopCh once and waits for the loop. *)
CallsStop(c) ==
    /\ place[c] = "idle" /\ stopCh' = TRUE /\ Moves(c, "stop")
    /\ UNCHANGED <<buffered, flushing, held, final, recorded, handed, errors>>

(* A listener calls Stop: on the loop's goroutine it does not wait. *)
ListenerStops(a) ==
    /\ place[a] = "deliver" /\ held[a] # << >> /\ stopCh' = TRUE
    /\ Moves(a, IF a = "loop" THEN "deliver" ELSE "stopInside")
    /\ UNCHANGED <<buffered, flushing, held, final, recorded, handed, errors>>

StopReturns(a) ==
    /\ place[a] \in {"stop", "stopInside"} /\ place["loop"] = "ended"
    /\ Moves(a, IF place[a] = "stop" THEN "idle" ELSE "deliver")
    /\ UNCHANGED <<buffered, flushing, held, stopCh, final, recorded, handed, errors>>

-----------------------------------------------------------------------------
(* What a goroutine does once its call is made. *)
FlusherStep(a) ==
    \/ TakeBatch(a) \/ Hands(a) \/ EndFlush(a) \/ StopReturns(a)
    \/ a \in Callers /\ EntryFails(a)

FlushLoopStep == FlusherStep("loop") \/ Ticks \/ SeesStop

BatchingNext ==
    \/ \E a \in Flushers : FlusherStep(a) \/ Reenters(a) \/ ListenerStops(a)
    \/ \E c \in Callers : Records(c) \/ CallsFlush(c) \/ CallsStop(c)
    \/ Ticks \/ SeesStop

(* Goroutines run and the ticker ticks; a select with stopCh ready again    *)
(* and again takes it at some point.                                        *)
BatchingFair ==
    /\ \A c \in Callers : WF_batchingVars(FlusherStep(c))
    /\ WF_batchingVars(FlushLoopStep) /\ SF_batchingVars(SeesStop)

BatchingSpec == BatchingInit /\ [][BatchingNext]_batchingVars /\ BatchingFair

-----------------------------------------------------------------------------
(* No event is lost, delivered twice or out of the order it was recorded    *)
(* in, whoever flushes and whatever fails: what was delivered, then what    *)
(* the flush in progress holds, then the batch, is every event in order     *)
(* (takeBatch, Flush, flushDetached).                                       *)
BatchInOrder ==
    \E a \in Flushers :
        /\ \A b \in Flushers \ {a} : held[b] = << >>
        /\ handed \o held[a] \o buffered = [e \in 1..recorded |-> e]

(* While nobody stops the dispatcher the loop delivers every event, also    *)
(* after a flush that failed or one that found another in progress          *)
(* (flushLoop, Flush).                                                      *)
BatchDrains == \A e \in 1..MaxEvents : recorded >= e ~> (Len(handed) >= e \/ stopCh)
=============================================================================
