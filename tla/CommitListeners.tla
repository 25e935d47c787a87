--------------------------- MODULE CommitListeners ---------------------------
(***************************************************************************)
(* One request from its handler to RequestHandled on the router's response *)
(* writer: the listeners that run before the response commits              *)
(* (router/response_writer.go, Context.BeforeCommit) and the error         *)
(* boundary that answers their panics (invokeHandler, onPanic, answerPanic *)
(* and finalize of router/velocity_router.go).  The handler chain and the  *)
(* error handler are application code: they register listeners, write,     *)
(* panic, and may recover a listener's panic and go on.                    *)
(***************************************************************************)
EXTENDS Naturals, Sequences

CONSTANTS
    Statuses,      \* final statuses application code answers with, 200 among them
    MaxListeners,  \* bound: listeners of the request
    MaxDestPanics  \* bound: panics of the writer underneath

ASSUME ListenersAssumption == 200 \in Statuses /\ MaxListeners \in Nat /\ MaxDestPanics \in Nat

Listeners == 1..MaxListeners

VARIABLES
    rw,         \* the responseWriter: state, pending listeners, attempts, committed, status
    stage,      \* where the request's goroutine is
    frame,      \* a dispatch in progress: the code whose write began it, its status, the listener called
    pass,       \* onPanic: the attempts when its answer began, the budget, who called it
    registered, \* listeners registered so far
    tried,      \* the attempts in order: listener, the status it was given, how it ended
    ending,     \* why the connection is aborted: "no", "abort", "own" panic of the boundary, "budget"
    destPanics  \* panics of the writer underneath so far

commitVars == <<rw, stage, frame, pass, registered, tried, ending, destPanics>>

NoFrame == [from |-> "none", status |-> 0, running |-> 0]
NoPass == [attempted |-> 0, budget |-> 0, taken |-> FALSE, by |-> "none"]

CommitInit ==
    /\ rw = [state |-> "idle", pending |-> << >>, attempts |-> 0, committed |-> FALSE, status |-> 0,
             hijacked |-> FALSE]
    /\ stage = "handler" /\ frame = NoFrame /\ pass = NoPass
    /\ registered = 0 /\ tried = << >> /\ ending = "no" /\ destPanics = 0

(* Application code runs: the handler chain, or the error handler for an    *)
(* error the handler returned or for a panic.                               *)
Application == {"handler", "errAnswer", "panicAnswer"}

-----------------------------------------------------------------------------
(* The writer *)

(* addListener: refused once listeners run or the response is committed. *)
Register ==
    /\ stage \in Application /\ registered < MaxListeners
    /\ rw.state = "idle" /\ ~rw.committed
    /\ registered' = registered + 1
    /\ rw' = [rw EXCEPT !.pending = Append(@, registered')]
    /\ UNCHANGED <<stage, frame, pass, tried, ending, destPanics>>

(* WriteHeader, Write and Flush: what they do to the writer w.  Write and   *)
(* Flush commit with 200.                                                   *)
WriteOutcome(w) ==
    IF w.state = "dispatching" \/ w.committed THEN "ignored"
    ELSE IF w.pending # << >> THEN "dispatch"
    ELSE "commit"

Committing(w, status) == [w EXCEPT !.committed = TRUE, !.status = status]

BeginDispatch(from, status) ==
    /\ rw' = [rw EXCEPT !.state = "dispatching"]
    /\ frame' = [from |-> from, status |-> status, running |-> 0]
    /\ stage' = "dispatch"

Writes(status) ==
    /\ stage \in Application
    /\ \/ WriteOutcome(rw) = "ignored" /\ UNCHANGED <<rw, frame, stage>>
       \/ WriteOutcome(rw) = "dispatch" /\ BeginDispatch(stage, status)
       \/ WriteOutcome(rw) = "commit" /\ rw' = Committing(rw, status) /\ UNCHANGED <<frame, stage>>
    /\ UNCHANGED <<pass, registered, tried, ending, destPanics>>

(* A successful Hijack commits the response and drops the listeners. *)
Hijack ==
    /\ stage = "handler" /\ ~rw.hijacked
    /\ rw' = [rw EXCEPT !.committed = TRUE, !.hijacked = TRUE, !.pending = << >>, !.state = "done"]
    /\ UNCHANGED <<stage, frame, pass, registered, tried, ending, destPanics>>

(* Bug: the first registered is called first. *)
CallFirstListener ==
    /\ stage = "dispatch" /\ frame.running = 0 /\ rw.pending # << >>
    /\ rw' = [rw EXCEPT !.pending = Tail(@), !.attempts = @ + 1]
    /\ frame' = [frame EXCEPT !.running = Head(rw.pending)]
    /\ UNCHANGED <<stage, pass, registered, tried, ending, destPanics>>

(* The last registered is taken out of the registry and called. *)
CallListener ==
    /\ stage = "dispatch" /\ frame.running = 0 /\ rw.pending # << >>
    /\ LET n == Len(rw.pending) IN
       /\ rw' = [rw EXCEPT !.pending = SubSeq(@, 1, n - 1), !.attempts = @ + 1]
       /\ frame' = [frame EXCEPT !.running = rw.pending[n]]
    /\ UNCHANGED <<stage, pass, registered, tried, ending, destPanics>>

Tried(how) == tried' = Append(tried, [listener |-> frame.running, status |-> frame.status, how |-> how])

(* A listener calls back into the writer. *)
ListenerWrites(status) ==
    /\ stage = "dispatch" /\ frame.running # 0
    /\ rw' = IF WriteOutcome(rw) = "ignored" THEN rw ELSE Committing(rw, status)
    /\ UNCHANGED <<stage, frame, pass, registered, tried, ending, destPanics>>

ListenerReturns ==
    /\ stage = "dispatch" /\ frame.running # 0 /\ Tried("returned")
    /\ frame' = [frame EXCEPT !.running = 0]
    /\ UNCHANGED <<rw, stage, pass, registered, ending, destPanics>>

-----------------------------------------------------------------------------
(* The boundary *)

(* onPanic is entered from the request's deferred function or from finalize. *)
Answers(by) ==
    /\ stage' = "panicAnswer"
    /\ pass' = [attempted |-> rw'.attempts, budget |-> 0, taken |-> FALSE, by |-> by]
    /\ UNCHANGED ending

(* The value ends the request: net/http aborts the connection once the      *)
(* bookkeeping is done.                                                     *)
EndsWith(why) == stage' = "close" /\ ending' = why /\ UNCHANGED pass

(* onPanic answers the panic of a listener raised by its own answer.  The   *)
(* budget is taken at the first one: a pass per listener still pending and  *)
(* one with none left.                                                      *)
NextPass(w) ==
    LET budget == IF pass.taken THEN pass.budget ELSE Len(w.pending) + 1 IN
    IF budget = 0 THEN EndsWith("budget")
    ELSE /\ stage' = "panicAnswer"
         /\ pass' = [pass EXCEPT !.attempted = w.attempts, !.budget = budget - 1, !.taken = TRUE]
         /\ UNCHANGED ending

(* A panic of the given kind ("listener", "own" or "abort") leaves the code *)
(* at place with the writer in state w.                                     *)
Unwinds(place, kind, w) ==
    \/ kind = "abort" /\ EndsWith("abort")
    \/ kind # "abort" /\ place \in {"handler", "errAnswer"} /\ Answers("request")
    \/ kind # "abort" /\ place = "finalize" /\ Answers("finalize")
    \/ /\ kind # "abort" /\ place = "panicAnswer"
       /\ IF kind = "listener" /\ w.attempts # pass.attempted /\ ~w.committed
          THEN NextPass(w) ELSE EndsWith("own")

(* closeDispatch: the dispatch breaks, the listeners not attempted wait for *)
(* the next commit.  Application code that wrote may recover the panic.     *)
ListenerPanics(kind) ==
    /\ stage = "dispatch" /\ frame.running # 0 /\ Tried("panicked")
    /\ rw' = [rw EXCEPT !.state = IF rw.pending = << >> THEN "done" ELSE "resumed"]
    /\ frame' = NoFrame
    /\ \/ Unwinds(frame.from, kind, rw')
       \/ /\ frame.from \in Application
          /\ stage' = frame.from /\ UNCHANGED <<pass, ending>>
    /\ UNCHANGED <<registered, destPanics>>

(* Every listener was attempted: the commit goes through, or the writer     *)
(* underneath panics.                                                       *)
DispatchEnds ==
    /\ stage = "dispatch" /\ frame.running = 0 /\ rw.pending = << >>
    /\ frame' = NoFrame
    /\ LET w == [rw EXCEPT !.state = "done"] IN
       \/ /\ frame.from = "finalize" /\ rw' = w
          /\ stage' = "close" /\ UNCHANGED <<pass, ending, destPanics>>
       \/ /\ frame.from # "finalize" /\ rw' = Committing(w, frame.status)
          /\ stage' = frame.from /\ UNCHANGED <<pass, ending, destPanics>>
       \/ /\ frame.from # "finalize" /\ rw' = w
          /\ destPanics < MaxDestPanics /\ destPanics' = destPanics + 1
          /\ Unwinds(frame.from, "own", w)
    /\ UNCHANGED <<registered, tried>>

ApplicationPanics(kind) ==
    /\ stage \in Application /\ rw' = rw /\ Unwinds(stage, kind, rw)
    /\ UNCHANGED <<frame, registered, tried, destPanics>>

(* The handler returns nil, or an error the boundary answers. *)
HandlerReturns ==
    /\ stage = "handler" /\ stage' \in {"finalize", "errAnswer"}
    /\ UNCHANGED <<rw, frame, pass, registered, tried, ending, destPanics>>

(* The error handler returns, having answered or not. *)
AnswerReturns ==
    /\ stage \in {"errAnswer", "panicAnswer"}
    /\ stage' = IF stage = "panicAnswer" /\ pass.by = "finalize" THEN "close" ELSE "finalize"
    /\ UNCHANGED <<rw, frame, pass, registered, tried, ending, destPanics>>

(* finalize: listeners of a response nothing committed run with 200. *)
Finalize ==
    /\ stage = "finalize"
    /\ IF rw.pending # << >> THEN BeginDispatch("finalize", 200)
       ELSE stage' = "close" /\ UNCHANGED <<rw, frame>>
    /\ UNCHANGED <<pass, registered, tried, ending, destPanics>>

(* RequestHandled, and the Context goes back to the pool. *)
Close ==
    /\ stage = "close" /\ stage' = "over"
    /\ UNCHANGED <<rw, frame, pass, registered, tried, ending, destPanics>>

CommitNext ==
    \/ Register \/ Hijack \/ CallListener \/ ListenerReturns \/ DispatchEnds
    \/ HandlerReturns \/ AnswerReturns \/ Finalize \/ Close
    \/ \E status \in Statuses : Writes(status) \/ ListenerWrites(status)
    \/ \E kind \in {"listener", "abort"} : ListenerPanics(kind)
    \/ \E kind \in {"own", "abort"} : ApplicationPanics(kind)

CommitSpec == CommitInit /\ [][CommitNext]_commitVars

-----------------------------------------------------------------------------
(* Properties *)

(* Headers leave only after every listener was attempted, each once; the    *)
(* last registered is attempted first, also across the dispatches that a    *)
(* panic broke up.  The one called last, when it returned, was given        *)
(* the status the client gets.  A request nobody aborted or took over ends  *)
(* with none unattempted, except when finalize's own dispatch broke and the *)
(* error handler then wrote nothing (dispatch, WriteHeader, Write, Flush,   *)
(* finalize).  A listener's panic always gets its answer: the connection is *)
(* never aborted because the retry budget ran out (onPanic, answerPanic).   *)
ListenersFirst ==
    /\ \A a, b \in 1..Len(tried) : a < b => tried[b].listener < tried[a].listener
    /\ rw.committed => rw.pending = << >> /\ frame.running = 0
    /\ rw.committed /\ ~rw.hijacked => Len(tried) = registered
    /\ rw.committed /\ tried # << >> /\ destPanics = 0 /\ rw.status # 0 =>
        LET last == tried[Len(tried)] IN last.how = "returned" => last.status = rw.status
    /\ stage = "over" /\ ending = "no" /\ ~rw.hijacked =>
        Len(tried) = registered \/ (pass.by = "finalize" /\ ~rw.committed)
    /\ ending # "budget"
=============================================================================
