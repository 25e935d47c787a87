------------------------------ MODULE TxScope ------------------------------
(***************************************************************************)
(* Manager.Transaction (orm/manager.go) and what is deferred to its end:   *)
(* the event buffer (events/buffer.go), the after-commit queue             *)
(* (events/after_commit.go) and the commit, rollback and commit-failure    *)
(* callbacks (orm/tx_callbacks.go).  A Transaction inside a Transaction is *)
(* a savepoint that shares the lists of the outermost one.  Scope 1 is the *)
(* outermost; scope 0 stands for a goroutine the closure left behind,      *)
(* which may register something while the transaction ends.                *)
(***************************************************************************)
EXTENDS Naturals, Sequences, FiniteSets, SequencesExt

CONSTANTS
    MaxScopes,  \* bound: scopes opened, the outermost included
    MaxTaken    \* bound: registrations made in all of them

ASSUME ScopeAssumption == MaxScopes \in Nat \ {0} /\ MaxTaken \in Nat

Callbacks == {"commit", "rollback", "failure"}
Registrations == Callbacks \cup {"event", "listener"}

VARIABLES
    txPhase,   \* "body", then "flush", "listen", "notify", "done"
    open,      \* the open scopes, innermost last
    parentOf,  \* parentOf[s]: the scope s was opened in
    fate,      \* fate[s]: "unused", "open", "released", "rolled" or "kept"
    base,      \* base[s]: lengths of buffer and queue when s was opened
    buffer,    \* BufferedDispatcher.events of the outermost scope
    acQueue,   \* afterCommitQueue.tasks
    lists,     \* lists[k]: the callbacks of TxCallbacks
    drained,   \* the list that is or was run, or "none"
    taken,     \* registrations that were accepted: kind and scope
    fired,     \* registrations that were run
    landed,    \* the writes of the transaction are in the database
    ended      \* how it ended: "none", "ok", "flushErr", "panic", "rolledBack",
               \* "rollbackErr" or "commitErr"

txVars == <<txPhase, open, parentOf, fate, base, buffer, acQueue, lists, drained, taken, fired,
            landed, ended>>

TxScopes == 1..MaxScopes

TxInit ==
    /\ txPhase = "body" /\ open = <<1>>
    /\ parentOf = [s \in TxScopes |-> 0]
    /\ fate = [s \in TxScopes |-> IF s = 1 THEN "open" ELSE "unused"]
    /\ base = [s \in TxScopes |-> [events |-> 0, tasks |-> 0]]
    /\ buffer = <<>> /\ acQueue = <<>> /\ lists = [k \in Callbacks |-> <<>>]
    /\ drained = "none" /\ taken = {} /\ fired = {} /\ landed = FALSE /\ ended = "none"

scopeVars == <<open, parentOf, fate, base>>

-----------------------------------------------------------------------------
(* Registering *)

Enlist(k, s) ==
    /\ <<k, s>> \notin taken /\ Cardinality(taken) < MaxTaken
    /\ taken' = taken \cup {<<k, s>>}
    /\ buffer' = IF k = "event" THEN Append(buffer, s) ELSE buffer
    /\ acQueue' = IF k = "listener" THEN Append(acQueue, s) ELSE acQueue
    /\ lists' = IF k \in Callbacks THEN [lists EXCEPT ![k] = Append(@, s)] ELSE lists

(* The closure of the innermost scope dispatches or registers something. *)
Register(k) ==
    /\ txPhase = "body"
    /\ Enlist(k, Last(open))
    /\ UNCHANGED <<txPhase, scopeVars, drained, fired, landed, ended>>

(* What the lists still take once the closure has returned: the buffer is  *)
(* flushing, flushed or dropped; the queue takes tasks until it drains.    *)
Accepts(k) ==
    \/ k \in Callbacks /\ drained = "none"
    \/ k = "listener" /\ txPhase = "flush"

(* A goroutine, or a callback that is run, registers late. *)
RegisterLate(k) ==
    /\ txPhase # "body" /\ Accepts(k)
    /\ Enlist(k, 0)
    /\ UNCHANGED <<txPhase, scopeVars, drained, fired, landed, ended>>

-----------------------------------------------------------------------------
(* Nested transactions *)

OpenNested ==
    /\ txPhase = "body"
    /\ \E s \in TxScopes :
        /\ fate[s] = "unused" /\ \A r \in TxScopes : r < s => fate[r] # "unused"
        /\ open' = Append(open, s) /\ fate' = [fate EXCEPT ![s] = "open"]
        /\ parentOf' = [parentOf EXCEPT ![s] = Last(open)]
        /\ base' = [base EXCEPT ![s] = [events |-> Len(buffer), tasks |-> Len(acQueue)]]
    /\ UNCHANGED <<txPhase, buffer, acQueue, lists, drained, taken, fired, landed, ended>>

(* Bug: the inner scope's entries are left to the outermost commit. *)
DropKept(s) == UNCHANGED <<buffer, acQueue>>

(* Drop and TruncateToBaseline; the callback lists are left alone. *)
DropTo(s) ==
    /\ buffer' = SubSeq(buffer, 1, base[s].events)
    /\ acQueue' = SubSeq(acQueue, 1, base[s].tasks)

(* The inner closure failed: ROLLBACK TO, which may fail and leave the     *)
(* writes to the outer transaction.                                        *)
RollbackNested ==
    /\ txPhase = "body" /\ Len(open) > 1
    /\ DropTo(Last(open))
    /\ \E f \in {"rolled", "kept"} : fate' = [fate EXCEPT ![Last(open)] = f]
    /\ open' = Front(open)
    /\ UNCHANGED <<txPhase, parentOf, base, lists, drained, taken, fired, landed, ended>>

(* RELEASE SAVEPOINT; its error drops what the scope deferred. *)
ReleaseNested ==
    /\ txPhase = "body" /\ Len(open) > 1
    /\ \/ fate' = [fate EXCEPT ![Last(open)] = "released"] /\ UNCHANGED <<buffer, acQueue>>
       \/ fate' = [fate EXCEPT ![Last(open)] = "kept"] /\ DropTo(Last(open))
    /\ open' = Front(open)
    /\ UNCHANGED <<txPhase, parentOf, base, lists, drained, taken, fired, landed, ended>>

-----------------------------------------------------------------------------
(* The end of the outermost transaction *)

Discard == buffer' = <<>> /\ acQueue' = <<>>

Notify(k) == txPhase' = "notify" /\ drained' = k

(* The closure failed or panicked.  The rollback callbacks are run whether *)
(* or not Rollback reported an error.                                      *)
RollbackOuter ==
    /\ txPhase = "body" /\ Len(open) = 1
    /\ Discard /\ Notify("rollback") /\ ended' \in {"rolledBack", "rollbackErr"}
    /\ UNCHANGED <<scopeVars, lists, taken, fired, landed>>

CommitOuter ==
    /\ txPhase = "body" /\ Len(open) = 1
    /\ landed' = TRUE /\ txPhase' = "flush"
    /\ UNCHANGED <<scopeVars, buffer, acQueue, lists, drained, taken, fired, ended>>

(* Commit reports an error; it may have taken effect. *)
CommitFails ==
    /\ txPhase = "body" /\ Len(open) = 1
    /\ landed' \in BOOLEAN /\ Discard /\ Notify("failure") /\ ended' = "commitErr"
    /\ UNCHANGED <<scopeVars, lists, taken, fired>>

(* Flush forwards one buffered event; an error stops it there. *)
FlushStep ==
    /\ txPhase = "flush"
    /\ \/ /\ buffer # <<>> /\ fired' = fired \cup {<<"event", Head(buffer)>>} /\ buffer' = Tail(buffer)
          /\ UNCHANGED <<txPhase, ended>>
       \/ buffer # <<>> /\ txPhase' = "listen" /\ ended' = "flushErr" /\ UNCHANGED <<buffer, fired>>
       \/ buffer = <<>> /\ txPhase' = "listen" /\ ended' = "ok" /\ UNCHANGED <<buffer, fired>>
    /\ UNCHANGED <<scopeVars, acQueue, lists, drained, taken, landed>>

(* A panic out of the dispatch of a buffered event unwinds through the     *)
(* deferred recovery, which handles it like a panic of the closure.        *)
FlushPanics ==
    /\ txPhase = "flush" /\ buffer # <<>>
    /\ Discard /\ Notify("rollback") /\ ended' = "panic"
    /\ UNCHANGED <<scopeVars, lists, taken, fired, landed>>

(* FireAfterCommit: every task is run, whatever the others do. *)
Listen ==
    /\ txPhase = "listen"
    /\ \/ /\ acQueue # <<>> /\ acQueue' = Tail(acQueue)
          /\ fired' = fired \cup {<<"listener", Head(acQueue)>>} /\ UNCHANGED <<txPhase, drained>>
       \/ acQueue = <<>> /\ Notify("commit") /\ UNCHANGED <<acQueue, fired>>
    /\ UNCHANGED <<scopeVars, buffer, lists, taken, landed, ended>>

(* runCommit, runRollback or runCommitFailure, a callback at a time. *)
NotifyStep ==
    /\ txPhase = "notify"
    /\ \/ /\ lists[drained] # <<>> /\ fired' = fired \cup {<<drained, Head(lists[drained])>>}
          /\ lists' = [lists EXCEPT ![drained] = Tail(@)] /\ UNCHANGED txPhase
       \/ /\ lists[drained] = <<>> /\ txPhase' = "done" /\ lists' = [k \in Callbacks |-> <<>>]
          /\ UNCHANGED fired
    /\ UNCHANGED <<scopeVars, buffer, acQueue, drained, taken, landed, ended>>

TxNext ==
    \/ \E k \in Registrations : Register(k) \/ RegisterLate(k)
    \/ OpenNested \/ RollbackNested \/ ReleaseNested
    \/ RollbackOuter \/ CommitOuter \/ CommitFails
    \/ FlushStep \/ FlushPanics \/ Listen \/ NotifyStep

TxSpec == TxInit /\ [][TxNext]_txVars

-----------------------------------------------------------------------------
(* Properties *)

(* The scopes around s, s included. *)
Enclosing[s \in 0..MaxScopes] == IF s = 0 THEN {} ELSE {s} \cup Enclosing[parentOf[s]]

(* The writes of scope s are in the database to stay. *)
Durable(s) == landed /\ \A r \in Enclosing[s] : fate[r] # "rolled"

(* Lists hold scopes, and only open scopes are on the stack. *)
TxTypeOK ==
    /\ ToSet(buffer) \cup ToSet(acQueue) \subseteq 0..MaxScopes
    /\ taken \cup fired \subseteq Registrations \X (0..MaxScopes)
    /\ \A s \in TxScopes : s \in ToSet(open) <=> fate[s] = "open"

(* A buffered event and an after-commit listener are delivered only for    *)
(* writes that are durable: not for a scope that was rolled back, not      *)
(* inside one, and not after a commit error (Drop, TruncateToBaseline).    *)
DeliveredMeansDurable ==
    \A s \in 0..MaxScopes : {<<"event", s>>, <<"listener", s>>} \cap fired # {} =>
        Durable(s) /\ ended # "commitErr"

(* One list of callbacks is run, the commit list only for a transaction    *)
(* that committed, the failure list only when Commit reported an error,    *)
(* and then no other.                                                      *)
OneOutcome ==
    /\ \A f, g \in fired : {f[1], g[1]} \subseteq Callbacks => f[1] = g[1]
    /\ \A f \in fired : /\ f[1] = "commit" => landed
                        /\ f[1] \in Callbacks => (f[1] = "failure" <=> ended = "commitErr")

(* When a committed transaction returns, everything it deferred in scopes  *)
(* that kept their writes has run: listeners and commit callbacks even     *)
(* when the flush of the buffer failed.                                    *)
CommitDelivers ==
    txPhase = "done" /\ ended \in {"ok", "flushErr"} =>
        \A t \in taken :
            /\ \A r \in Enclosing[t[2]] : fate[r] \in {"open", "released"}
            /\ t[1] \in {"listener", "commit"} \/ (t[1] = "event" /\ ended = "ok")
            => t \in fired

(* What a transaction deferred follows its outcome: delivered when it      *)
(* committed, whole, and never for writes that are gone.                   *)
DeferredFollowsOutcome == DeliveredMeansDurable /\ OneOutcome /\ CommitDelivers

(* "After the surrounding transaction commits": a commit callback is run   *)
(* only for a scope whose writes are durable.                              *)
CommitCallbackMeansDurable == \A s \in 0..MaxScopes : <<"commit", s>> \in fired => Durable(s)

(* "Rollback callbacks fire only when a rollback is confirmed". *)
RollbackConfirmed == \A f \in fired : f[1] = "rollback" => ended = "rolledBack"
=============================================================================
