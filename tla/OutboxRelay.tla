----------------------------- MODULE OutboxRelay -----------------------------
(***************************************************************************)
(* The transactional outbox and its relays (orm/outbox.go).  A transaction *)
(* records rows in the outbox table; every process runs a Relay that polls *)
(* the table, leases ready rows with a conditional UPDATE, hands each to a *)
(* callback on a goroutine of its own, and deletes the row, schedules a    *)
(* retry or dead-letters it.  Nothing but the lease keeps two relays off   *)
(* one row, and the two writes that settle a row are not fenced by it.     *)
(* Times are kept relative to now: a lease and a delay are what is left of *)
(* them, and the `now` a batch was scanned with is kept as its age.        *)
(***************************************************************************)
EXTENDS Integers, Sequences, FiniteSets

CONSTANTS
    Relays,         \* Relay instances, one per process
    MaxOutboxRows,        \* bound: rows ever recorded
    Parts,          \* partition keys
    NoPart,         \* a row recorded without WithPartitionKey
    PartOf,         \* PartOf[i]: the partition of row i
    MaxTries,       \* max_attempts of every row
    LeaseDuration,  \* cfg.LeaseDuration, in ticks
    BackoffBase,    \* cfg.BackoffBase, in ticks
    BackoffMax,     \* cfg.BackoffMax, in ticks
    BatchSize,      \* cfg.BatchSize
    WorkerCount,    \* cfg.WorkerCount
    MaxStale,       \* bound: ticks between a batch's scan and its last claim, within a lease
    MaxOutages,     \* bound: crashes, stops, ended contexts and failed database calls
    MaxReplays      \* bound: calls of Replay

RelayRows == 1..MaxOutboxRows

ASSUME RelayAssumption ==
    /\ MaxOutboxRows \in Nat /\ NoPart \notin Parts /\ PartOf \in [RelayRows -> Parts \cup {NoPart}]
    /\ MaxTries \in Nat \ {0} /\ LeaseDuration \in Nat \ {0}
    /\ BackoffBase \in Nat \ {0} /\ BackoffMax \in Nat \ {0}
    /\ BatchSize \in Nat \ {0} /\ WorkerCount \in Nat \ {0}
    /\ MaxStale \in 0..(LeaseDuration - 1) /\ MaxOutages \in Nat /\ MaxReplays \in Nat

VARIABLES
    outbox,      \* the outbox table: row id -> row; DOMAIN outbox are the rows present
    tx,          \* tx[i]: the transaction that records row i
    runPhase,    \* runPhase[r]: the phase of relay r's drain.Run
    relayLoop,        \* relayLoop[r]: where relay r's polling goroutine is
    scanAge,     \* scanAge[r]: ticks since the batch in hand was scanned
    todo,        \* todo[r]: candidate ids of the batch not yet tried
    batch,       \* batch[r]: rows claimed and not yet handed to a worker
    workers,     \* workers[r]: dispatch goroutines
    activePart,  \* activePart[r]: partitions reserved by relay r
    loopDone,    \* loopDone[r]: the loop's context has ended
    shutDone,    \* shutDone[r]: the run's shutdown context is cancelled
    delivered,   \* observation: rows a callback accepted
    failures,    \* observation, failures[i]: recorded failures of row i, up to MaxTries
    exposed,     \* observation: rows that were replayed, or whose lease ran out in use
    outages, replays

tableVars == <<outbox, tx, delivered, failures, exposed, outages, replays>>
runVars == <<runPhase, loopDone, shutDone>>
pollVars == <<relayLoop, scanAge, todo, batch>>
relayVars == <<tableVars, runVars, pollVars, workers, activePart>>

(* leased_until IS NULL, or a lease too long past for any scan to tell. *)
NoLease == -MaxStale

FreshRow == [attempts |-> 0, delay |-> 0, lease |-> NoLease, dlq |-> FALSE]

LoopStates == {"off", "idle", "claiming", "reading", "spawning"}

RelayInit ==
    /\ outbox = [i \in {} |-> 0] /\ tx = [i \in RelayRows |-> "none"]
    /\ runPhase = [r \in Relays |-> "none"] /\ relayLoop = [r \in Relays |-> "off"]
    /\ scanAge = [r \in Relays |-> 0]
    /\ todo = [r \in Relays |-> <<>>] /\ batch = [r \in Relays |-> <<>>]
    /\ workers = [r \in Relays |-> {}] /\ activePart = [r \in Relays |-> {}]
    /\ loopDone = [r \in Relays |-> FALSE] /\ shutDone = [r \in Relays |-> FALSE]
    /\ delivered = {} /\ failures = [i \in RelayRows |-> 0] /\ exposed = {}
    /\ outages = 0 /\ replays = 0

Outage == outages < MaxOutages /\ outages' = outages + 1

-----------------------------------------------------------------------------
(* Recording *)

(* pending.insert on an open transaction: the id is drawn, nothing is      *)
(* visible yet.                                                            *)
Enqueue(i) ==
    /\ tx[i] = "none" /\ \A j \in RelayRows : j < i => tx[j] # "none"
    /\ tx' = [tx EXCEPT ![i] = "open"]
    /\ UNCHANGED <<outbox, delivered, failures, exposed, outages, replays>>

(* tx.Commit: the row and the application's own writes appear together. *)
CommitTx(i) ==
    /\ tx[i] = "open"
    /\ tx' = [tx EXCEPT ![i] = "committed"]
    /\ outbox' = [j \in DOMAIN outbox \cup {i} |->
                    IF j = i THEN FreshRow ELSE outbox[j]]
    /\ UNCHANGED <<delivered, failures, exposed, outages, replays>>

(* fn returned an error or panicked. *)
RollbackTx(i) ==
    /\ tx[i] = "open"
    /\ tx' = [tx EXCEPT ![i] = "rolledBack"]
    /\ UNCHANGED <<outbox, delivered, failures, exposed, outages, replays>>

(* Replay: by id alone, whatever state the row is in. *)
Replay(i) ==
    /\ i \in DOMAIN outbox /\ replays < MaxReplays /\ replays' = replays + 1
    /\ outbox' = [outbox EXCEPT ![i] = FreshRow]
    /\ exposed' = exposed \cup {i}
    /\ UNCHANGED <<tx, delivered, failures, outages>>

-----------------------------------------------------------------------------
(* Claiming *)

(* A lease left is compared with the `now` of the batch: leased_until <=   *)
(* now, where now is scanAge ticks ago.                                    *)
LeaseOpen(i, age) == outbox[i].lease <= -age

Ready(i) == ~outbox[i].dlq /\ outbox[i].delay <= 0 /\ LeaseOpen(i, 0)

(* ORDER BY partition_key (NULL first), id. *)
PartRank == CHOOSE f \in [Parts \cup {NoPart} -> 0..Cardinality(Parts)] :
              /\ f[NoPart] = 0
              /\ \A p, q \in Parts \cup {NoPart} : f[p] = f[q] => p = q

ScanOrder(i, j) ==
    \/ PartRank[PartOf[i]] < PartRank[PartOf[j]]
    \/ PartRank[PartOf[i]] = PartRank[PartOf[j]] /\ i < j

ReadySeq ==
    LET rows == {i \in DOMAIN outbox : Ready(i)} IN
    CHOOSE s \in [1..Cardinality(rows) -> rows] : \A j, k \in DOMAIN s : j < k => ScanOrder(s[j], s[k])

(* claimBatch: the candidates, under one reading of the clock. *)
ScanCandidates(r) ==
    /\ relayLoop[r] = "idle" /\ ~loopDone[r] /\ ReadySeq # <<>>
    /\ todo' = [todo EXCEPT ![r] = SubSeq(ReadySeq, 1, IF Len(ReadySeq) < BatchSize THEN Len(ReadySeq) ELSE BatchSize)]
    /\ relayLoop' = [relayLoop EXCEPT ![r] = "claiming"]
    /\ scanAge' = [scanAge EXCEPT ![r] = 0]
    /\ UNCHANGED <<tableVars, runVars, batch, workers, activePart>>

Reserving(r, i) == activePart' = [activePart EXCEPT ![r] = @ \cup ({PartOf[i]} \ {NoPart})]

Releasing(r, rows) == activePart' = [activePart EXCEPT ![r] = @ \ {PartOf[i] : i \in rows}]

(* The partition is busy on this relay: the row is left for a later tick. *)
SkipBusy(r) ==
    /\ relayLoop[r] = "claiming" /\ todo[r] # <<>> /\ PartOf[Head(todo[r])] \in activePart[r]
    /\ todo' = [todo EXCEPT ![r] = Tail(@)]
    /\ UNCHANGED <<tableVars, runVars, relayLoop, scanAge, batch, workers, activePart>>

Claimable(i, age) == i \in DOMAIN outbox /\ ~outbox[i].dlq /\ LeaseOpen(i, age)

(* Bug: the UPDATE does not ask again whether the row is leased. *)
ClaimBlind(r, i) ==
    /\ i \in DOMAIN outbox /\ ~outbox[i].dlq
    /\ outbox' = [outbox EXCEPT ![i].lease = LeaseDuration - scanAge[r]]
    /\ Reserving(r, i)
    /\ relayLoop' = [relayLoop EXCEPT ![r] = "reading"]
    /\ UNCHANGED <<tx, delivered, failures, exposed, outages, replays>>

(* tryClaim: the conditional UPDATE took the row. *)
ClaimRow(r, i) ==
    /\ Claimable(i, scanAge[r])
    /\ outbox' = [outbox EXCEPT ![i].lease = LeaseDuration - scanAge[r]]
    /\ Reserving(r, i)
    /\ relayLoop' = [relayLoop EXCEPT ![r] = "reading"]
    /\ UNCHANGED <<tx, delivered, failures, exposed, outages, replays>>

(* The partition was reserved for the attempt and is given back. *)
ClaimLost(r, i) ==
    /\ ~Claimable(i, scanAge[r])
    /\ todo' = [todo EXCEPT ![r] = Tail(@)]
    /\ UNCHANGED <<tableVars, relayLoop, activePart>>

(* The UPDATE returned an error: the database failed, or the loop's        *)
(* context ended; it may have taken effect.                                *)
ClaimFails(r, i) ==
    /\ IF loopDone[r] THEN UNCHANGED outages ELSE Outage
    /\ \/ UNCHANGED outbox
       \/ Claimable(i, scanAge[r]) /\ outbox' = [outbox EXCEPT ![i].lease = LeaseDuration - scanAge[r]]
    /\ todo' = [todo EXCEPT ![r] = Tail(@)]
    /\ UNCHANGED <<tx, delivered, failures, exposed, replays, relayLoop, activePart>>

TryClaim(r) ==
    /\ relayLoop[r] = "claiming" /\ todo[r] # <<>> /\ PartOf[Head(todo[r])] \notin activePart[r]
    /\ LET i == Head(todo[r]) IN
         \/ ~loopDone[r] /\ ClaimRow(r, i) /\ UNCHANGED todo
         \/ ~loopDone[r] /\ ClaimLost(r, i)
         \/ ClaimFails(r, i)
    /\ UNCHANGED <<runVars, scanAge, batch, workers>>

(* The SELECT after the UPDATE: another relay may have deleted or          *)
(* rescheduled the row in between; an error leaves it leased.              *)
ReadRow(r) ==
    /\ relayLoop[r] = "reading"
    /\ LET i == Head(todo[r]) IN
         \/ /\ ~loopDone[r] /\ i \in DOMAIN outbox
            /\ batch' = [batch EXCEPT ![r] = Append(@, [id |-> i, attempts |-> outbox[i].attempts])]
            /\ UNCHANGED <<activePart, outages>>
         \/ /\ IF loopDone[r] \/ i \notin DOMAIN outbox THEN UNCHANGED outages ELSE Outage
            /\ Releasing(r, {i}) /\ UNCHANGED batch
    /\ todo' = [todo EXCEPT ![r] = Tail(@)]
    /\ relayLoop' = [relayLoop EXCEPT ![r] = "claiming"]
    /\ UNCHANGED <<outbox, tx, delivered, failures, exposed, replays, runVars, scanAge, workers>>

ClaimDone(r) ==
    /\ relayLoop[r] = "claiming" /\ todo[r] = <<>>
    /\ relayLoop' = [relayLoop EXCEPT ![r] = IF batch[r] = <<>> THEN "idle" ELSE "spawning"]
    /\ scanAge' = [scanAge EXCEPT ![r] = 0]
    /\ UNCHANGED <<tableVars, runVars, todo, batch, workers, activePart>>
-----------------------------------------------------------------------------
(* Dispatching *)

Slots == 1..WorkerCount

UsedSlots(r) == {w.slot : w \in workers[r]}

FreeSlot(r) == CHOOSE n \in Slots \ UsedSlots(r) : \A k \in Slots \ UsedSlots(r) : n <= k

BatchRows(r) == {batch[r][k].id : k \in DOMAIN batch[r]}

(* A semaphore slot is free and the run still admits work. *)
SpawnWorker(r) ==
    /\ relayLoop[r] = "spawning" /\ batch[r] # <<>> /\ ~loopDone[r]
    /\ Slots \ UsedSlots(r) # {} /\ runPhase[r] = "running"
    /\ workers' = [workers EXCEPT ![r] = @ \cup
                     {[slot |-> FreeSlot(r), id |-> Head(batch[r]).id,
                       attempts |-> Head(batch[r]).attempts, at |-> "calling"]}]
    /\ batch' = [batch EXCEPT ![r] = Tail(@)]
    /\ UNCHANGED <<tableVars, runVars, relayLoop, scanAge, todo, activePart>>

(* The loop's context ended, or the run is stopping: releasePartitions. *)
DropBatch(r) ==
    /\ relayLoop[r] = "spawning" /\ batch[r] # <<>>
    /\ loopDone[r] \/ (Slots \ UsedSlots(r) # {} /\ runPhase[r] # "running")
    /\ Releasing(r, BatchRows(r))
    /\ batch' = [batch EXCEPT ![r] = <<>>]
    /\ UNCHANGED <<tableVars, runVars, relayLoop, scanAge, todo, workers>>

TickDone(r) ==
    /\ relayLoop[r] = "spawning" /\ batch[r] = <<>>
    /\ relayLoop' = [relayLoop EXCEPT ![r] = "idle"]
    /\ UNCHANGED <<tableVars, runVars, scanAge, todo, batch, workers, activePart>>

Advance(r, w, to) == workers' = [workers EXCEPT ![r] = (@ \ {w}) \cup {[w EXCEPT !.at = to]}]

CallbackAccepts(r, w) ==
    /\ w.at = "calling"
    /\ delivered' = delivered \cup {w.id}
    /\ Advance(r, w, "accepted")
    /\ UNCHANGED <<outbox, tx, failures, exposed, outages, replays, runVars, pollVars, activePart>>

(* The callback returned an error or panicked, the payload does not        *)
(* decode, or no callback is configured for its kind.                      *)
CallbackFails(r, w) ==
    /\ w.at = "calling"
    /\ failures' = [failures EXCEPT ![w.id] = IF @ < MaxTries THEN @ + 1 ELSE @]
    /\ Advance(r, w, "failed")
    /\ UNCHANGED <<outbox, tx, delivered, exposed, outages, replays, runVars, pollVars, activePart>>

(* A write of the worker failed: the database, or the shutdown context. *)
WriteFails(r) == IF shutDone[r] THEN UNCHANGED outages ELSE Outage

DeleteRow(i) == outbox' = [j \in DOMAIN outbox \ {i} |-> outbox[j]]

(* recordSuccess: DELETE by id; its error is only logged. *)
RelayRecordSuccess(r, w) ==
    /\ w.at = "accepted"
    /\ \/ DeleteRow(w.id) /\ UNCHANGED outages
       \/ (DeleteRow(w.id) \/ UNCHANGED outbox) /\ WriteFails(r)
    /\ Advance(r, w, "settled")
    /\ UNCHANGED <<tx, delivered, failures, exposed, replays, runVars, pollVars, activePart>>

(* backoffFor: doubled for every attempt after the first, capped. *)
BackoffFor(n) ==
    IF BackoffBase * 2^(n - 1) > BackoffMax THEN BackoffMax ELSE BackoffBase * 2^(n - 1)

(* Bug: the last failure removes the row instead of dead-lettering it. *)
FailedRowDropped(w) ==
    IF w.attempts + 1 >= MaxTries THEN DeleteRow(w.id)
    ELSE outbox' = [i \in DOMAIN outbox |->
             IF i = w.id
             THEN [attempts |-> w.attempts + 1, delay |-> BackoffFor(w.attempts + 1),
                   lease |-> NoLease, dlq |-> FALSE]
             ELSE outbox[i]]

(* Bug: a failure keeps the attempts the row had. *)
FailedRowNotCounted(w) ==
    outbox' = [i \in DOMAIN outbox |->
                 IF i = w.id
                 THEN [attempts |-> w.attempts, delay |-> BackoffFor(w.attempts + 1),
                       lease |-> NoLease, dlq |-> w.attempts >= MaxTries]
                 ELSE outbox[i]]

(* The UPDATE of recordFailure, from the attempts the worker was handed. *)
FailedRow(w) ==
    outbox' = [i \in DOMAIN outbox |->
                 IF i = w.id
                 THEN [attempts |-> w.attempts + 1, delay |-> BackoffFor(w.attempts + 1),
                       lease |-> NoLease, dlq |-> w.attempts + 1 >= MaxTries]
                 ELSE outbox[i]]

RelayRecordFailure(r, w) ==
    /\ w.at = "failed"
    /\ \/ FailedRow(w) /\ UNCHANGED outages
       \/ (FailedRow(w) \/ UNCHANGED outbox) /\ WriteFails(r)
    /\ Advance(r, w, "settled")
    /\ UNCHANGED <<tx, delivered, failures, exposed, replays, runVars, pollVars, activePart>>

(* The worker's defers: partition, semaphore, unit. *)
LeaveWorker(r, w) ==
    /\ w.at = "settled"
    /\ Releasing(r, {w.id})
    /\ workers' = [workers EXCEPT ![r] = @ \ {w}]
    /\ UNCHANGED <<tableVars, runVars, pollVars>>

-----------------------------------------------------------------------------
(* Runs *)

(* Start: refused while a run is running, waits while one is draining. *)
StartRelay(r) ==
    /\ runPhase[r] \in {"none", "finished"}
    /\ runPhase' = [runPhase EXCEPT ![r] = "running"]
    /\ relayLoop' = [relayLoop EXCEPT ![r] = "idle"]
    /\ loopDone' = [loopDone EXCEPT ![r] = FALSE]
    /\ shutDone' = [shutDone EXCEPT ![r] = FALSE]
    /\ UNCHANGED <<tableVars, scanAge, todo, batch, workers, activePart>>

(* Stop closes the run's admission. *)
StopRelay(r) ==
    /\ runPhase[r] = "running"
    /\ IF loopDone[r] THEN UNCHANGED outages ELSE Outage
    /\ runPhase' = [runPhase EXCEPT ![r] = "draining"]
    /\ UNCHANGED <<outbox, tx, delivered, failures, exposed, replays, loopDone, shutDone, pollVars, workers, activePart>>

(* drainRun cancels the loop; or the context Start was given ends. *)
EndLoop(r) ==
    /\ ~loopDone[r]
    /\ IF runPhase[r] = "draining" THEN UNCHANGED outages ELSE runPhase[r] = "running" /\ Outage
    /\ loopDone' = [loopDone EXCEPT ![r] = TRUE]
    /\ UNCHANGED <<outbox, tx, delivered, failures, exposed, replays, runPhase, shutDone, pollVars, workers, activePart>>

LoopReturns(r) ==
    /\ relayLoop[r] = "idle" /\ loopDone[r]
    /\ relayLoop' = [relayLoop EXCEPT ![r] = "off"]
    /\ UNCHANGED <<tableVars, runVars, scanAge, todo, batch, workers, activePart>>

(* The grace is over, or the context of a Stop ended. *)
EndGrace(r) ==
    /\ runPhase[r] = "draining" /\ ~shutDone[r]
    /\ shutDone' = [shutDone EXCEPT ![r] = TRUE]
    /\ UNCHANGED <<tableVars, runPhase, loopDone, pollVars, workers, activePart>>

(* Bug: the drain waits for the loop alone. *)
FinishRelayEarly(r) ==
    /\ runPhase[r] = "draining" /\ loopDone[r] /\ relayLoop[r] = "off"
    /\ runPhase' = [runPhase EXCEPT ![r] = "finished"]
    /\ UNCHANGED <<tableVars, loopDone, shutDone, pollVars, workers, activePart>>

(* Idle: the loop and every dispatch have released their units. *)
FinishRelay(r) ==
    /\ runPhase[r] = "draining" /\ loopDone[r] /\ relayLoop[r] = "off" /\ workers[r] = {}
    /\ runPhase' = [runPhase EXCEPT ![r] = "finished"]
    /\ UNCHANGED <<tableVars, loopDone, shutDone, pollVars, workers, activePart>>

(* The process is killed; its successor has a new Relay. *)
CrashRelay(r) ==
    /\ Outage /\ runPhase[r] # "none"
    /\ runPhase' = [runPhase EXCEPT ![r] = "none"] /\ relayLoop' = [relayLoop EXCEPT ![r] = "off"]
    /\ scanAge' = [scanAge EXCEPT ![r] = 0]
    /\ todo' = [todo EXCEPT ![r] = <<>>] /\ batch' = [batch EXCEPT ![r] = <<>>]
    /\ workers' = [workers EXCEPT ![r] = {}] /\ activePart' = [activePart EXCEPT ![r] = {}]
    /\ UNCHANGED <<outbox, tx, delivered, failures, exposed, replays, loopDone, shutDone>>

-----------------------------------------------------------------------------
(* Time *)

(* Rows a relay has claimed and not settled. *)
Holding(r) ==
    {w.id : w \in {v \in workers[r] : v.at # "settled"}} \cup BatchRows(r)
      \cup (IF relayLoop[r] = "reading" THEN {Head(todo[r])} ELSE {})

Claiming(r) == relayLoop[r] \in {"claiming", "reading"}

RelayTick ==
    /\ \E i \in DOMAIN outbox : outbox[i].delay > 0 \/ outbox[i].lease > NoLease
    /\ \A r \in Relays : Claiming(r) => scanAge[r] < MaxStale
    /\ outbox' = [i \in DOMAIN outbox |->
                    [outbox[i] EXCEPT !.delay = IF @ > 0 THEN @ - 1 ELSE 0,
                                      !.lease = IF @ > NoLease THEN @ - 1 ELSE NoLease]]
    /\ scanAge' = [r \in Relays |-> IF Claiming(r) THEN scanAge[r] + 1 ELSE 0]
    /\ exposed' = exposed \cup {i \in DOMAIN outbox : outbox[i].lease <= 1 /\ \E r \in Relays : i \in Holding(r)}
    /\ UNCHANGED <<tx, delivered, failures, outages, replays, runVars, relayLoop, todo, batch, workers, activePart>>

-----------------------------------------------------------------------------
LoopStep(r) ==
    \/ ScanCandidates(r) \/ SkipBusy(r) \/ TryClaim(r) \/ ReadRow(r) \/ ClaimDone(r)
    \/ SpawnWorker(r) \/ DropBatch(r) \/ TickDone(r) \/ LoopReturns(r)

WorkerStep(r) ==
    \E w \in workers[r] :
        \/ CallbackAccepts(r, w) \/ CallbackFails(r, w)
        \/ RelayRecordSuccess(r, w) \/ RelayRecordFailure(r, w) \/ LeaveWorker(r, w)

RunStep(r) == StartRelay(r) \/ EndLoop(r) \/ EndGrace(r) \/ FinishRelay(r)

Application(i) == Enqueue(i) \/ CommitTx(i) \/ RollbackTx(i) \/ Replay(i)

RelayNext ==
    \/ \E i \in RelayRows : Application(i) /\ UNCHANGED <<runVars, pollVars, workers, activePart>>
    \/ \E r \in Relays : LoopStep(r) \/ WorkerStep(r) \/ RunStep(r) \/ StopRelay(r) \/ CrashRelay(r)
    \/ RelayTick

RelaySpec == RelayInit /\ [][RelayNext]_relayVars

(* Relays poll, callbacks return, the database answers, drains go on,      *)
(* stopped relays are started again, a run whose context ended is stopped, *)
(* and time passes.                                                        *)
RelayFairness ==
    /\ \A r \in Relays :
         /\ WF_relayVars(LoopStep(r)) /\ WF_relayVars(WorkerStep(r))
         /\ WF_relayVars(StartRelay(r)) /\ WF_relayVars(FinishRelay(r))
         /\ WF_relayVars(runPhase[r] = "draining" /\ EndLoop(r))
         /\ WF_relayVars(loopDone[r] /\ StopRelay(r))
    /\ WF_relayVars(RelayTick)

RelayLiveSpec == RelaySpec /\ RelayFairness

-----------------------------------------------------------------------------
(* Properties *)

(* The table, the goroutines and the partition map are well formed. *)
RelayTypeOK ==
    /\ DOMAIN outbox \subseteq RelayRows
    /\ \A i \in DOMAIN outbox :
         outbox[i] \in [attempts: Nat, delay: Nat, lease: NoLease..LeaseDuration, dlq: BOOLEAN]
    /\ tx \in [RelayRows -> {"none", "open", "committed", "rolledBack"}]
    /\ runPhase \in [Relays -> {"none", "running", "draining", "finished"}]
    /\ relayLoop \in [Relays -> LoopStates]
    /\ \A r \in Relays : \A w \in workers[r] :
         w \in [slot: Slots, id: RelayRows, attempts: Nat, at: {"calling", "accepted", "failed", "settled"}]
    /\ activePart \in [Relays -> SUBSET Parts]
    /\ scanAge \in [Relays -> 0..MaxStale]

(* No recorded row is lost: a committed row stays in the table until a     *)
(* callback has accepted it, dead-lettered rows included, and a row whose  *)
(* transaction rolled back is never delivered (TransactionWithOutbox,      *)
(* recordSuccess).  A row is dead-lettered only after max_attempts         *)
(* dispatches of it failed, although stale workers overwrite the attempts  *)
(* column (recordFailure).                                                 *)
OutboxNeverLoses ==
    \A i \in RelayRows :
        /\ tx[i] = "committed" => i \in DOMAIN outbox \/ i \in delivered
        /\ i \in delivered => tx[i] = "committed"
        /\ i \in DOMAIN outbox /\ outbox[i].dlq => failures[i] = MaxTries

(* "row claim uses lease + atomic CAS so only one relay handles a row at a *)
(* time" (Relay): callbacks of one row run side by side only after a lease *)
(* of the row ran out in use, or an operator replayed it; no stale scan,   *)
(* stop, restart, crash or failed write is enough.                         *)
OneHandlerPerLease ==
    \A r, q \in Relays : \A w \in workers[r], v \in workers[q] :
        /\ w.id = v.id /\ <<r, w.slot>> # <<q, v.slot>>
        /\ w.at = "calling" /\ v.at = "calling"
        => w.id \in exposed

(* A partition is reserved on a relay exactly while the relay works on a   *)
(* row of it, and on one row only: neither a skipped claim, an ended       *)
(* context, a stop nor a restart leaks a reservation ("silent stall on     *)
(* shutdown + restart", tick) or drops one early.                          *)
RowsInHand(r) ==
    {<<0, w.slot, w.id>> : w \in workers[r]}
      \cup {<<1, k, batch[r][k].id>> : k \in DOMAIN batch[r]}
      \cup (IF relayLoop[r] = "reading" THEN {<<2, 0, Head(todo[r])>>} ELSE {})

PartitionsAccounted ==
    \A r \in Relays :
        /\ activePart[r] = {PartOf[x[3]] : x \in RowsInHand(r)} \ {NoPart}
        /\ \A x, y \in RowsInHand(r) : PartOf[x[3]] = PartOf[y[3]] /\ PartOf[x[3]] # NoPart => x = y

(* The units of a run: its loop and its dispatches. *)
RunUnits(r) == UsedSlots(r) \cup (IF relayLoop[r] = "off" THEN {} ELSE {0})

Life(r) == INSTANCE RunLifecycle WITH phase <- runPhase[r], held <- RunUnits(r)

(* The relay's runs keep the promise of drain.Run: dispatches start only   *)
(* before the stop, a stop that finished left none behind, and two runs of *)
(* one relay never overlap (beginRun, drainRun, tick).                     *)
RelayKeepsLifecycle ==
    /\ \A r \in Relays : Life(r)!LifecycleInit
    /\ [][\A r \in Relays : [Life(r)!LifecycleNext]_<<runPhase[r], RunUnits(r)>>]_relayVars

(* Every committed row is delivered or dead-lettered for good in the end,  *)
(* through crashes, restarts, lost writes and replays: no row is stranded  *)
(* under a lease nobody holds or behind a partition nobody works on.       *)
RowsSettle ==
    \A i \in RelayRows :
        tx[i] = "committed" ~> [](i \notin DOMAIN outbox \/ outbox[i].dlq)

(* "The relay processes rows with the same key strictly in id order"       *)
(* (WithPartitionKey): no row of a partition is handed to the callback     *)
(* while an earlier one, already tried, still waits for its retry.         *)
PartitionInOrder ==
    [][\A r \in Relays : \A w \in workers'[r] \ workers[r] : \A j \in DOMAIN outbox :
          /\ w.at = "calling" /\ PartOf[w.id] # NoPart
          /\ PartOf[j] = PartOf[w.id] /\ j < w.id /\ failures[j] > 0
          => j \in delivered \/ outbox[j].dlq]_relayVars
=============================================================================
