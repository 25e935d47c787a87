-------------------------- MODULE OutboxRelayProofs --------------------------
(***************************************************************************)
(* The outbox's guarantees for any number of relays, rows, partitions,     *)
(* workers and tries, any lease and backoff, and any number of outages.    *)
(***************************************************************************)
EXTENDS OutboxRelay, TLAPS

USE RelayAssumption DEF RelayAssumption

-----------------------------------------------------------------------------
(* The shape of the state *)

(* A row has the four columns the relay works with. *)
IsRow(x) ==
    /\ x = [attempts |-> x.attempts, delay |-> x.delay, lease |-> x.lease, dlq |-> x.dlq]
    /\ x.attempts \in Nat /\ x.lease \in Int /\ x.dlq \in BOOLEAN

(* A dispatch goroutine works on one row, from the attempts it was handed. *)
IsWorker(w) ==
    /\ w = [slot |-> w.slot, id |-> w.id, attempts |-> w.attempts, at |-> w.at]
    /\ w.id \in RelayRows /\ w.attempts \in Nat
    /\ w.at \in {"calling", "accepted", "failed", "settled"}

(* Worker w at its next place, and the worker the head of a batch goes to. *)
Moved(w, l) == [slot |-> w.slot, id |-> w.id, attempts |-> w.attempts, at |-> l]
Spawned(r) ==
    [slot |-> FreeSlot(r), id |-> batch[r][1].id, attempts |-> batch[r][1].attempts, at |-> "calling"]

Claimed == [id: RelayRows, attempts: Nat]

RelayShape ==
    /\ outbox = [i \in DOMAIN outbox |-> outbox[i]] /\ DOMAIN outbox \subseteq RelayRows
    /\ \A i \in DOMAIN outbox : IsRow(outbox[i])
    /\ tx \in [RelayRows -> {"none", "open", "committed", "rolledBack"}]
    /\ batch \in [Relays -> Seq(Claimed)] /\ todo = [r \in Relays |-> todo[r]]
    /\ workers = [r \in Relays |-> workers[r]] /\ \A r \in Relays : \A w \in workers[r] : IsWorker(w)
    /\ failures \in [RelayRows -> 0..MaxTries]
    /\ scanAge \in [Relays -> 0..MaxStale]
    /\ relayLoop \in [Relays -> LoopStates]

(* The table, the goroutines and the run of one relay that a step leaves   *)
(* alone.                                                                  *)
rowVars == <<outbox, tx, batch, workers, failures, delivered>>

(* The lease column of row i is set, whoever does it. *)
LeaseSet(i, n) == outbox' = [outbox EXCEPT ![i].lease = n]

(* The UPDATE of a claim changes the lease of one row and nothing else. *)
LEMMA LeaseSetEffect ==
    ASSUME RelayShape, NEW i \in DOMAIN outbox, NEW n \in Int, LeaseSet(i, n)
    PROVE  /\ outbox' = [j \in DOMAIN outbox' |-> outbox'[j]] /\ DOMAIN outbox' = DOMAIN outbox
           /\ \A j \in DOMAIN outbox : j # i => outbox'[j] = outbox[j]
           /\ IsRow(outbox'[i]) /\ outbox'[i].lease = n
           /\ outbox'[i].attempts = outbox[i].attempts /\ outbox'[i].dlq = outbox[i].dlq
<1>1. IsRow(outbox[i]) /\ outbox = [j \in DOMAIN outbox |-> outbox[j]]
  BY DEF RelayShape
<1>2. outbox' = [j \in DOMAIN outbox |-> IF j = i THEN [outbox[i] EXCEPT !.lease = n] ELSE outbox[j]]
  BY <1>1, Zenon DEF LeaseSet
<1>3. [outbox[i] EXCEPT !.lease = n]
        = [attempts |-> outbox[i].attempts, delay |-> outbox[i].delay, lease |-> n, dlq |-> outbox[i].dlq]
  BY <1>1 DEF IsRow
<1> QED
  BY <1>1, <1>2, <1>3 DEF IsRow

(* A step of the claim: the table is left alone, or the lease of one row   *)
(* that was open is set and outlives the batch's scan.                     *)
LEMMA TryClaimEffect ==
    ASSUME RelayShape, NEW r \in Relays, TryClaim(r)
    PROVE  LET i == Head(todo[r]) IN
           /\ UNCHANGED <<tx, batch, workers, failures, delivered, exposed, scanAge>>
           /\ relayLoop[r] = "claiming"
           /\ todo' = [q \in Relays |-> todo'[q]] /\ \A q \in Relays : q # r => todo'[q] = todo[q]
           /\ \/ UNCHANGED <<outbox, relayLoop>>
              \/ /\ i \in DOMAIN outbox /\ outbox[i].lease <= -scanAge[r]
                 /\ LeaseSet(i, LeaseDuration - scanAge[r])
                 /\ \/ UNCHANGED relayLoop
                    \/ relayLoop' = [relayLoop EXCEPT ![r] = "reading"] /\ UNCHANGED todo
<1>1. todo = [q \in Relays |-> todo[q]]
  BY DEF RelayShape
<1> QED
  BY <1>1, ZenonT(30) DEF TryClaim, ClaimRow, ClaimLost, ClaimFails, Claimable, LeaseOpen, LeaseSet, tableVars

(* One worker moves on: the others of its relay and of the other relays    *)
(* stay as they are.                                                       *)
LEMMA AdvanceEffect ==
    ASSUME RelayShape, NEW r \in Relays, NEW w \in workers[r],
           NEW l \in {"calling", "accepted", "failed", "settled"}, Advance(r, w, l)
    PROVE  /\ IsWorker(Moved(w, l)) /\ workers' = [q \in Relays |-> workers'[q]]
           /\ workers'[r] = (workers[r] \ {w}) \cup {Moved(w, l)}
           /\ \A q \in Relays : q # r => workers'[q] = workers[q]
           /\ Moved(w, l).id = w.id /\ Moved(w, l).attempts = w.attempts /\ Moved(w, l).at = l
<1>1. IsWorker(w) /\ workers = [q \in Relays |-> workers[q]]
  BY DEF RelayShape
<1>2. [w EXCEPT !.at = l] = Moved(w, l)
  BY <1>1 DEF IsWorker, Moved
<1>3. workers' = [workers EXCEPT ![r] = (workers[r] \ {w}) \cup {Moved(w, l)}]
  BY <1>2, Zenon DEF Advance
<1>4. IsWorker(Moved(w, l)) /\ Moved(w, l).id = w.id /\ Moved(w, l).attempts = w.attempts /\ Moved(w, l).at = l
  BY <1>1 DEF IsWorker, Moved
<1> QED
  BY <1>1, <1>3, <1>4, Zenon

(* ReadRow hands on the row it read, or gives the claim up. *)
LEMMA ReadRowEffect ==
    ASSUME RelayShape, NEW r \in Relays, ReadRow(r)
    PROVE  LET i == Head(todo[r]) IN
           /\ UNCHANGED <<outbox, tx, workers, failures, delivered, exposed, scanAge>>
           /\ relayLoop[r] = "reading" /\ relayLoop' = [relayLoop EXCEPT ![r] = "claiming"]
           /\ \A q \in Relays : q # r => batch'[q] = batch[q] /\ todo'[q] = todo[q]
           /\ todo' = [q \in Relays |-> todo'[q]]
           /\ batch' \in [Relays -> Seq(Claimed)]
           /\ \/ UNCHANGED batch
              \/ /\ i \in DOMAIN outbox
                 /\ DOMAIN batch'[r] = 1..(Len(batch[r]) + 1)
                 /\ \A k \in DOMAIN batch[r] : batch'[r][k] = batch[r][k]
                 /\ batch'[r][Len(batch[r]) + 1] = [id |-> i, attempts |-> outbox[i].attempts]
<1> DEFINE i == Head(todo[r])
           c == [id |-> i, attempts |-> outbox[i].attempts]
<1>0. /\ batch \in [Relays -> Seq(Claimed)] /\ batch[r] \in Seq(Claimed)
      /\ i \in DOMAIN outbox => c \in Claimed
  BY Zenon DEF RelayShape, IsRow, Claimed
<1> HIDE DEF i, c
<1>a. todo = [q \in Relays |-> todo[q]]
  BY DEF RelayShape
<1>1. /\ UNCHANGED <<outbox, tx, workers, failures, delivered, exposed, scanAge>>
      /\ relayLoop[r] = "reading" /\ relayLoop' = [relayLoop EXCEPT ![r] = "claiming"]
      /\ \A q \in Relays : q # r => todo'[q] = todo[q]
      /\ todo' = [q \in Relays |-> todo'[q]]
      /\ UNCHANGED batch \/ (i \in DOMAIN outbox /\ batch' = [batch EXCEPT ![r] = Append(batch[r], c)])
  BY <1>a, Zenon DEF ReadRow, i, c
<1>2. CASE UNCHANGED batch
  BY <1>0, <1>1, <1>2 DEF i
<1>3. CASE i \in DOMAIN outbox /\ batch' = [batch EXCEPT ![r] = Append(batch[r], c)]
  <2>1. Append(batch[r], c) \in Seq(Claimed)
    BY <1>0, <1>3
  <2>2. batch'[r] = Append(batch[r], c) /\ \A q \in Relays : q # r => batch'[q] = batch[q]
    BY <1>0, <1>3
  <2>3. /\ DOMAIN batch'[r] = 1..(Len(batch[r]) + 1)
        /\ \A k \in DOMAIN batch[r] : batch'[r][k] = batch[r][k]
        /\ batch'[r][Len(batch[r]) + 1] = c
    BY <1>0, <1>3, <2>2
  <2>4. batch' \in [Relays -> Seq(Claimed)]
    BY <1>0, <1>3, <2>1
  <2> QED
    BY <1>1, <1>3, <2>2, <2>3, <2>4, ZenonT(30) DEF i, c
<1> QED
  BY <1>1, <1>2, <1>3, ZenonT(30)

(* SpawnWorker moves the head of the batch to a goroutine. *)
LEMMA SpawnEffect ==
    ASSUME RelayShape, NEW r \in Relays, SpawnWorker(r)
    PROVE  LET b == batch[r] n == Spawned(r) IN
           /\ UNCHANGED <<outbox, tx, failures, delivered, exposed, scanAge, relayLoop, todo>>
           /\ 1 \in DOMAIN b /\ IsWorker(n)
           /\ n.id = b[1].id /\ n.attempts = b[1].attempts /\ n.at = "calling"
           /\ workers' = [q \in Relays |-> workers'[q]] /\ workers'[r] = workers[r] \cup {n}
           /\ \A q \in Relays : q # r => workers'[q] = workers[q] /\ batch'[q] = batch[q]
           /\ batch' \in [Relays -> Seq(Claimed)]
           /\ \A k \in DOMAIN batch'[r] : k + 1 \in DOMAIN b /\ k + 1 # 1 /\ batch'[r][k] = b[k + 1]
<1> DEFINE b == batch[r]
<1>0. batch \in [Relays -> Seq(Claimed)] /\ b \in Seq(Claimed) /\ b # <<>>
  BY DEF RelayShape, SpawnWorker
<1>1. 1 \in DOMAIN b /\ Head(b) = b[1] /\ b[1] \in Claimed
  BY <1>0
<1>2. /\ UNCHANGED <<outbox, tx, failures, delivered, exposed, scanAge, relayLoop, todo>>
      /\ batch' = [batch EXCEPT ![r] = Tail(b)]
      /\ workers' = [workers EXCEPT ![r] = workers[r] \cup {Spawned(r)}]
  BY <1>1 DEF SpawnWorker, tableVars, Spawned
<1>3. IsWorker(Spawned(r)) /\ Spawned(r).id = b[1].id /\ Spawned(r).attempts = b[1].attempts
      /\ Spawned(r).at = "calling"
  BY <1>1 DEF IsWorker, Claimed, Spawned
<1>4. workers = [q \in Relays |-> workers[q]]
  BY DEF RelayShape
<1> HIDE DEF b
<1>5. batch'[r] = Tail(b) /\ batch' \in [Relays -> Seq(Claimed)] /\ \A q \in Relays : q # r => batch'[q] = batch[q]
  BY <1>0, <1>2
<1>6. \A k \in DOMAIN Tail(b) : k + 1 \in DOMAIN b /\ k + 1 # 1 /\ Tail(b)[k] = b[k + 1]
  BY <1>0
<1>7. workers' = [q \in Relays |-> workers'[q]] /\ workers'[r] = workers[r] \cup {Spawned(r)}
      /\ \A q \in Relays : q # r => workers'[q] = workers[q]
  BY <1>2, <1>4, Zenon
<1> QED
  BY <1>1, <1>2, <1>3, <1>5, <1>6, <1>7, ZenonT(30) DEF b

(* The UPDATE of recordFailure rewrites one row, if it is still there. *)
LEMMA FailedRowEffect ==
    ASSUME RelayShape, NEW w, IsWorker(w), FailedRow(w)
    PROVE  /\ outbox' = [j \in DOMAIN outbox' |-> outbox'[j]] /\ DOMAIN outbox' = DOMAIN outbox
           /\ \A j \in DOMAIN outbox : j # w.id => outbox'[j] = outbox[j]
           /\ w.id \in DOMAIN outbox =>
                /\ IsRow(outbox'[w.id]) /\ outbox'[w.id].attempts = w.attempts + 1
                /\ outbox'[w.id].dlq = (w.attempts + 1 >= MaxTries)
<1>1. (w.attempts + 1 >= MaxTries) \in BOOLEAN /\ w.attempts + 1 \in Nat /\ NoLease \in Int
  BY DEF IsWorker, NoLease
<1> QED
  BY <1>1, Zenon DEF FailedRow, IsRow

(* What a tick does to the table: leases run down. *)
LEMMA TickEffect ==
    ASSUME RelayShape, RelayTick
    PROVE  /\ outbox' = [j \in DOMAIN outbox' |-> outbox'[j]] /\ DOMAIN outbox' = DOMAIN outbox
           /\ \A j \in DOMAIN outbox :
                /\ IsRow(outbox'[j])
                /\ outbox'[j].attempts = outbox[j].attempts /\ outbox'[j].dlq = outbox[j].dlq
                /\ outbox[j].lease > 1 => outbox'[j].lease > 0
<1>1. \A j \in DOMAIN outbox :
        outbox'[j] = [outbox[j] EXCEPT !.delay = IF outbox[j].delay > 0 THEN outbox[j].delay - 1 ELSE 0,
                                       !.lease = IF outbox[j].lease > NoLease THEN outbox[j].lease - 1 ELSE NoLease]
  BY Zenon DEF RelayTick
<1>2. outbox' = [j \in DOMAIN outbox' |-> outbox'[j]] /\ DOMAIN outbox' = DOMAIN outbox
  BY Zenon DEF RelayTick
<1>3. ASSUME NEW j \in DOMAIN outbox
      PROVE  LET d == IF outbox[j].delay > 0 THEN outbox[j].delay - 1 ELSE 0
                 l == IF outbox[j].lease > NoLease THEN outbox[j].lease - 1 ELSE NoLease
             IN  outbox'[j] = [attempts |-> outbox[j].attempts, delay |-> d, lease |-> l, dlq |-> outbox[j].dlq]
  <2>1. IsRow(outbox[j])
    BY DEF RelayShape
  <2> QED
    BY <1>1, <2>1, ZenonT(30) DEF IsRow
<1>4. NoLease \in Int /\ NoLease <= 0
  BY DEF NoLease
<1>5. \A j \in DOMAIN outbox : IsRow(outbox[j])
  BY DEF RelayShape
<1> QED
  BY <1>2, <1>3, <1>4, <1>5 DEF IsRow

(* Steps that touch neither the table nor what the relays hold of it. *)
Elsewhere(r) ==
    \/ ScanCandidates(r) \/ SkipBusy(r) \/ ClaimDone(r) \/ TickDone(r) \/ LoopReturns(r)
    \/ RunStep(r) \/ StopRelay(r)

LEMMA ElsewhereEffect ==
    ASSUME RelayShape, NEW r \in Relays, Elsewhere(r)
    PROVE  /\ UNCHANGED <<rowVars, exposed>>
           /\ scanAge' \in [Relays -> 0..MaxStale] /\ relayLoop' \in [Relays -> LoopStates]
           /\ todo' = [q \in Relays |-> todo'[q]]
           /\ relayLoop'[r] # "reading" \/ (relayLoop'[r] = relayLoop[r] /\ todo'[r] = todo[r])
           /\ \A q \in Relays : q # r => relayLoop'[q] = relayLoop[q] /\ todo'[q] = todo[q]
<1>0. scanAge \in [Relays -> 0..MaxStale] /\ relayLoop \in [Relays -> LoopStates]
  BY ZenonT(30) DEF RelayShape
<1>c. todo = [q \in Relays |-> todo[q]]
  BY DEF RelayShape
<1>1. CASE ScanCandidates(r)
  <2>1. todo' = [q \in Relays |-> IF q = r THEN todo'[r] ELSE todo[q]]
    BY <1>1, <1>c, Zenon DEF ScanCandidates
  <2>2. UNCHANGED <<rowVars, exposed>>
    BY <1>1 DEF ScanCandidates, rowVars, tableVars
  <2>3. relayLoop' = [relayLoop EXCEPT ![r] = "claiming"] /\ scanAge' = [scanAge EXCEPT ![r] = 0]
    BY <1>1 DEF ScanCandidates
  <2> QED
    BY <1>0, <2>1, <2>2, <2>3 DEF LoopStates
<1>a. CASE SkipBusy(r)
  BY <1>0, <1>a, <1>c, Zenon DEF SkipBusy, rowVars, tableVars
<1>b. CASE ClaimDone(r)
  BY <1>0, <1>b, <1>c, SMTT(30) DEF ClaimDone, rowVars, tableVars, LoopStates
<1>2. CASE TickDone(r) \/ LoopReturns(r) \/ StartRelay(r)
  BY <1>0, <1>2, <1>c, Zenon DEF TickDone, LoopReturns, StartRelay, rowVars, tableVars, LoopStates
<1>3. CASE EndLoop(r) \/ EndGrace(r) \/ FinishRelay(r) \/ StopRelay(r)
  BY <1>0, <1>3, <1>c DEF EndLoop, EndGrace, FinishRelay, StopRelay, rowVars, tableVars, pollVars
<1> QED
  BY <1>1, <1>2, <1>3, <1>a, <1>b DEF Elsewhere, RunStep

(* The lists and goroutines of a relay that crashes are gone. *)
LEMMA CrashEffect ==
    ASSUME RelayShape, NEW r \in Relays, CrashRelay(r)
    PROVE  /\ UNCHANGED <<outbox, tx, failures, delivered, exposed>>
           /\ batch' \in [Relays -> Seq(Claimed)] /\ batch'[r] = <<>>
           /\ workers' = [q \in Relays |-> workers'[q]] /\ workers'[r] = {}
           /\ todo' = [q \in Relays |-> todo'[q]]
           /\ scanAge' \in [Relays -> 0..MaxStale] /\ relayLoop' \in [Relays -> LoopStates]
           /\ relayLoop'[r] = "off"
           /\ \A q \in Relays : q # r => /\ batch'[q] = batch[q] /\ workers'[q] = workers[q]
                                         /\ relayLoop'[q] = relayLoop[q] /\ todo'[q] = todo[q]
<1>1. /\ batch \in [Relays -> Seq(Claimed)] /\ workers = [q \in Relays |-> workers[q]]
      /\ todo = [q \in Relays |-> todo[q]]
      /\ scanAge \in [Relays -> 0..MaxStale] /\ relayLoop \in [Relays -> LoopStates]
  BY ZenonT(30) DEF RelayShape
<1>2. <<>> \in Seq(Claimed)
  OBVIOUS
<1>3. /\ batch' = [batch EXCEPT ![r] = <<>>] /\ workers' = [workers EXCEPT ![r] = {}]
      /\ todo' = [todo EXCEPT ![r] = <<>>] /\ scanAge' = [scanAge EXCEPT ![r] = 0]
      /\ relayLoop' = [relayLoop EXCEPT ![r] = "off"]
      /\ UNCHANGED <<outbox, tx, failures, delivered, exposed>>
  BY DEF CrashRelay
<1>4. batch' \in [Relays -> Seq(Claimed)] /\ batch'[r] = <<>>
      /\ \A q \in Relays : q # r => batch'[q] = batch[q]
  BY <1>1, <1>2, <1>3
<1>5. /\ workers' = [q \in Relays |-> workers'[q]] /\ workers'[r] = {}
      /\ \A q \in Relays : q # r => workers'[q] = workers[q]
  BY <1>1, <1>3, Zenon
<1>6. todo' = [q \in Relays |-> todo'[q]] /\ \A q \in Relays : q # r => todo'[q] = todo[q]
  BY <1>1, <1>3, Zenon
<1>7. /\ scanAge' \in [Relays -> 0..MaxStale] /\ relayLoop' \in [Relays -> LoopStates]
      /\ relayLoop'[r] = "off" /\ \A q \in Relays : q # r => relayLoop'[q] = relayLoop[q]
  BY <1>1, <1>3, SMTT(30) DEF LoopStates
<1> QED
  BY <1>3, <1>4, <1>5, <1>6, <1>7

(* DropBatch gives the rest of the batch up. *)
LEMMA DropEffect ==
    ASSUME RelayShape, NEW r \in Relays, DropBatch(r)
    PROVE  /\ UNCHANGED <<outbox, tx, workers, failures, delivered, exposed, scanAge, relayLoop, todo>>
           /\ batch' \in [Relays -> Seq(Claimed)] /\ batch'[r] = <<>>
           /\ \A q \in Relays : q # r => batch'[q] = batch[q]
<1>1. batch \in [Relays -> Seq(Claimed)] /\ <<>> \in Seq(Claimed)
  BY DEF RelayShape
<1> QED
  BY <1>1 DEF DropBatch, tableVars

(* The parts of the shape: the table, the transactions, the polls, the     *)
(* dispatched workers and the failures counted.                            *)
Table == /\ outbox = [i \in DOMAIN outbox |-> outbox[i]] /\ DOMAIN outbox \subseteq RelayRows
         /\ \A i \in DOMAIN outbox : IsRow(outbox[i])
Txs == tx \in [RelayRows -> {"none", "open", "committed", "rolledBack"}]
Polls == /\ batch \in [Relays -> Seq(Claimed)] /\ todo = [r \in Relays |-> todo[r]]
         /\ scanAge \in [Relays -> 0..MaxStale] /\ relayLoop \in [Relays -> LoopStates]
Pool == workers = [r \in Relays |-> workers[r]] /\ \A r \in Relays : \A w \in workers[r] : IsWorker(w)
Tally == failures \in [RelayRows -> 0..MaxTries]

LEMMA ShapeSplit == RelayShape <=> Table /\ Txs /\ Polls /\ Pool /\ Tally
  BY Zenon DEF RelayShape, Table, Txs, Polls, Pool, Tally

LEMMA ShapeJoin == RelayShape' <=> Table' /\ Txs' /\ Polls' /\ Pool' /\ Tally'
  BY Zenon DEF RelayShape, Table, Txs, Polls, Pool, Tally, IsRow, IsWorker, LoopStates

LEMMA TableSame == ASSUME Table, UNCHANGED outbox PROVE Table'
  BY DEF Table, IsRow

LEMMA PoolSame == ASSUME Pool, UNCHANGED workers PROVE Pool'
  BY DEF Pool, IsWorker

LEMMA PollsSame == ASSUME Polls, UNCHANGED pollVars PROVE Polls'
  BY DEF Polls, pollVars, LoopStates

LEMMA FreshRowTyped ==
    FreshRow = [attempts |-> 0, delay |-> 0, lease |-> NoLease, dlq |-> FALSE] /\ IsRow(FreshRow)
  BY DEF FreshRow, IsRow, NoLease

LEMMA AdvancePool ==
    ASSUME RelayShape, NEW r \in Relays, NEW w \in workers[r],
           NEW l \in {"calling", "accepted", "failed", "settled"}, Advance(r, w, l)
    PROVE  Pool'
<1>1. /\ IsWorker(Moved(w, l)) /\ workers' = [q \in Relays |-> workers'[q]]
      /\ workers'[r] = (workers[r] \ {w}) \cup {Moved(w, l)}
      /\ \A q \in Relays : q # r => workers'[q] = workers[q]
  BY AdvanceEffect
<1>2. \A q \in Relays : \A v \in workers[q] : IsWorker(v)
  BY DEF RelayShape
<1>3. \A q \in Relays : \A v \in workers'[q] : IsWorker(v)
  BY <1>1, <1>2
<1> QED
  BY <1>1, <1>3 DEF IsWorker, Pool

LEMMA DeleteTable == ASSUME Table, NEW i, DeleteRow(i) PROVE Table'
  BY DEF Table, DeleteRow, IsRow

LEMMA RestSame == ASSUME RelayShape, UNCHANGED <<tx, failures>> PROVE Txs' /\ Tally'
  BY ShapeSplit DEF Txs, Tally

LEMMA ShapeApplication ==
    ASSUME RelayShape, NEW i \in RelayRows, Application(i), UNCHANGED <<runVars, pollVars, workers, activePart>>
    PROVE  RelayShape'
<1>1. UNCHANGED failures
  BY DEF Application, Enqueue, CommitTx, RollbackTx, Replay
<1>2. Polls' /\ Pool' /\ Tally'
  BY ShapeSplit, PoolSame, PollsSame, <1>1 DEF Tally
<1>3. Txs'
  BY ShapeSplit DEF Application, Enqueue, CommitTx, RollbackTx, Replay, Txs
<1>4. CASE Enqueue(i) \/ RollbackTx(i)
  <2>1. UNCHANGED outbox
    BY <1>4 DEF Enqueue, RollbackTx
  <2> QED
    BY ShapeSplit, ShapeJoin, TableSame, <1>2, <1>3, <2>1
<1>5. CASE CommitTx(i)
  <2>1. outbox' = [j \in DOMAIN outbox \cup {i} |-> IF j = i THEN FreshRow ELSE outbox[j]]
    BY <1>5 DEF CommitTx
  <2>2. DOMAIN outbox' = DOMAIN outbox \cup {i} /\ outbox' = [j \in DOMAIN outbox' |-> outbox'[j]]
    BY <2>1
  <2>3. \A j \in DOMAIN outbox' : outbox'[j] = FreshRow \/ (j \in DOMAIN outbox /\ outbox'[j] = outbox[j])
    BY <2>1
  <2>4. \A j \in DOMAIN outbox' : IsRow(outbox'[j])
    BY ShapeSplit, FreshRowTyped, <2>3, Zenon DEF Table
  <2>5. DOMAIN outbox' \subseteq RelayRows
    BY ShapeSplit, <2>2 DEF Table
  <2>6. Table'
    BY <2>2, <2>4, <2>5 DEF IsRow, Table
  <2> QED
    BY ShapeJoin, <1>2, <1>3, <2>6
<1>6. CASE Replay(i)
  <2>1. Table'
    BY ShapeSplit, FreshRowTyped, <1>6, ZenonT(30) DEF Replay, IsRow, Table
  <2> QED
    BY ShapeJoin, <1>2, <1>3, <2>1
<1> QED
  BY <1>4, <1>5, <1>6 DEF Application

LEMMA ShapeElsewhere ==
    ASSUME RelayShape, NEW r \in Relays, Elsewhere(r)
    PROVE  RelayShape'
<1>1. Polls'
  BY ShapeSplit, ElsewhereEffect, ZenonT(30) DEF rowVars, Polls
<1> QED
  BY ShapeSplit, ShapeJoin, TableSame, PoolSame, RestSame, ElsewhereEffect, <1>1 DEF rowVars

LEMMA ShapeTryClaim ==
    ASSUME RelayShape, NEW r \in Relays, TryClaim(r)
    PROVE  RelayShape'
<1>1. Txs' /\ Pool' /\ Tally'
  BY ShapeSplit, PoolSame, RestSame, TryClaimEffect
<1>2. Polls'
  BY ShapeSplit, TryClaimEffect, Zenon DEF LoopStates, Polls
<1>3. Table'
  <2>1. CASE UNCHANGED outbox
    BY ShapeSplit, TableSame, <2>1
  <2>2. CASE /\ Head(todo[r]) \in DOMAIN outbox
             /\ LeaseSet(Head(todo[r]), LeaseDuration - scanAge[r])
    <3>1. LeaseDuration - scanAge[r] \in Int
      BY ShapeSplit DEF Polls
    <3> QED
      BY ShapeSplit, <2>2, <3>1, LeaseSetEffect, ZenonT(30) DEF IsRow, Table
  <2> QED
    BY <2>1, <2>2, TryClaimEffect
<1> QED
  BY ShapeJoin, <1>1, <1>2, <1>3

LEMMA ShapeReadRow ==
    ASSUME RelayShape, NEW r \in Relays, ReadRow(r)
    PROVE  RelayShape'
<1>1. Polls'
  BY ShapeSplit, ReadRowEffect, ZenonT(30) DEF LoopStates, Polls
<1> QED
  BY ShapeSplit, ShapeJoin, TableSame, PoolSame, RestSame, ReadRowEffect, <1>1, Zenon

LEMMA ShapeSpawn ==
    ASSUME RelayShape, NEW r \in Relays, SpawnWorker(r)
    PROVE  RelayShape'
<1>1. /\ IsWorker(Spawned(r)) /\ workers' = [q \in Relays |-> workers'[q]]
      /\ workers'[r] = workers[r] \cup {Spawned(r)}
      /\ \A q \in Relays : q # r => workers'[q] = workers[q]
  BY SpawnEffect, ZenonT(30)
<1>2. /\ UNCHANGED <<outbox, tx, failures, scanAge, relayLoop, todo>>
      /\ batch' \in [Relays -> Seq(Claimed)]
  BY SpawnEffect
<1>3. \A q \in Relays : \A v \in workers'[q] : IsWorker(v)
  BY ShapeSplit, <1>1 DEF Pool
<1>4. Pool'
  BY <1>1, <1>3 DEF IsWorker, Pool
<1>5. Polls'
  BY ShapeSplit, <1>2, ZenonT(30) DEF LoopStates, Polls
<1> QED
  BY ShapeSplit, ShapeJoin, TableSame, RestSame, <1>2, <1>4, <1>5

LEMMA ShapeDrop ==
    ASSUME RelayShape, NEW r \in Relays, DropBatch(r)
    PROVE  RelayShape'
<1>1. Polls'
  BY ShapeSplit, DropEffect, ZenonT(30) DEF Polls
<1> QED
  BY ShapeSplit, ShapeJoin, TableSame, PoolSame, RestSame, DropEffect, <1>1

LEMMA ShapeCallback ==
    ASSUME RelayShape, NEW r \in Relays, NEW w \in workers[r], CallbackAccepts(r, w) \/ CallbackFails(r, w)
    PROVE  RelayShape'
<1>1. w.id \in RelayRows
  BY ShapeSplit DEF IsWorker, Pool
<1>2. Tally'
  <2>1. UNCHANGED failures \/ failures' = [failures EXCEPT ![w.id] = IF failures[w.id] < MaxTries
                                                                     THEN failures[w.id] + 1 ELSE failures[w.id]]
    BY DEF CallbackAccepts, CallbackFails
  <2>2. Tally /\ failures[w.id] \in 0..MaxTries
    BY ShapeSplit, <1>1 DEF Tally
  <2> QED
    BY <1>1, <2>1, <2>2 DEF Tally
<1>3. UNCHANGED <<outbox, tx, pollVars>> /\ (Advance(r, w, "accepted") \/ Advance(r, w, "failed"))
  BY DEF CallbackAccepts, CallbackFails
<1> QED
  BY ShapeSplit, ShapeJoin, TableSame, PollsSame, AdvancePool, <1>2, <1>3 DEF Txs

LEMMA ShapeRecord ==
    ASSUME RelayShape, NEW r \in Relays, NEW w \in workers[r], RelayRecordSuccess(r, w) \/ RelayRecordFailure(r, w)
    PROVE  RelayShape'
<1>1. /\ UNCHANGED <<tx, failures, pollVars>> /\ Advance(r, w, "settled")
      /\ UNCHANGED outbox \/ DeleteRow(w.id) \/ FailedRow(w)
  BY DEF RelayRecordSuccess, RelayRecordFailure
<1>2. Pool' /\ Polls' /\ Txs' /\ Tally'
  BY ShapeSplit, PollsSame, RestSame, AdvancePool, <1>1
<1>3. IsWorker(w)
  BY ShapeSplit DEF Pool
<1>4. FailedRow(w) => Table'
  BY ShapeSplit, FailedRowEffect, <1>3, ZenonT(30) DEF IsRow, Table
<1> QED
  BY ShapeSplit, ShapeJoin, TableSame, DeleteTable, <1>1, <1>2, <1>4

LEMMA ShapeLeave ==
    ASSUME RelayShape, NEW r \in Relays, NEW w \in workers[r], LeaveWorker(r, w)
    PROVE  RelayShape'
<1>1. Pool'
  BY ShapeSplit, Zenon DEF LeaveWorker, IsWorker, Pool
<1>2. UNCHANGED <<outbox, tx, failures, pollVars>>
  BY DEF LeaveWorker, tableVars
<1> QED
  BY ShapeSplit, ShapeJoin, TableSame, PollsSame, RestSame, <1>1, <1>2

LEMMA ShapeCrash ==
    ASSUME RelayShape, NEW r \in Relays, CrashRelay(r)
    PROVE  RelayShape'
<1>1. Polls'
  BY ShapeSplit, CrashEffect, Zenon DEF Polls, LoopStates
<1>2. Pool'
  BY ShapeSplit, CrashEffect, Zenon DEF Pool, IsWorker
<1> QED
  BY ShapeSplit, ShapeJoin, TableSame, RestSame, CrashEffect, <1>1, <1>2

LEMMA ShapeTick ==
    ASSUME RelayShape, RelayTick
    PROVE  RelayShape'
<1>1. scanAge' \in [Relays -> 0..MaxStale]
  <2>1. scanAge' = [r \in Relays |-> IF Claiming(r) THEN scanAge[r] + 1 ELSE 0]
    BY Zenon DEF RelayTick
  <2>2. \A r \in Relays : scanAge[r] \in 0..MaxStale /\ (Claiming(r) => scanAge[r] < MaxStale)
    BY ShapeSplit, Zenon DEF RelayTick, Polls
  <2> QED
    BY <2>1, <2>2
<1>2. Table'
  BY ShapeSplit, TickEffect, Zenon DEF Table
<1>3. UNCHANGED <<tx, failures, batch, todo, workers, relayLoop>>
  BY Zenon DEF RelayTick
<1>4. Polls'
  BY ShapeSplit, <1>1, <1>3, ZenonT(30) DEF LoopStates, Polls
<1> QED
  BY ShapeSplit, ShapeJoin, PoolSame, RestSame, <1>2, <1>3, <1>4

LEMMA ShapeStutter ==
    ASSUME RelayShape, UNCHANGED relayVars
    PROVE  RelayShape'
  BY ShapeSplit, ShapeJoin, TableSame, PoolSame, PollsSame, RestSame, Zenon DEF relayVars, tableVars

(* Every step keeps the shape of the table and of the goroutines. *)
LEMMA ShapeStep == RelayShape /\ [RelayNext]_relayVars => RelayShape'
<1> QED
  BY ShapeApplication, ShapeElsewhere, ShapeTryClaim, ShapeReadRow, ShapeSpawn, ShapeDrop, ZenonT(30),
     ShapeCallback, ShapeRecord, ShapeLeave, ShapeCrash, ShapeTick, ShapeStutter
     DEF RelayNext, LoopStep, WorkerStep, Elsewhere

-----------------------------------------------------------------------------
(* No row is lost *)

(* n failures of row i are accounted for by recorded ones, which are       *)
(* counted up to MaxTries.                                                 *)
Counted(i, n) == failures[i] = MaxTries \/ n <= failures[i]

(* The rows relay r has claimed and read. *)
Entered(r) == {batch[r][k] : k \in DOMAIN batch[r]}

(* The clauses of RowsKnown, for a row of the table, an entry of a batch   *)
(* and a worker.                                                           *)
RowKnown(i) == tx[i] = "committed" /\ Counted(i, outbox[i].attempts) /\ (outbox[i].dlq => failures[i] = MaxTries)
EntryKnown(c) == tx[c.id] = "committed" /\ Counted(c.id, c.attempts)
WorkerKnown(w) ==
    /\ tx[w.id] = "committed" /\ Counted(w.id, w.attempts)
    /\ w.at = "accepted" => w.id \in delivered
    /\ w.at = "failed" => Counted(w.id, w.attempts + 1)

(* Rows come from committed transactions, and so does what the relays hold *)
(* of them; a worker past its callback knows the answer; and the attempts  *)
(* written to a row, or handed on from it, never run ahead of the failures. *)
RowsKnown ==
    /\ \A i \in DOMAIN outbox : RowKnown(i)
    /\ \A r \in Relays : \A c \in Entered(r) : EntryKnown(c)
    /\ \A r \in Relays : \A w \in workers[r] : WorkerKnown(w)
    /\ \A i \in RelayRows : tx[i] = "committed" => i \in DOMAIN outbox \/ i \in delivered
    /\ \A i \in delivered : i \in RelayRows /\ tx[i] = "committed"

(* What was known stays known while transactions, failures and deliveries  *)
(* only go forward.                                                        *)
Forward ==
    /\ \A i \in RelayRows : tx[i] = "committed" => tx'[i] = "committed"
    /\ \A i \in RelayRows : \A n \in Nat : Counted(i, n) => Counted(i, n)'
    /\ \A i \in RelayRows : failures[i] = MaxTries => failures'[i] = MaxTries
    /\ delivered \subseteq delivered'

LEMMA KnownForward ==
    ASSUME RelayShape, Forward
    PROVE  /\ \A i \in DOMAIN outbox :
                RowKnown(i) /\ outbox'[i].attempts = outbox[i].attempts /\ outbox'[i].dlq = outbox[i].dlq
                => RowKnown(i)'
           /\ \A c \in Claimed : EntryKnown(c) => EntryKnown(c)'
           /\ \A w : IsWorker(w) /\ WorkerKnown(w) => WorkerKnown(w)'
<1>1. ASSUME NEW i \in DOMAIN outbox, RowKnown(i), outbox'[i].attempts = outbox[i].attempts,
             outbox'[i].dlq = outbox[i].dlq
      PROVE  RowKnown(i)'
  <2>1. i \in RelayRows /\ outbox[i].attempts \in Nat
    BY DEF RelayShape, IsRow
  <2> QED
    BY <1>1, <2>1 DEF RowKnown, Forward, Counted
<1>2. ASSUME NEW c \in Claimed, EntryKnown(c) PROVE EntryKnown(c)'
  BY <1>2 DEF EntryKnown, Forward, Claimed
<1>3. ASSUME NEW w, IsWorker(w), WorkerKnown(w) PROVE WorkerKnown(w)'
  <2>1. w.id \in RelayRows /\ w.attempts \in Nat /\ w.attempts + 1 \in Nat
    BY <1>3 DEF IsWorker
  <2> QED
    BY <1>3, <2>1 DEF WorkerKnown, Forward
<1> QED
  BY <1>1, <1>2, <1>3

(* The clauses of RowsKnown. *)
Rows == \A i \in DOMAIN outbox : RowKnown(i)
Entries == \A r \in Relays : \A c \in Entered(r) : EntryKnown(c)
Dispatched == \A r \in Relays : \A w \in workers[r] : WorkerKnown(w)
Kept == \A i \in RelayRows : tx[i] = "committed" => i \in DOMAIN outbox \/ i \in delivered
Committed == \A i \in delivered : i \in RelayRows /\ tx[i] = "committed"

LEMMA RowsSplit == RowsKnown <=> Rows /\ Entries /\ Dispatched /\ Kept /\ Committed
  BY DEF RowsKnown, Rows, Entries, Dispatched, Kept, Committed

LEMMA RowsJoin == RowsKnown' <=> Rows' /\ Entries' /\ Dispatched' /\ Kept' /\ Committed'
  BY DEF RowsKnown, Rows, Entries, Dispatched, Kept, Committed

LEMMA HeldTyped ==
    ASSUME RelayShape
    PROVE  /\ \A r \in Relays : \A w \in workers[r] : IsWorker(w)
           /\ \A r \in Relays : \A c \in Entered(r) : c \in Claimed
           /\ DOMAIN outbox \subseteq RelayRows
<1>1. \A r \in Relays : \A w \in workers[r] : IsWorker(w)
  BY Zenon DEF RelayShape
<1>2. DOMAIN outbox \subseteq RelayRows
  BY Zenon DEF RelayShape
<1>3. \A r \in Relays : \A c \in Entered(r) : c \in Claimed
  BY SMTT(30) DEF RelayShape, Entered
<1> QED  BY <1>1, <1>2, <1>3, Zenon

LEMMA SameForward == UNCHANGED <<tx, failures, delivered>> => Forward
  BY DEF Forward, Counted

LEMMA EntriesForward ==
    ASSUME RelayShape, RowsKnown, Forward PROVE \A r \in Relays : \A c \in Entered(r) : EntryKnown(c)'
  BY RowsSplit, HeldTyped, KnownForward DEF Entries

LEMMA EntriesSame == ASSUME RelayShape, RowsKnown, Forward, UNCHANGED batch PROVE Entries'
  BY EntriesForward DEF Entered, Entries

LEMMA DispatchedSame == ASSUME RelayShape, RowsKnown, Forward, UNCHANGED workers PROVE Dispatched'
  BY RowsSplit, HeldTyped, KnownForward DEF Dispatched

LEMMA RowsSame == ASSUME RelayShape, RowsKnown, Forward, UNCHANGED outbox PROVE Rows'
  BY RowsSplit, KnownForward, ZenonT(30) DEF Rows

LEMMA AdvanceKnown ==
    ASSUME RelayShape, RowsKnown, NEW r \in Relays, NEW w \in workers[r],
           NEW l \in {"accepted", "failed", "settled"}, Advance(r, w, l), Forward,
           l = "accepted" => w.id \in delivered', l = "failed" => Counted(w.id, w.attempts + 1)'
    PROVE  Dispatched'
<1>1. /\ workers'[r] = (workers[r] \ {w}) \cup {Moved(w, l)}
      /\ \A q \in Relays : q # r => workers'[q] = workers[q]
      /\ Moved(w, l).id = w.id /\ Moved(w, l).attempts = w.attempts /\ Moved(w, l).at = l
  BY AdvanceEffect, SMTT(30)
<1>2. \A q \in Relays : \A v \in workers[q] : WorkerKnown(v)'
  BY RowsSplit, HeldTyped, KnownForward, ZenonT(30) DEF Dispatched
<1>3. WorkerKnown(Moved(w, l))'
  BY <1>1, <1>2 DEF WorkerKnown
<1> QED
  BY <1>1, <1>2, <1>3 DEF Dispatched

LEMMA RowsApplication ==
    ASSUME RelayShape, RowsKnown, NEW i \in RelayRows, Application(i), UNCHANGED <<runVars, pollVars, workers, activePart>>
    PROVE  RowsKnown'
<1>1. UNCHANGED <<failures, delivered, batch, workers>>
  BY DEF Application, Enqueue, CommitTx, RollbackTx, Replay, pollVars
<1>2. Forward
  BY <1>1, ZenonT(30) DEF Forward, Counted, Application, Enqueue, CommitTx, RollbackTx, Replay, RelayShape
<1>3. Entries' /\ Dispatched'
  BY EntriesSame, DispatchedSame, <1>1, <1>2
<1>4. Committed'
  BY RowsSplit, <1>1, <1>2 DEF Committed, Forward
<1>5. CASE Enqueue(i) \/ RollbackTx(i)
  <2>1. Kept'
    BY RowsSplit, <1>1, <1>5, ZenonT(30) DEF Enqueue, RollbackTx, Kept, RelayShape
  <2> QED
    BY RowsJoin, RowsSame, <1>2, <1>3, <1>4, <1>5, <2>1, ZenonT(30) DEF Enqueue, RollbackTx
<1>6. CASE CommitTx(i)
  <2>1. /\ DOMAIN outbox' = DOMAIN outbox \cup {i} /\ tx' = [tx EXCEPT ![i] = "committed"] /\ outbox'[i] = FreshRow
        /\ \A j \in DOMAIN outbox : j # i => outbox'[j] = outbox[j]
    BY <1>6 DEF CommitTx
  <2>2. tx'[i] = "committed" /\ \A j \in RelayRows : j # i => tx'[j] = tx[j]
    BY <2>1 DEF RelayShape
  <2>3. RowKnown(i)'
    BY <1>1, <2>1, <2>2, SMTT(30) DEF RowKnown, Counted, FreshRow, RelayShape
  <2>4. \A j \in DOMAIN outbox : j # i => RowKnown(j)'
    BY RowsSplit, <1>2, <2>1, KnownForward, ZenonT(30) DEF Rows
  <2>5. Kept'
    BY RowsSplit, <1>1, <2>1, <2>2, ZenonT(30) DEF Kept
  <2>6. Rows'
    BY <2>1, <2>3, <2>4, ZenonT(30) DEF Rows
  <2> QED
    BY RowsJoin, <1>3, <1>4, <2>5, <2>6
<1>7. CASE Replay(i)
  <2>1. /\ DOMAIN outbox' = DOMAIN outbox /\ outbox'[i] = FreshRow /\ tx' = tx /\ i \in DOMAIN outbox
        /\ \A j \in DOMAIN outbox : j # i => outbox'[j] = outbox[j]
    BY <1>7, ZenonT(30) DEF Replay
  <2>2. RowKnown(i)'
    <3>1. tx'[i] = "committed"
      BY RowsSplit, <2>1, Zenon DEF Rows, RowKnown
    <3>2. outbox'[i].attempts = 0 /\ outbox'[i].dlq = FALSE
      BY <2>1 DEF FreshRow
    <3>3. failures' = failures /\ failures[i] \in 0..MaxTries
      BY <1>1, <2>1 DEF RelayShape
    <3>4. 0 <= failures'[i]
      BY <3>3, RelayAssumption
    <3> QED
      BY <3>1, <3>2, <3>4, Zenon DEF RowKnown, Counted
  <2>3. \A j \in DOMAIN outbox : j # i => RowKnown(j)'
    BY RowsSplit, <1>2, <2>1, KnownForward, ZenonT(30) DEF Rows
  <2>4. Kept'
    BY RowsSplit, <1>1, <2>1 DEF Kept
  <2>5. Rows'
    BY <2>1, <2>2, <2>3 DEF Rows
  <2> QED
    BY RowsJoin, <1>3, <1>4, <2>4, <2>5
<1> QED
  BY <1>5, <1>6, <1>7 DEF Application

LEMMA RowsUntouched ==
    ASSUME RelayShape, RowsKnown, UNCHANGED rowVars
    PROVE  RowsKnown'
<1>1. UNCHANGED <<outbox, tx, batch, workers, failures, delivered>>
  BY DEF rowVars
<1>2. Kept' /\ Committed'
  BY RowsSplit, <1>1 DEF Kept, Committed
<1> QED
  BY RowsJoin, SameForward, EntriesSame, DispatchedSame, RowsSame, <1>1, <1>2

LEMMA RowsTryClaim ==
    ASSUME RelayShape, RowsKnown, NEW r \in Relays, TryClaim(r)
    PROVE  RowsKnown'
<1>1. UNCHANGED <<tx, batch, workers, failures, delivered>>
  BY TryClaimEffect
<1>2. UNCHANGED outbox \/ /\ DOMAIN outbox' = DOMAIN outbox
                          /\ \A j \in DOMAIN outbox : /\ outbox'[j].attempts = outbox[j].attempts
                                                      /\ outbox'[j].dlq = outbox[j].dlq
  <2>1. LeaseDuration - scanAge[r] \in Int
    BY SMTT(30) DEF RelayShape
  <2> QED
    BY <2>1, TryClaimEffect, LeaseSetEffect
<1>3. Rows' /\ Kept' /\ Committed'
  BY RowsSplit, SameForward, <1>1, <1>2, KnownForward DEF Rows, Kept, Committed
<1> QED
  BY RowsJoin, SameForward, EntriesSame, DispatchedSame, <1>1, <1>3

LEMMA RowsReadRow ==
    ASSUME RelayShape, RowsKnown, NEW r \in Relays, ReadRow(r)
    PROVE  RowsKnown'
<1>1. UNCHANGED <<outbox, tx, workers, failures, delivered>>
  BY ReadRowEffect, Zenon
<1>2. Forward /\ Rows' /\ Dispatched'
  BY SameForward, DispatchedSame, RowsSame, <1>1
<1>3. Kept' /\ Committed'
  BY RowsSplit, <1>1, ZenonT(30) DEF Kept, Committed
<1>4. Entries'
  <2>1. \A c : /\ Head(todo[r]) \in DOMAIN outbox
               /\ c = [id |-> Head(todo[r]), attempts |-> outbox[Head(todo[r])].attempts]
               => EntryKnown(c)'
    BY RowsSplit, <1>1 DEF Rows, RowKnown, EntryKnown, Counted
  <2>2. DOMAIN batch[r] = 1..Len(batch[r]) /\ Len(batch[r]) \in Nat
    BY SMTT(30) DEF RelayShape
  <2>3. \A k \in 1..(Len(batch[r]) + 1) : k \in 1..Len(batch[r]) \/ k = Len(batch[r]) + 1
    BY <2>2
  <2>4. /\ \A q \in Relays : q # r => Entered(q)' = Entered(q)
        /\ \A c \in Entered(r)' :
             \/ c \in Entered(r)
             \/ /\ Head(todo[r]) \in DOMAIN outbox
                /\ c = [id |-> Head(todo[r]), attempts |-> outbox[Head(todo[r])].attempts]
    <3>1. \A q \in Relays : q # r => batch'[q] = batch[q]
      BY ReadRowEffect, ZenonT(30)
    <3>2. CASE UNCHANGED batch
      BY <3>2, ZenonT(30) DEF Entered
    <3>3. CASE /\ Head(todo[r]) \in DOMAIN outbox
               /\ DOMAIN batch'[r] = 1..(Len(batch[r]) + 1)
               /\ \A k \in DOMAIN batch[r] : batch'[r][k] = batch[r][k]
               /\ batch'[r][Len(batch[r]) + 1] = [id |-> Head(todo[r]), attempts |-> outbox[Head(todo[r])].attempts]
      BY <2>2, <2>3, <3>1, <3>3 DEF Entered
    <3> QED
      BY <3>2, <3>3, ReadRowEffect
  <2> QED
    BY EntriesForward, <1>2, <2>1, <2>4, ZenonT(30) DEF Entries
<1> QED
  BY RowsJoin, <1>2, <1>3, <1>4

LEMMA RowsSpawn ==
    ASSUME RelayShape, RowsKnown, NEW r \in Relays, SpawnWorker(r)
    PROVE  RowsKnown'
<1>1. UNCHANGED <<outbox, tx, failures, delivered>>
  BY SpawnEffect
<1>2. Forward /\ Rows'
  BY SameForward, RowsSame, <1>1
<1>3. Kept' /\ Committed'
  BY RowsSplit, <1>1, ZenonT(30) DEF Kept, Committed
<1>5. /\ \A q \in Relays : q # r => batch'[q] = batch[q] /\ workers'[q] = workers[q]
      /\ \A k \in DOMAIN batch'[r] : k + 1 \in DOMAIN batch[r] /\ batch'[r][k] = batch[r][k + 1]
      /\ 1 \in DOMAIN batch[r] /\ workers'[r] = workers[r] \cup {Spawned(r)}
      /\ Spawned(r).id = batch[r][1].id /\ Spawned(r).attempts = batch[r][1].attempts
      /\ Spawned(r).at = "calling"
  BY SpawnEffect, SMTT(30)
<1>4. Entered(r)' \subseteq Entered(r) /\ \A q \in Relays : q # r => Entered(q)' = Entered(q)
  BY <1>5 DEF Entered
<1>6. Entries'
  BY EntriesForward, <1>2, <1>4, ZenonT(30) DEF Entries
<1>7. \A q \in Relays : \A v \in workers[q] : WorkerKnown(v)'
  BY RowsSplit, HeldTyped, <1>2, KnownForward, ZenonT(30) DEF Dispatched
<1>8. \A v : v = Spawned(r) => WorkerKnown(v)'
  <2>1. batch[r][1] \in Entered(r)
    BY <1>5 DEF Entered
  <2>2. \A c : c = batch[r][1] => EntryKnown(c)'
    BY EntriesForward, <1>2, <2>1, ZenonT(30)
  <2> QED
    BY <1>5, <2>2 DEF WorkerKnown, EntryKnown
<1>9. Dispatched'
  BY <1>5, <1>7, <1>8 DEF Dispatched
<1> QED
  BY RowsJoin, <1>2, <1>3, <1>6, <1>9

LEMMA RowsDrop ==
    ASSUME RelayShape, RowsKnown, NEW r \in Relays, DropBatch(r)
    PROVE  RowsKnown'
<1>1. UNCHANGED <<outbox, tx, workers, failures, delivered>>
  BY DropEffect
<1>2. Kept' /\ Committed'
  BY RowsSplit, <1>1 DEF Kept, Committed
<1>3. \A q \in Relays : Entered(q)' \subseteq Entered(q)
  BY DropEffect DEF Entered
<1>4. Entries'
  BY SameForward, EntriesForward, <1>1, <1>3 DEF Entries
<1> QED
  BY RowsJoin, SameForward, DispatchedSame, RowsSame, <1>1, <1>2, <1>4, ZenonT(30)

LEMMA RowsAccepted ==
    ASSUME RelayShape, RowsKnown, NEW r \in Relays, NEW w \in workers[r], CallbackAccepts(r, w)
    PROVE  RowsKnown'
<1>1. /\ UNCHANGED <<outbox, tx, failures, batch>> /\ delivered' = delivered \cup {w.id}
      /\ Advance(r, w, "accepted")
  BY DEF CallbackAccepts, pollVars
<1>2. Forward
  BY <1>1 DEF Forward, Counted
<1>3. Dispatched'
  BY AdvanceKnown, <1>1, <1>2
<1>4. tx[w.id] = "committed" /\ w.id \in RelayRows
  BY RowsSplit, HeldTyped DEF Dispatched, WorkerKnown, IsWorker
<1>5. Kept' /\ Committed'
  BY RowsSplit, <1>1, <1>4, ZenonT(30) DEF Kept, Committed
<1> QED
  BY RowsJoin, EntriesSame, RowsSame, <1>1, <1>2, <1>3, <1>5, ZenonT(30)

LEMMA RowsFailed ==
    ASSUME RelayShape, RowsKnown, NEW r \in Relays, NEW w \in workers[r], CallbackFails(r, w)
    PROVE  RowsKnown'
<1>1. /\ UNCHANGED <<outbox, tx, delivered, batch>> /\ Advance(r, w, "failed")
      /\ failures' = [failures EXCEPT ![w.id] = IF failures[w.id] < MaxTries THEN failures[w.id] + 1 ELSE failures[w.id]]
  BY DEF CallbackFails, pollVars
<1>2. w.id \in RelayRows /\ w.attempts \in Nat /\ Counted(w.id, w.attempts)
  BY RowsSplit, HeldTyped DEF Dispatched, WorkerKnown, IsWorker
<1>3. failures \in [RelayRows -> 0..MaxTries] /\ \A i \in RelayRows : failures[i] \in 0..MaxTries
  BY ZenonT(30) DEF RelayShape
<1>4. \A i \in RelayRows : failures'[i] = failures[i] \/ (failures[i] < MaxTries /\ failures'[i] = failures[i] + 1)
  BY <1>1, <1>2, <1>3, ZenonT(30)
<1>5. Forward
  BY <1>1, <1>3, <1>4, SMTT(30) DEF Forward, Counted
<1>6. Counted(w.id, w.attempts + 1)'
  BY <1>1, <1>2, <1>3, SMTT(30) DEF Counted
<1>7. Dispatched'
  BY AdvanceKnown, <1>1, <1>5, <1>6, ZenonT(30)
<1>8. Kept' /\ Committed'
  BY RowsSplit, <1>1, ZenonT(30) DEF Kept, Committed
<1> QED
  BY RowsJoin, EntriesSame, RowsSame, <1>1, <1>5, <1>7, <1>8, ZenonT(30)

LEMMA RowsSuccess ==
    ASSUME RelayShape, RowsKnown, NEW r \in Relays, NEW w \in workers[r], RelayRecordSuccess(r, w)
    PROVE  RowsKnown'
<1>1. /\ UNCHANGED <<tx, delivered, failures, batch>> /\ Advance(r, w, "settled") /\ w.at = "accepted"
      /\ DeleteRow(w.id) \/ UNCHANGED outbox
  BY ZenonT(30) DEF RelayRecordSuccess, pollVars
<1>2. Forward /\ Dispatched'
  BY SameForward, AdvanceKnown, <1>1, ZenonT(30)
<1>3. w.id \in delivered
  BY RowsSplit, <1>1 DEF Dispatched, WorkerKnown
<1>4. /\ DOMAIN outbox' \subseteq DOMAIN outbox /\ DOMAIN outbox \subseteq DOMAIN outbox' \cup {w.id}
      /\ \A j \in DOMAIN outbox' : outbox'[j] = outbox[j]
  BY <1>1 DEF DeleteRow
<1>5. Rows'
  BY RowsSplit, <1>2, <1>4, KnownForward, ZenonT(30) DEF Rows
<1>6. Kept' /\ Committed'
  BY RowsSplit, <1>1, <1>3, <1>4, ZenonT(30) DEF Kept, Committed
<1> QED
  BY RowsJoin, EntriesSame, <1>1, <1>2, <1>5, <1>6, ZenonT(30)

LEMMA RowsFailure ==
    ASSUME RelayShape, RowsKnown, NEW r \in Relays, NEW w \in workers[r], RelayRecordFailure(r, w)
    PROVE  RowsKnown'
<1>1. /\ UNCHANGED <<tx, delivered, failures, batch>> /\ Advance(r, w, "settled") /\ w.at = "failed"
      /\ FailedRow(w) \/ UNCHANGED outbox
  BY DEF RelayRecordFailure, pollVars
<1>2. Forward /\ Dispatched'
  BY SameForward, AdvanceKnown, <1>1, ZenonT(30)
<1>3. w.id \in RelayRows /\ w.attempts \in Nat /\ Counted(w.id, w.attempts + 1) /\ tx[w.id] = "committed"
  BY RowsSplit, HeldTyped, <1>1, ZenonT(30) DEF Dispatched, WorkerKnown, IsWorker
<1>4. CASE UNCHANGED outbox
  <2>1. Kept' /\ Committed'
    BY RowsSplit, <1>1, <1>4, ZenonT(30) DEF Kept, Committed
  <2> QED
    BY RowsJoin, EntriesSame, RowsSame, <1>1, <1>2, <1>4, <2>1, ZenonT(30)
<1>5. CASE FailedRow(w)
  <2>1. /\ DOMAIN outbox' = DOMAIN outbox /\ \A j \in DOMAIN outbox : j # w.id => outbox'[j] = outbox[j]
        /\ w.id \in DOMAIN outbox => /\ outbox'[w.id].attempts = w.attempts + 1
                                     /\ outbox'[w.id].dlq = (w.attempts + 1 >= MaxTries)
    BY HeldTyped, <1>5, FailedRowEffect, ZenonT(30)
  <2>2. failures[w.id] \in 0..MaxTries
    BY <1>3, ZenonT(30) DEF RelayShape
  <2>3. w.attempts + 1 >= MaxTries => failures[w.id] = MaxTries
    BY <1>3, <2>2 DEF Counted
  <2>4. w.id \in DOMAIN outbox => RowKnown(w.id)'
    BY <1>1, <1>3, <2>1, <2>3, ZenonT(30) DEF RowKnown, Counted
  <2>5. \A j \in DOMAIN outbox : j # w.id => RowKnown(j)'
    BY RowsSplit, <1>2, <2>1, KnownForward, ZenonT(30) DEF Rows
  <2>6. Rows'
    BY <2>1, <2>4, <2>5, ZenonT(30) DEF Rows, RowKnown, Counted
  <2>7. Kept' /\ Committed'
    BY RowsSplit, <1>1, <2>1 DEF Kept, Committed
  <2> QED
    BY RowsJoin, EntriesSame, <1>1, <1>2, <2>6, <2>7, ZenonT(30)
<1> QED
  BY <1>1, <1>4, <1>5

LEMMA RowsLeave ==
    ASSUME RelayShape, RowsKnown, NEW r \in Relays, NEW w \in workers[r], LeaveWorker(r, w)
    PROVE  RowsKnown'
<1>1. UNCHANGED <<outbox, tx, delivered, failures, batch>> /\ workers' = [workers EXCEPT ![r] = workers[r] \ {w}]
  BY DEF LeaveWorker, tableVars, pollVars
<1>2. \A q \in Relays : \A v \in workers[q] : WorkerKnown(v)'
  BY RowsSplit, HeldTyped, SameForward, <1>1, KnownForward, ZenonT(30) DEF Dispatched
<1>3. \A q \in Relays : workers'[q] \subseteq workers[q]
  BY <1>1, ZenonT(30) DEF RelayShape
<1>4. Dispatched'
  BY <1>2, <1>3, ZenonT(30) DEF Dispatched
<1>5. Kept' /\ Committed'
  BY RowsSplit, <1>1, ZenonT(30) DEF Kept, Committed
<1> QED
  BY RowsJoin, SameForward, EntriesSame, RowsSame, <1>1, <1>4, <1>5, ZenonT(30)

LEMMA RowsCrash ==
    ASSUME RelayShape, RowsKnown, NEW r \in Relays, CrashRelay(r)
    PROVE  RowsKnown'
<1>1. /\ UNCHANGED <<outbox, tx, delivered, failures>> /\ batch'[r] = <<>> /\ workers'[r] = {}
      /\ \A q \in Relays : q # r => batch'[q] = batch[q] /\ workers'[q] = workers[q]
  BY CrashEffect, ZenonT(30)
<1>2. \A q \in Relays : \A v \in workers[q] : WorkerKnown(v)'
  BY RowsSplit, HeldTyped, SameForward, <1>1, KnownForward, ZenonT(30) DEF Dispatched
<1>5. \A q \in Relays : Entered(q)' \subseteq Entered(q)
  BY <1>1, SMTT(30) DEF Entered
<1>3. Dispatched' /\ Entries'
  BY SameForward, EntriesForward, <1>1, <1>2, <1>5, ZenonT(30) DEF Dispatched, Entries
<1>4. Kept' /\ Committed'
  BY RowsSplit, <1>1 DEF Kept, Committed
<1> QED
  BY RowsJoin, SameForward, RowsSame, <1>1, <1>3, <1>4, ZenonT(30)

LEMMA RowsTick ==
    ASSUME RelayShape, RowsKnown, RelayTick
    PROVE  RowsKnown'
<1>1. UNCHANGED <<tx, delivered, failures, batch, workers>>
  BY Zenon DEF RelayTick
<1>2. /\ DOMAIN outbox' = DOMAIN outbox
      /\ \A j \in DOMAIN outbox : outbox'[j].attempts = outbox[j].attempts /\ outbox'[j].dlq = outbox[j].dlq
  BY TickEffect, ZenonT(30)
<1>3. Rows' /\ Kept' /\ Committed'
  BY RowsSplit, SameForward, <1>1, <1>2, KnownForward, ZenonT(30) DEF Rows, Kept, Committed
<1> QED
  BY RowsJoin, SameForward, EntriesSame, DispatchedSame, <1>1, <1>3, Zenon

LEMMA RowsElsewhere ==
    ASSUME RelayShape, RowsKnown, NEW r \in Relays, Elsewhere(r)
    PROVE  RowsKnown'
  BY RowsUntouched, ElsewhereEffect

LEMMA RowsStutter ==
    ASSUME RelayShape, RowsKnown, UNCHANGED relayVars
    PROVE  RowsKnown'
  BY RowsUntouched, Zenon DEF relayVars, tableVars, pollVars, rowVars

(* No step delivers, drops or dead-letters a row it must not. *)
LEMMA RowsStep == RelayShape /\ RowsKnown /\ [RelayNext]_relayVars => RowsKnown'
<1> QED
  BY RowsApplication, RowsTryClaim, RowsReadRow, RowsSpawn, RowsDrop, RowsAccepted, ZenonT(30),
     RowsFailed, RowsSuccess, RowsFailure, RowsLeave, RowsCrash, RowsTick, RowsElsewhere,
     RowsStutter
     DEF RelayNext, LoopStep, WorkerStep, Elsewhere

LEMMA ShapeInit == RelayInit => RelayShape /\ RowsKnown
<1> SUFFICES ASSUME RelayInit PROVE RelayShape /\ RowsKnown
  OBVIOUS
<1>1. DOMAIN outbox = {} /\ outbox = [i \in DOMAIN outbox |-> outbox[i]]
  BY ZenonT(30) DEF RelayInit
<1>2. \A r \in Relays : batch[r] = <<>> /\ workers[r] = {} /\ DOMAIN batch[r] = {}
  BY SMTT(30) DEF RelayInit
<1>3. RelayShape
  BY <1>1, <1>2, SMTT(30) DEF RelayInit, RelayShape, LoopStates
<1>4. RowsKnown
  BY <1>1, <1>2 DEF RelayInit, RowsKnown, Entered
<1> QED
  BY <1>3, <1>4, ZenonT(30)

(* Every committed row stays in the table until a callback accepted it,    *)
(* nothing rolled back is delivered, and a dead-lettered row failed        *)
(* MaxTries times, whatever crashes, is stopped, replayed or written late. *)
THEOREM NoOutboxRowLost == RelaySpec => []OutboxNeverLoses
<1>1. RelayShape /\ RowsKnown => OutboxNeverLoses
  BY DEF RowsKnown, RowKnown, OutboxNeverLoses
<1> QED
  BY <1>1, ShapeInit, ShapeStep, RowsStep, PTL DEF RelaySpec
=============================================================================
