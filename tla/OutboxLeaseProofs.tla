------------------------- MODULE OutboxLeaseProofs -------------------------
(***************************************************************************)
(* For any number of relays, rows, slots, crashes and faults: a lease of   *)
(* the outbox keeps the callbacks of one row apart.                        *)
(***************************************************************************)
EXTENDS OutboxRelayProofs

(* Relay r holds row i as dispatch w, as entry k of its batch, or as the   *)
(* claim it is about to read back.                                         *)
Dispatches(r, w, i) == w \in workers[r] /\ w.at # "settled" /\ w.id = i
Batched(r, k, i) == k \in DOMAIN batch[r] /\ batch[r][k].id = i
ReadsBack(r, i) == relayLoop[r] = "reading" /\ Head(todo[r]) = i

Holds(r, i) == (\E w : Dispatches(r, w, i)) \/ (\E k : Batched(r, k, i)) \/ ReadsBack(r, i)

(* Row i is held by one relay at most, in one place, under a lease that is *)
(* still running.                                                          *)
HeldAt(i) ==
    /\ \A r \in Relays : Holds(r, i) => i \in DOMAIN outbox /\ outbox[i].lease > 0
    /\ \A r, q \in Relays : Holds(r, i) /\ Holds(q, i) => r = q
    /\ \A r \in Relays : \A v, w : Dispatches(r, v, i) /\ Dispatches(r, w, i) => v = w
    /\ \A r \in Relays : \A k, l : Batched(r, k, i) /\ Batched(r, l, i) => k = l
    /\ \A r \in Relays : \A w, k : ~(Dispatches(r, w, i) /\ Batched(r, k, i))
    /\ \A r \in Relays : \A w : ~(Dispatches(r, w, i) /\ ReadsBack(r, i))
    /\ \A r \in Relays : \A k : ~(Batched(r, k, i) /\ ReadsBack(r, i))

(* So it is with every row that is not exposed. *)
HeldOnce == \A i \in RelayRows \ exposed : HeldAt(i)

(* A step that leaves a row's lease running and takes no new hold of it. *)
LEMMA HeldLess ==
    ASSUME NEW i, HeldAt(i),
           \A r \in Relays : /\ \A w : Dispatches(r, w, i)' => Dispatches(r, w, i)
                             /\ \A k : Batched(r, k, i)' => Batched(r, k, i)
                             /\ ReadsBack(r, i)' => ReadsBack(r, i),
           (\E r \in Relays : Holds(r, i)) /\ i \in DOMAIN outbox /\ outbox[i].lease > 0
             => i \in DOMAIN outbox' /\ outbox'[i].lease > 0
    PROVE  HeldAt(i)'
<1>1. \A r \in Relays : Holds(r, i)' => Holds(r, i)
  BY DEF Holds
<1>2. \A r \in Relays : Holds(r, i)' => i \in DOMAIN outbox' /\ outbox'[i].lease > 0
  BY <1>1 DEF HeldAt
<1> QED
  BY <1>1, <1>2 DEF HeldAt

(* A row nobody holds. *)
LEMMA HeldByNone ==
    ASSUME NEW i, \A r \in Relays : ~Holds(r, i)' PROVE HeldAt(i)'
  BY DEF HeldAt, Holds

(* The holds of relay r do not change when what they are read from does not. *)
LEMMA SameHolds ==
    ASSUME NEW r, NEW i
    PROVE  /\ workers'[r] = workers[r] => \A w : Dispatches(r, w, i)' <=> Dispatches(r, w, i)
           /\ batch'[r] = batch[r] => \A k : Batched(r, k, i)' <=> Batched(r, k, i)
           /\ relayLoop'[r] = relayLoop[r] /\ todo'[r] = todo[r] => (ReadsBack(r, i)' <=> ReadsBack(r, i))
           /\ relayLoop'[r] # "reading" => ~ReadsBack(r, i)'
  BY DEF Dispatches, Batched, ReadsBack

(* The lease of a held row goes on running; relay r has no new hold of it. *)
Running(i) == (\E r \in Relays : Holds(r, i)) /\ i \in DOMAIN outbox /\ outbox[i].lease > 0
                => i \in DOMAIN outbox' /\ outbox'[i].lease > 0
Fewer(r, i) == /\ \A w : Dispatches(r, w, i)' => Dispatches(r, w, i)
               /\ \A k : Batched(r, k, i)' => Batched(r, k, i)
               /\ ReadsBack(r, i)' => ReadsBack(r, i)

LEMMA StillHeld ==
    ASSUME HeldOnce, NEW i \in RelayRows, i \notin exposed', exposed \subseteq exposed' PROVE HeldAt(i)
  BY DEF HeldOnce

LEMMA HeldWhileRunning ==
    ASSUME NEW i, HeldAt(i), Running(i), \A r \in Relays : Fewer(r, i) PROVE HeldAt(i)'
  BY HeldLess DEF Running, Fewer

(* Relay r holds row i in one place at most. *)
OnePlaceOf(r, i) ==
    /\ \A v, w : Dispatches(r, v, i) /\ Dispatches(r, w, i) => v = w
    /\ \A k, l : Batched(r, k, i) /\ Batched(r, l, i) => k = l
    /\ \A w, k : ~(Dispatches(r, w, i) /\ Batched(r, k, i))
    /\ \A w : ~(Dispatches(r, w, i) /\ ReadsBack(r, i))
    /\ \A k : ~(Batched(r, k, i) /\ ReadsBack(r, i))

(* Relay r moves its hold of a row; the others have no new one. *)
LEMMA HeldMoved ==
    ASSUME NEW i, NEW r, HeldAt(i), \A q \in Relays : q # r => Fewer(q, i), OnePlaceOf(r, i)',
           \A q \in Relays : Holds(q, i)' => i \in DOMAIN outbox' /\ outbox'[i].lease > 0,
           \A q, p \in Relays : Holds(q, i)' /\ Holds(p, i)' => q = p
    PROVE  HeldAt(i)'
<1>1. ASSUME NEW q \in Relays PROVE OnePlaceOf(q, i)'
  <2>1. CASE q = r
    BY <2>1, Zenon
  <2>2. CASE q # r
    <3>1. OnePlaceOf(q, i)
      BY ZenonT(30) DEF HeldAt, OnePlaceOf
    <3>2. Fewer(q, i)
      BY <2>2, Zenon
    <3> QED
      BY <3>1, <3>2, ZenonT(30) DEF OnePlaceOf, Fewer
  <2> QED
    BY <2>1, <2>2, Zenon
<1> QED
  BY <1>1, ZenonT(30) DEF HeldAt, OnePlaceOf

LEMMA SameRunning == ASSUME NEW i, UNCHANGED outbox PROVE Running(i)
  BY DEF Running

LEMMA SameFewer ==
    ASSUME NEW r, NEW i, workers'[r] = workers[r], batch'[r] = batch[r],
           relayLoop'[r] = relayLoop[r], todo'[r] = todo[r]
    PROVE  Fewer(r, i)
  BY SameHolds DEF Fewer

LEMMA QuietFewer ==
    ASSUME NEW r, NEW i, UNCHANGED <<workers, batch>>, relayLoop'[r] # "reading" PROVE Fewer(r, i)
  BY SameHolds, Zenon DEF Fewer

LEMMA PollsFewer == ASSUME NEW r, NEW i, UNCHANGED <<workers, pollVars>> PROVE Fewer(r, i)
  BY SameFewer DEF pollVars

LEMMA HeldApplication ==
    ASSUME RelayShape, RowsKnown, HeldOnce, NEW i \in RelayRows, i \notin exposed', NEW j \in RelayRows, Application(j), UNCHANGED <<runVars, pollVars, workers, activePart>>
    PROVE  HeldAt(i)'
<1>1. HeldAt(i)
  BY StillHeld DEF Application, Enqueue, CommitTx, RollbackTx, Replay
<1>2. Running(i)
  <2>1. CASE Enqueue(j) \/ RollbackTx(j)
    BY SameRunning, <2>1 DEF Enqueue, RollbackTx
  <2>2. CASE CommitTx(j)
    <3>1. j \notin DOMAIN outbox
      BY <2>2 DEF CommitTx, RowsKnown, RowKnown
    <3> QED
      BY <2>2, <3>1 DEF CommitTx, Running
  <2>3. CASE Replay(j)
    <3>1. i # j
      BY <2>3 DEF Replay
    <3> QED
      BY <2>3, <3>1 DEF Replay, Running, RelayShape
  <2> QED
    BY <2>1, <2>2, <2>3 DEF Application
<1> QED
  BY HeldWhileRunning, PollsFewer, <1>1, <1>2

LEMMA HeldElsewhere ==
    ASSUME RelayShape, RowsKnown, HeldOnce, NEW i \in RelayRows, i \notin exposed', NEW r \in Relays, Elsewhere(r)
    PROVE  HeldAt(i)'
<1>1. /\ UNCHANGED <<outbox, workers, batch, exposed>>
      /\ relayLoop'[r] # "reading" \/ (relayLoop'[r] = relayLoop[r] /\ todo'[r] = todo[r])
      /\ \A q \in Relays : q # r => relayLoop'[q] = relayLoop[q] /\ todo'[q] = todo[q]
  BY ElsewhereEffect DEF rowVars
<1>2. \A q \in Relays : Fewer(q, i)
  BY SameFewer, QuietFewer, <1>1
<1> QED
  BY StillHeld, HeldWhileRunning, SameRunning, <1>1, <1>2

LEMMA HeldTryClaim ==
    ASSUME RelayShape, RowsKnown, HeldOnce, NEW i \in RelayRows, i \notin exposed', NEW r \in Relays, TryClaim(r)
    PROVE  HeldAt(i)'
<1> DEFINE h == Head(todo[r])
           n == LeaseDuration - scanAge[r]
<1>1. /\ UNCHANGED <<batch, workers, exposed>> /\ relayLoop[r] = "claiming"
      /\ \A q \in Relays : q # r => todo'[q] = todo[q]
      /\ \/ UNCHANGED <<outbox, relayLoop>>
         \/ /\ h \in DOMAIN outbox /\ outbox[h].lease <= -scanAge[r] /\ LeaseSet(h, n)
            /\ UNCHANGED relayLoop \/ (relayLoop' = [relayLoop EXCEPT ![r] = "reading"] /\ UNCHANGED todo)
  BY TryClaimEffect
<1>2. scanAge[r] \in 0..MaxStale /\ n \in Int /\ n > 0
  <2>1. scanAge[r] \in 0..MaxStale
    BY DEF RelayShape
  <2>2. LeaseDuration \in Nat \ {0} /\ MaxStale \in 0..(LeaseDuration - 1)
    BY RelayAssumption, Zenon
  <2> QED
    BY <2>1, <2>2, SMTT(30)
<1>3. HeldAt(i)
  BY StillHeld, <1>1
<1>4. ASSUME UNCHANGED relayLoop PROVE \A q \in Relays : Fewer(q, i)
  BY SameFewer, QuietFewer, <1>1, <1>4
<1>5. CASE UNCHANGED <<outbox, relayLoop>>
  BY HeldWhileRunning, SameRunning, <1>3, <1>4, <1>5
<1>6. CASE h \in DOMAIN outbox /\ outbox[h].lease <= -scanAge[r] /\ LeaseSet(h, n)
  <2>1. /\ DOMAIN outbox' = DOMAIN outbox /\ outbox'[h].lease = n
        /\ \A j \in DOMAIN outbox : j # h => outbox'[j] = outbox[j]
    BY <1>2, <1>6, LeaseSetEffect
  <2>2. Running(i)
    BY <1>2, <2>1 DEF Running
  <2>3. CASE UNCHANGED relayLoop
    BY HeldWhileRunning, <1>3, <1>4, <2>2, <2>3
  <2>4. CASE relayLoop' = [relayLoop EXCEPT ![r] = "reading"] /\ UNCHANGED todo
    <3>1. \A q \in Relays : q # r => Fewer(q, i)
      BY SameFewer, <1>1, <2>4 DEF RelayShape
    <3>2. CASE i # h
      <4>1. Fewer(r, i)
        BY <1>1, <2>4, <3>2, SameHolds DEF Fewer, ReadsBack
      <4> QED
        BY HeldWhileRunning, <1>3, <2>2, <3>1, <4>1, ZenonT(30)
    <3>3. CASE i = h
      <4>1. outbox[h].lease \in Int
        BY <1>6 DEF RelayShape, IsRow
      <4>2. \A q \in Relays : ~Holds(q, i)
        <5>1. ~(outbox[h].lease > 0)
          BY <1>2, <1>6, <4>1, SMTT(30)
        <5> QED
          BY <1>3, <3>3, <5>1, ZenonT(30) DEF HeldAt
      <4>3. \A q \in Relays : (\A w : ~Dispatches(q, w, i)') /\ (\A k : ~Batched(q, k, i)')
        BY <1>1, <4>2, SameHolds DEF Holds
      <4>4. \A q \in Relays : q # r => ~Holds(q, i)'
        BY <3>1, <4>2, <4>3, ZenonT(30) DEF Holds, Fewer
      <4>5. i \in DOMAIN outbox' /\ outbox'[i].lease > 0
        BY <1>2, <1>6, <2>1, <3>3
      <4> QED
        BY <4>3, <4>4, <4>5 DEF HeldAt
    <3> QED
      BY <3>2, <3>3
  <2> QED
    BY <1>1, <1>6, <2>3, <2>4, <1>5
<1> QED
  BY <1>1, <1>5, <1>6

LEMMA HeldReadRow ==
    ASSUME RelayShape, RowsKnown, HeldOnce, NEW i \in RelayRows, i \notin exposed', NEW r \in Relays, ReadRow(r)
    PROVE  HeldAt(i)'
<1> DEFINE h == Head(todo[r])
           n == Len(batch[r]) + 1
<1>1. /\ UNCHANGED <<outbox, workers, exposed>> /\ relayLoop[r] = "reading"
      /\ relayLoop' = [relayLoop EXCEPT ![r] = "claiming"]
      /\ \A q \in Relays : q # r => batch'[q] = batch[q] /\ todo'[q] = todo[q]
      /\ \/ UNCHANGED batch
         \/ /\ DOMAIN batch'[r] = 1..n /\ \A k \in DOMAIN batch[r] : batch'[r][k] = batch[r][k]
            /\ batch'[r][n].id = h
  <2>1. /\ UNCHANGED <<outbox, workers, exposed>> /\ relayLoop[r] = "reading"
        /\ relayLoop' = [relayLoop EXCEPT ![r] = "claiming"]
        /\ \A q \in Relays : q # r => batch'[q] = batch[q] /\ todo'[q] = todo[q]
    BY ReadRowEffect, Zenon
  <2>2. \/ UNCHANGED batch
        \/ /\ DOMAIN batch'[r] = 1..(Len(batch[r]) + 1) /\ \A k \in DOMAIN batch[r] : batch'[r][k] = batch[r][k]
           /\ batch'[r][Len(batch[r]) + 1] = [id |-> Head(todo[r]), attempts |-> outbox[Head(todo[r])].attempts]
    BY ReadRowEffect
  <2> QED
    BY <2>1, <2>2
<1>2. HeldAt(i) /\ Running(i)
  BY StillHeld, SameRunning, <1>1
<1>3. \A q \in Relays : q # r => Fewer(q, i)
  BY SameFewer, <1>1, Zenon DEF RelayShape
<1>4. relayLoop'[r] = "claiming" /\ ~ReadsBack(r, i)'
  BY <1>1, SameHolds, Zenon DEF RelayShape
<1>5. CASE UNCHANGED batch \/ i # h
  <2>1. DOMAIN batch[r] = 1..Len(batch[r]) /\ Len(batch[r]) \in Nat
    BY DEF RelayShape
  <2>2. \A k : Batched(r, k, i)' => Batched(r, k, i)
    BY <1>1, <1>5, <2>1, SMTT(30) DEF Batched
  <2>3. Fewer(r, i)
    BY <1>1, <1>4, <2>2, SameHolds DEF Fewer
  <2> QED
    BY HeldWhileRunning, <1>2, <1>3, <2>3, ZenonT(30)
<1>6. CASE ~(UNCHANGED batch) /\ i = h
  <2>1. ReadsBack(r, i) /\ Holds(r, i)
    BY <1>1, <1>6, ZenonT(30) DEF ReadsBack, Holds
  <2>2. /\ (\A w : ~Dispatches(r, w, i)) /\ (\A k : ~Batched(r, k, i))
        /\ \A q \in Relays : q # r => ~Holds(q, i)
        /\ i \in DOMAIN outbox' /\ outbox'[i].lease > 0
    BY <1>1, <1>2, <2>1 DEF HeldAt
  <2>3. \A w : ~Dispatches(r, w, i)'
    BY <1>1, <2>2, SameHolds, ZenonT(30)
  <2>4. DOMAIN batch[r] = 1..Len(batch[r]) /\ Len(batch[r]) \in Nat
    BY DEF RelayShape
  <2>5. \A k : Batched(r, k, i)' => k = n
    <3> SUFFICES ASSUME NEW k, Batched(r, k, i)', k # n PROVE FALSE
      OBVIOUS
    <3>1. k \in 1..(Len(batch[r]) + 1) /\ batch'[r][k].id = i
      BY <1>1, <1>6 DEF Batched
    <3>2. k \in DOMAIN batch[r]
      BY <2>4, <3>1, SMTT(30)
    <3>3. batch[r][k].id = i
      BY <1>1, <1>6, <3>1, <3>2, ZenonT(30)
    <3> QED
      BY <2>2, <3>2, <3>3 DEF Batched
  <2>6. \A q \in Relays : q # r => ~Holds(q, i)'
    BY <1>3, <2>2 DEF Holds, Fewer
  <2> QED
    BY <1>4, <2>2, <2>3, <2>5, <2>6, ZenonT(30) DEF HeldAt, Holds
<1> QED
  BY <1>5, <1>6, ZenonT(30)

LEMMA HeldSpawn ==
    ASSUME RelayShape, RowsKnown, HeldOnce, NEW i \in RelayRows, i \notin exposed', NEW r \in Relays, SpawnWorker(r)
    PROVE  HeldAt(i)'
<1> DEFINE h == batch[r][1].id
<1>1. /\ UNCHANGED <<outbox, exposed, relayLoop, todo>> /\ 1 \in DOMAIN batch[r]
      /\ Spawned(r).id = h /\ workers'[r] = workers[r] \cup {Spawned(r)}
      /\ \A q \in Relays : q # r => workers'[q] = workers[q] /\ batch'[q] = batch[q]
      /\ \A k \in DOMAIN batch'[r] : k + 1 \in DOMAIN batch[r] /\ k + 1 # 1 /\ batch'[r][k] = batch[r][k + 1]
      /\ batch' \in [Relays -> Seq(Claimed)]
  BY SpawnEffect, ZenonT(30)
<1>2. HeldAt(i) /\ Running(i)
  BY StillHeld, SameRunning, <1>1
<1>3. \A q \in Relays : q # r => Fewer(q, i)
  BY SameFewer, <1>1, ZenonT(30)
<1>4. /\ \A k : Batched(r, k, i)' => k \in Nat /\ k + 1 # 1 /\ Batched(r, k + 1, i)
      /\ ReadsBack(r, i)' <=> ReadsBack(r, i)
  <2>1. \A k \in DOMAIN batch'[r] : k \in Nat
    BY <1>1
  <2> QED
    BY <1>1, <2>1 DEF Batched, ReadsBack
<1>5. \A q \in Relays : Holds(q, i)' => Holds(q, i)
  <2>1. \A w : Dispatches(r, w, i)' => Dispatches(r, w, i) \/ Batched(r, 1, i)
    BY <1>1 DEF Dispatches, Batched
  <2>2. Holds(r, i)' => Holds(r, i)
    BY <1>4, <2>1, ZenonT(30) DEF Holds
  <2> QED
    BY <1>3, <2>2 DEF Holds, Fewer
<1>6. \A q \in Relays : Holds(q, i)' => i \in DOMAIN outbox' /\ outbox'[i].lease > 0
  BY <1>1, <1>2, <1>5, ZenonT(30) DEF HeldAt
<1>7. \A q, p \in Relays : Holds(q, i)' /\ Holds(p, i)' => q = p
  BY <1>2, <1>5, ZenonT(30) DEF HeldAt
<1>8. \A k, l : Batched(r, k, i)' /\ Batched(r, l, i)' => k = l
  <2>1. \A k, l : Batched(r, k, i)' /\ Batched(r, l, i)' => k \in Nat /\ l \in Nat /\ k + 1 = l + 1
    BY <1>2, <1>4, ZenonT(30) DEF HeldAt
  <2>2. \A k, l \in Nat : k + 1 = l + 1 => k = l
    OBVIOUS
  <2> QED
    BY <2>1, <2>2, Zenon
<1>9. CASE i # h
  <2>1. \A w : Dispatches(r, w, i)' => Dispatches(r, w, i)
    BY <1>1, <1>9, ZenonT(30) DEF Dispatches
  <2> QED
    <3>1. OnePlaceOf(r, i)
      BY <1>2, ZenonT(30) DEF HeldAt, OnePlaceOf
    <3>2. OnePlaceOf(r, i)'
      <4>1. /\ \A v, w : Dispatches(r, v, i)' /\ Dispatches(r, w, i)' => v = w
            /\ \A w : ~(Dispatches(r, w, i)' /\ ReadsBack(r, i)')
        BY <1>4, <2>1, <3>1, ZenonT(30) DEF OnePlaceOf
      <4>2. \A w, k : ~(Dispatches(r, w, i)' /\ Batched(r, k, i)')
        BY <1>4, <2>1, <3>1, ZenonT(30) DEF OnePlaceOf
      <4>3. \A k : ~(Batched(r, k, i)' /\ ReadsBack(r, i)')
        BY <1>4, <3>1, ZenonT(30) DEF OnePlaceOf
      <4> QED
        BY <1>8, <4>1, <4>2, <4>3, ZenonT(30) DEF OnePlaceOf
    <3> QED
      BY HeldMoved, <1>2, <1>3, <1>6, <1>7, <3>2, ZenonT(30)
<1>10. CASE i = h
  <2>1. Batched(r, 1, i)
    BY <1>1, <1>10, ZenonT(30) DEF Batched
  <2>2. (\A w : ~Dispatches(r, w, i)) /\ ~ReadsBack(r, i) /\ (\A k : Batched(r, k, i) => k = 1)
    BY <1>2, <2>1 DEF HeldAt
  <2>3. ~ReadsBack(r, i)' /\ \A k : ~Batched(r, k, i)'
    BY <1>4, <2>2, ZenonT(30)
  <2>4. \A w : Dispatches(r, w, i)' => w = Spawned(r)
    BY <1>1, <2>2, ZenonT(30) DEF Dispatches
  <2> QED
    <3>1. OnePlaceOf(r, i)'
      BY <2>3, <2>4, ZenonT(30) DEF OnePlaceOf
    <3> QED
      BY HeldMoved, <1>2, <1>3, <1>6, <1>7, <3>1, ZenonT(30)
<1> QED
  BY <1>9, <1>10

LEMMA HeldDrop ==
    ASSUME RelayShape, RowsKnown, HeldOnce, NEW i \in RelayRows, i \notin exposed', NEW r \in Relays, DropBatch(r)
    PROVE  HeldAt(i)'
<1>1. /\ UNCHANGED <<outbox, workers, exposed, relayLoop, todo>> /\ batch'[r] = <<>>
      /\ \A q \in Relays : q # r => batch'[q] = batch[q]
  BY DropEffect
<1>2. \A k : ~Batched(r, k, i)'
  BY <1>1 DEF Batched
<1>3. Fewer(r, i)
  BY <1>1, <1>2, SameHolds, Zenon DEF Fewer
<1> QED
  BY StillHeld, HeldWhileRunning, SameRunning, SameFewer, <1>1, <1>3, ZenonT(30)

LEMMA HeldCallback ==
    ASSUME RelayShape, RowsKnown, HeldOnce, NEW i \in RelayRows, i \notin exposed', NEW r \in Relays, NEW w \in workers[r], CallbackAccepts(r, w) \/ CallbackFails(r, w)
    PROVE  HeldAt(i)'
<1>1. PICK l \in {"accepted", "failed"} : Advance(r, w, l)
  BY DEF CallbackAccepts, CallbackFails
<1>2. w.at = "calling" /\ UNCHANGED <<outbox, exposed, batch, relayLoop, todo>>
  BY DEF CallbackAccepts, CallbackFails, pollVars
<1>3. /\ workers'[r] = (workers[r] \ {w}) \cup {Moved(w, l)} /\ Moved(w, l).id = w.id
      /\ \A q \in Relays : q # r => workers'[q] = workers[q]
  BY <1>1, AdvanceEffect
<1>4. HeldAt(i) /\ Running(i) /\ \A q \in Relays : q # r => Fewer(q, i)
  BY StillHeld, SameRunning, SameFewer, <1>2, <1>3
<1>5. (\A k : Batched(r, k, i)' <=> Batched(r, k, i)) /\ (ReadsBack(r, i)' <=> ReadsBack(r, i))
  BY <1>2, SameHolds, Zenon
<1>6. CASE i # w.id
  <2>1. \A v : Dispatches(r, v, i)' => Dispatches(r, v, i)
    BY <1>3, <1>6, ZenonT(30) DEF Dispatches
  <2>2. Fewer(r, i)
    BY <1>5, <2>1 DEF Fewer
  <2> QED
    BY HeldWhileRunning, <1>4, <2>2
<1>7. CASE i = w.id
  <2>1. Dispatches(r, w, i) /\ Holds(r, i)
    BY <1>2, <1>7, Zenon DEF Dispatches, Holds
  <2>2. /\ \A v : Dispatches(r, v, i) => v = w
        /\ \A k : ~Batched(r, k, i)
        /\ ~ReadsBack(r, i)
        /\ \A q \in Relays : q # r => ~Holds(q, i)
        /\ i \in DOMAIN outbox' /\ outbox'[i].lease > 0
    BY <1>2, <1>4, <2>1, Zenon DEF HeldAt
  <2>3. \A v : Dispatches(r, v, i)' => v = Moved(w, l)
    BY <1>3, <2>2, ZenonT(30) DEF Dispatches
  <2>4. \A q \in Relays : q # r => ~Holds(q, i)'
    BY <1>4, <2>2 DEF Holds, Fewer
  <2> QED
    BY <1>5, <2>2, <2>3, <2>4, Zenon DEF HeldAt, Holds
<1> QED
  BY <1>6, <1>7

LEMMA HeldRecord ==
    ASSUME RelayShape, RowsKnown, HeldOnce, NEW i \in RelayRows, i \notin exposed', NEW r \in Relays, NEW w \in workers[r], RelayRecordSuccess(r, w) \/ RelayRecordFailure(r, w)
    PROVE  HeldAt(i)'
<1>1. /\ w.at # "settled" /\ Advance(r, w, "settled") /\ UNCHANGED <<exposed, batch, relayLoop, todo>>
      /\ UNCHANGED outbox \/ DeleteRow(w.id) \/ FailedRow(w)
  BY DEF RelayRecordSuccess, RelayRecordFailure, pollVars
<1>2. /\ workers'[r] = (workers[r] \ {w}) \cup {Moved(w, "settled")} /\ Moved(w, "settled").at = "settled"
      /\ \A q \in Relays : q # r => workers'[q] = workers[q]
  BY <1>1, AdvanceEffect
<1>3. \A v : Dispatches(r, v, i)' => Dispatches(r, v, i) /\ v # w
  BY <1>2, Zenon DEF Dispatches
<1>4. \A q \in Relays : Fewer(q, i)
  BY SameFewer, <1>1, <1>2, <1>3, SameHolds, Zenon DEF Fewer
<1>5. HeldAt(i)
  BY StillHeld, <1>1, Zenon
<1>6. CASE i # w.id
  <2>1. Running(i)
    BY <1>1, <1>6 DEF DeleteRow, FailedRow, Running
  <2> QED
    BY HeldWhileRunning, <1>4, <1>5, <2>1, ZenonT(30)
<1>7. CASE i = w.id
  <2>1. Dispatches(r, w, i) /\ Holds(r, i)
    BY <1>1, <1>7, Zenon DEF Dispatches, Holds
  <2>2. /\ \A v : Dispatches(r, v, i) => v = w
        /\ \A k : ~Batched(r, k, i)
        /\ ~ReadsBack(r, i)
        /\ \A q \in Relays : q # r => ~Holds(q, i)
    BY <1>5, <2>1, ZenonT(30) DEF HeldAt
  <2>3. \A q \in Relays : ~Holds(q, i)'
    BY <1>3, <1>4, <2>2 DEF Holds, Fewer
  <2> QED
    BY <2>3, HeldByNone
<1> QED
  BY <1>6, <1>7, ZenonT(30)

LEMMA HeldLeave ==
    ASSUME RelayShape, RowsKnown, HeldOnce, NEW i \in RelayRows, i \notin exposed', NEW r \in Relays, NEW w \in workers[r], LeaveWorker(r, w)
    PROVE  HeldAt(i)'
<1>1. UNCHANGED <<outbox, exposed, batch, relayLoop, todo>> /\ workers' = [workers EXCEPT ![r] = workers[r] \ {w}]
  BY DEF LeaveWorker, tableVars, pollVars
<1>2. \A q \in Relays : workers'[q] \subseteq workers[q]
  BY <1>1 DEF RelayShape
<1>3. \A q \in Relays : \A v : Dispatches(q, v, i)' => Dispatches(q, v, i)
  BY <1>2, Zenon DEF Dispatches
<1>4. \A q \in Relays : Fewer(q, i)
  BY <1>1, <1>3, SameHolds, ZenonT(30) DEF Fewer
<1> QED
  BY StillHeld, HeldWhileRunning, SameRunning, <1>1, <1>4

LEMMA HeldCrash ==
    ASSUME RelayShape, RowsKnown, HeldOnce, NEW i \in RelayRows, i \notin exposed', NEW r \in Relays, CrashRelay(r)
    PROVE  HeldAt(i)'
<1>1. /\ UNCHANGED <<outbox, exposed>> /\ batch'[r] = <<>> /\ workers'[r] = {} /\ relayLoop'[r] = "off"
      /\ \A q \in Relays : q # r => /\ batch'[q] = batch[q] /\ workers'[q] = workers[q]
                                    /\ relayLoop'[q] = relayLoop[q] /\ todo'[q] = todo[q]
  BY CrashEffect
<1>2. (\A v : ~Dispatches(r, v, i)') /\ (\A k : ~Batched(r, k, i)') /\ ~ReadsBack(r, i)'
  BY <1>1, SMTT(30) DEF Dispatches, Batched, ReadsBack
<1>3. \A q \in Relays : Fewer(q, i)
  BY SameFewer, <1>1, <1>2 DEF Fewer
<1> QED
  BY StillHeld, HeldWhileRunning, SameRunning, <1>1, <1>3, ZenonT(30)

LEMMA HeldTick ==
    ASSUME RelayShape, RowsKnown, HeldOnce, NEW i \in RelayRows, i \notin exposed', RelayTick
    PROVE  HeldAt(i)'
<1>1. /\ UNCHANGED <<workers, batch, relayLoop, todo>>
      /\ exposed' = exposed \cup {j \in DOMAIN outbox : outbox[j].lease <= 1 /\ \E r \in Relays : j \in Holding(r)}
  BY Zenon DEF RelayTick
<1>2. \A r \in Relays : Holds(r, i) => i \in Holding(r)
  BY DEF Holds, Dispatches, Batched, ReadsBack, Holding, BatchRows
<1>3. i \in DOMAIN outbox => outbox[i].lease \in Int
  BY DEF RelayShape, IsRow
<1>4. Running(i)
  BY <1>1, <1>2, <1>3, TickEffect DEF Running
<1> QED
  BY StillHeld, HeldWhileRunning, SameFewer, <1>1, <1>4, Zenon

LEMMA HeldStutter ==
    ASSUME RelayShape, RowsKnown, HeldOnce, NEW i \in RelayRows, i \notin exposed', UNCHANGED relayVars
    PROVE  HeldAt(i)'
  BY StillHeld, HeldWhileRunning, SameRunning, PollsFewer, Zenon DEF relayVars, tableVars

(* A claim needs an open lease, so it finds the row unheld; and every step *)
(* that lets a row go settles or gives up the one hold there is.           *)
LEMMA HeldStep == RelayShape /\ RowsKnown /\ HeldOnce /\ [RelayNext]_relayVars => HeldOnce'
<1> SUFFICES ASSUME RelayShape, RowsKnown, HeldOnce, [RelayNext]_relayVars,
                    NEW i \in RelayRows, i \notin exposed'
             PROVE  HeldAt(i)'
  BY DEF HeldOnce
<1> QED
  BY HeldApplication, HeldElsewhere, HeldTryClaim, HeldReadRow, HeldSpawn, HeldDrop, ZenonT(30),
     HeldCallback, HeldRecord, HeldLeave, HeldCrash, HeldTick, HeldStutter
     DEF RelayNext, LoopStep, WorkerStep, Elsewhere

(* Only an expired lease or a replay lets two callbacks of one row run     *)
(* side by side, for any number of relays and workers, although the writes *)
(* that settle a row are not fenced by its lease.                          *)
THEOREM LeaseKeepsHandlersApart == RelaySpec => []OneHandlerPerLease
<1>1. RelayInit => HeldOnce
  <2> SUFFICES ASSUME RelayInit, NEW i PROVE HeldAt(i)
    BY DEF HeldOnce
  <2>1. \A r \in Relays : workers[r] = {} /\ DOMAIN batch[r] = {} /\ relayLoop[r] # "reading"
    BY SMTT(30) DEF RelayInit
  <2> QED
    BY <2>1, Zenon DEF HeldAt, Holds, Dispatches, Batched, ReadsBack
<1>2. RelayShape /\ HeldOnce => OneHandlerPerLease
  <2> SUFFICES ASSUME RelayShape, HeldOnce, NEW r \in Relays, NEW q \in Relays, NEW w \in workers[r], NEW v \in workers[q],
                      w.id = v.id, w.at = "calling", v.at = "calling", w.id \notin exposed
               PROVE  <<r, w.slot>> = <<q, v.slot>>
    BY DEF OneHandlerPerLease
  <2>1. w.id \in RelayRows
    BY DEF RelayShape, IsWorker
  <2>2. Dispatches(r, w, w.id) /\ Dispatches(q, v, w.id) /\ Holds(r, w.id) /\ Holds(q, w.id)
    BY DEF Dispatches, Holds
  <2> QED
    BY <2>1, <2>2 DEF HeldOnce, HeldAt
<1> QED
  BY <1>1, <1>2, ShapeInit, ShapeStep, RowsStep, HeldStep, PTL DEF RelaySpec
=============================================================================
