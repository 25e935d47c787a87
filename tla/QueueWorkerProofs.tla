-------------------------- MODULE QueueWorkerProofs --------------------------
(***************************************************************************)
(* The worker pool's guarantees for any number of processes, pumps, jobs,  *)
(* retries and faults.  The pool implements the driver's specification, so *)
(* what DatabaseQueueProofs shows of the driver holds under the pool too.  *)
(***************************************************************************)
EXTENDS QueueWorker, DatabaseQueueProofs, FiniteSetTheorems

USE WorkerAssumption DEF WorkerAssumption

wvars == <<vars, pumpVars>>

(* Every step of the pool is a step of the driver or leaves it alone. *)
LEMMA DriverStep == WTypeOK /\ [WNext]_wvars => [Next]_vars
<1> SUFFICES ASSUME WTypeOK, [WNext]_wvars PROVE [Next]_vars
  OBVIOUS
<1>0. \A w \in Pumps : lease[w] \subseteq tokens /\ Proc(w) \in Procs
  BY DEF WTypeOK, Proc
<1>1. ASSUME NEW w \in Pumps, Pop(w) PROVE Next
  BY <1>0, <1>1 DEF Pop, PopReserved, Next
<1>2. ASSUME NEW w \in Pumps, PumpStep(w) PROVE Next \/ UNCHANGED vars
  <2>1. CASE BatchIDPanics(w) \/ SkipCancelled(w) \/ HandlerSucceeds(w) \/ HandlerFails(w)
             \/ GiveUp(w) \/ PumpPanics(w)
    BY <2>1 DEF BatchIDPanics, SkipCancelled, HandlerSucceeds, HandlerFails, GiveUp, PumpPanics
  <2>2. ASSUME NEW t \in lease[w], Quarantine(w, t) \/ FailJob(w, t) PROVE Next \/ UNCHANGED vars
    BY <1>0, <2>2 DEF Quarantine, FailJob, LeaseLost, Next
  <2>3. ASSUME NEW t \in lease[w], AckReservation(w, t) PROVE Next \/ UNCHANGED vars
    BY <1>0, <2>3 DEF AckReservation, LeaseLost, Next
  <2>4. ASSUME NEW t \in lease[w], NEW d \in Delays, Retry(w, t, d) PROVE Next \/ UNCHANGED vars
    BY <1>0, <2>4 DEF Retry, LeaseLost, Next
  <2>5. ASSUME NEW t \in lease[w], StartHandler(w, t) \/ RecordSuccess(w, t) \/ RecordFailure(w, t)
        PROVE  UNCHANGED vars
    BY <2>5 DEF StartHandler, RecordSuccess, RecordFailure
  <2> QED
    BY <1>2, <2>1, <2>2, <2>3, <2>4, <2>5, ZenonT(30) DEF PumpStep
<1>3. ASSUME NEW p \in Procs, Stop(p) \/ Restart(p) \/ Crash(p) PROVE UNCHANGED vars
  BY <1>3 DEF Stop, Restart, Crash
<1>4. CASE Client
  BY <1>4 DEF Client, Next
<1>5. CASE Time
  BY <1>5 DEF Time, Next
<1>6. CASE UNCHANGED wvars
  BY <1>6, Zenon DEF wvars
<1> QED
  BY <1>1, <1>2, <1>3, <1>4, <1>5, <1>6 DEF WNext

(* No operation of the driver takes a token back. *)
LEMMA TokensGrow == [Next]_vars => tokens \subseteq tokens'
  BY ZenonT(30) DEF Next, vars, PushDelayedCtx, PushIfNotExistsCtx, ReserveNext, ReserveRow, AckCtx,
         ReleaseCtx, FailReservedCtx, ClearJobs, ClearDedupe, ClearAborted, Tick

(* What the pool does to its own state: one pump moves on with its lease,  *)
(* or gives it up, or takes a fresh one; or a process changes state.       *)
LEMMA WTypeStep == TypeOK /\ WTypeOK /\ [WNext]_wvars => WTypeOK'
<1> SUFFICES ASSUME TypeOK, WTypeOK, [WNext]_wvars PROVE WTypeOK'
  OBVIOUS
<1>0. tokens \subseteq tokens'
  BY DriverStep, TokensGrow
<1> DEFINE Held(w) == /\ pc[w] \in PumpStates /\ lease[w] \subseteq tokens
                      /\ IF pc[w] \in {"idle", "dead"} THEN lease[w] = {}
                                                       ELSE \E t \in tokens : lease[w] = {t}
                      /\ \A t \in lease[w] : t.reservedBy = Proc(w)
           Counts == /\ stopped \in [Procs -> BOOLEAN]
                     /\ processed \in [RowIds -> Nat] /\ reported \in [RowIds -> Nat]
                     /\ starts \in [RowIds -> Nat] /\ faults \in 0..MaxFaults
           Shape == pc = [w \in Pumps |-> pc[w]] /\ lease = [w \in Pumps |-> lease[w]]
<1>a. WTypeOK <=> Shape /\ Counts /\ \A w \in Pumps : Held(w)
  BY DEF WTypeOK
<1>b. WTypeOK' <=> Shape' /\ Counts' /\ \A w \in Pumps : Held(w)'
  BY DEF WTypeOK, Proc
<1>c. ASSUME NEW w \in Pumps, pc'[w] = pc[w], lease'[w] = lease[w] PROVE Held(w)'
  BY <1>0, <1>a, <1>c DEF Proc
<1>d. ASSUME NEW w \in Pumps, NEW l \in PumpStates \ {"idle", "dead"}, pc[w] \notin {"idle", "dead"},
             Goto(w, l), UNCHANGED lease
      PROVE  Shape' /\ \A v \in Pumps : Held(v)'
  BY <1>0, <1>a, <1>c, <1>d, Zenon DEF Goto, Proc
<1>e. ASSUME NEW w \in Pumps, NEW l \in {"idle", "dead"},
             Goto(w, l), lease' = [lease EXCEPT ![w] = {}]
      PROVE  Shape' /\ \A v \in Pumps : Held(v)'
  BY <1>0, <1>a, <1>c, <1>e, Zenon DEF Goto, PumpStates
<1>f. Fault => faults' \in 0..MaxFaults
  BY <1>a DEF Fault
<1>g. \A w \in Pumps : \A t \in lease[w] : t.id \in RowIds
  BY <1>a, TokenFields
<1> HIDE DEF Held, Counts, Shape
<1>1. ASSUME NEW w \in Pumps, NEW q \in Queues, NEW i \in RowIds, PopReserved(w, q, i) PROVE WTypeOK'
  <2>1. Proc(w) \in Procs
    BY DEF Proc
  <2>2. TokenOf(Proc(w), i) \in tokens' /\ TokenOf(Proc(w), i).reservedBy = Proc(w)
    BY <1>1, <2>1 DEF PopReserved, ReserveNext, ReserveRow, TokenOf
  <2>3. Held(w)'
    BY <1>1, <1>a, <2>2 DEF PopReserved, Goto, Held, PumpStates, Proc, Shape
  <2>4. \A v \in Pumps : Held(v)'
    BY <1>1, <1>a, <1>c, <2>3 DEF PopReserved, Goto, Shape
  <2>5. Shape' /\ Counts'
    BY <1>1, <1>a, ZenonT(30) DEF PopReserved, Goto, Shape, Counts
  <2> QED
    BY <1>b, <2>4, <2>5
<1>2. ASSUME NEW w \in Pumps, BatchIDPanics(w) \/ SkipCancelled(w) \/ HandlerSucceeds(w) \/ GiveUp(w)
      PROVE  WTypeOK'
  <2>1. Counts'
    BY <1>2, <1>a DEF BatchIDPanics, SkipCancelled, HandlerSucceeds, GiveUp, Counts
  <2> QED
    BY <1>2, <1>b, <1>d, <2>1, ZenonT(30) DEF BatchIDPanics, SkipCancelled, HandlerSucceeds, GiveUp, PumpStates
<1>3. ASSUME NEW w \in Pumps, HandlerFails(w) \/ PumpPanics(w) PROVE WTypeOK'
  <2>1. Counts'
    BY <1>3, <1>a, <1>f, ZenonT(30) DEF HandlerFails, PumpPanics, Counts
  <2> QED
    BY <1>3, <1>b, <1>d, <1>e, <2>1 DEF HandlerFails, PumpPanics, Done, PumpStates
<1>4. ASSUME NEW w \in Pumps, NEW t \in lease[w], Quarantine(w, t) \/ AckReservation(w, t) \/ FailJob(w, t)
      PROVE  WTypeOK'
  <2>1. Counts'
    BY <1>4, <1>a, <1>f, ZenonT(30) DEF Quarantine, AckReservation, FailJob, Counts
  <2> QED
    BY <1>4, <1>b, <1>d, <1>e, <2>1, ZenonT(30) DEF Quarantine, AckReservation, FailJob, Done, PumpStates
<1>5. ASSUME NEW w \in Pumps, NEW t \in lease[w], NEW d \in Delays, Retry(w, t, d) PROVE WTypeOK'
  <2>1. Counts'
    BY <1>5, <1>a, <1>f, ZenonT(30) DEF Retry, Counts
  <2> QED
    BY <1>5, <1>b, <1>d, <1>e, <2>1, ZenonT(30) DEF Retry, Done, PumpStates
<1>6. ASSUME NEW w \in Pumps, NEW t \in lease[w],
             StartHandler(w, t) \/ RecordSuccess(w, t) \/ RecordFailure(w, t)
      PROVE  WTypeOK'
  <2>1. Counts'
    BY <1>6, <1>a, <1>g DEF StartHandler, RecordSuccess, RecordFailure, Counts
  <2> QED
    BY <1>6, <1>b, <1>d, <1>e, <2>1, ZenonT(30) DEF StartHandler, RecordSuccess, RecordFailure, Done, PumpStates
<1>7. ASSUME NEW p \in Procs, Stop(p) \/ Restart(p) \/ Crash(p) PROVE WTypeOK'
  <2>1. Counts'
    BY <1>7, <1>a, <1>f, ZenonT(30) DEF Stop, Restart, Crash, Counts
  <2>2. Shape'
    BY <1>7, <1>a DEF Stop, Restart, Crash, Shape
  <2>3. ASSUME NEW w \in Pumps PROVE Held(w)'
    <3>1. CASE pc'[w] = pc[w] /\ lease'[w] = lease[w]
      BY <1>c, <3>1
    <3>2. CASE pc'[w] = "idle" /\ lease'[w] = {}
      BY <3>2 DEF Held, PumpStates
    <3>3. pc[w] \in {"idle", "dead"} => lease[w] = {}
      BY <1>a DEF Held
    <3> QED
      BY <1>7, <3>1, <3>2, <3>3, ZenonT(30) DEF Stop, Restart, Crash
  <2> QED
    BY <1>b, <2>1, <2>2, <2>3
<1>8. CASE UNCHANGED pumpVars
  <2>1. Counts' /\ Shape'
    BY <1>8, <1>a DEF pumpVars, Counts, Shape
  <2> QED
    BY <1>8, <1>b, <1>c, <2>1 DEF pumpVars
<1> QED
  BY <1>1, <1>2, <1>3, <1>4, <1>5, <1>6, <1>7, <1>8, ZenonT(30) DEF WNext, Pop, PumpStep, wvars

(* Pumps hold exactly the leases their place in processJob calls for. *)
THEOREM WTypeCorrect == WSpec => [](TypeOK /\ WTypeOK)
<1>1. WInit => TypeOK /\ WTypeOK
  <2>1. WInit => TypeOK
    BY TypeInit DEF WInit
  <2>2. WInit => WTypeOK
    BY DEF WInit, WTypeOK, PumpStates
  <2> QED
    BY <2>1, <2>2
<1>2. TypeOK /\ WTypeOK /\ [WNext]_wvars => (TypeOK /\ WTypeOK)'
  BY DriverStep, TypeStep, WTypeStep
<1> QED
  BY <1>1, <1>2, PTL DEF WSpec, wvars

(* The pool implements the driver's specification: pumps, crashes and      *)
(* restarts reach the tables only through the driver's operations, so all  *)
(* the driver's theorems hold of a running pool.                           *)
THEOREM PoolUsesDriver == WSpec => UsesDriver
<1>1. WInit => Init
  BY Zenon DEF WInit
<1> QED
  BY <1>1, WTypeCorrect, DriverStep, PTL DEF WSpec, wvars, Spec, UsesDriver

-----------------------------------------------------------------------------
(* Side effects *)

(* A pump on its way to the success (failure) side effects of a row is the *)
(* only one, the row is acknowledged (failed), and they have not run yet.  *)
Owed ==
    /\ \A w \in Pumps : \A t \in lease[w] :
          /\ pc[w] = "processed" => acked[t.id] = 1 /\ processed[t.id] = 0
          /\ pc[w] = "reported" => failed[t.id] = 1 /\ reported[t.id] = 0
    /\ \A v, w \in Pumps : \A t \in lease[v], u \in lease[w] :
          pc[v] \in {"processed", "reported"} /\ pc[w] = pc[v] /\ t.id = u.id => v = w

(* What the driver's steps leave of its end-of-job counters: they do not   *)
(* fall, and they change only where a fenced settlement deletes the row.   *)
LEMMA CountersGrow ==
    ASSUME TypeOK, [Next]_vars
    PROVE  \A i \in RowIds : acked[i] <= acked'[i] /\ failed[i] <= failed'[i]
<1>0. acked \in [RowIds -> Nat] /\ failed \in [RowIds -> Nat]
  BY DEF TypeOK
<1>1. ASSUME NEW t \in tokens, AckCtx(t) \/ FailReservedCtx(t)
      PROVE  \A i \in RowIds : acked[i] <= acked'[i] /\ failed[i] <= failed'[i]
  BY <1>0, <1>1, TokenFields DEF AckCtx, FailReservedCtx
<1>2. CASE UNCHANGED <<acked, failed>>
  BY <1>0, <1>2
<1> QED
  BY <1>1, <1>2, ZenonT(30) DEF Next, vars, PushDelayedCtx, PushIfNotExistsCtx, ReserveNext, ReserveRow,
         ReleaseCtx, ClearJobs, ClearDedupe, ClearAborted, Tick

(* A settlement that took effect found its job unsettled and settles it once. *)
LEMMA SettleEffect ==
    ASSUME TypeOK, SettledOnce, NEW t \in tokens
    PROVE  /\ AckCtx(t) => acked[t.id] = 0 /\ acked'[t.id] = 1
           /\ FailReservedCtx(t) => failed[t.id] = 0 /\ failed'[t.id] = 1
<1>1. /\ t.id \in RowIds /\ acked \in [RowIds -> Nat] /\ failed \in [RowIds -> Nat]
      /\ acked[t.id] \in Nat /\ failed[t.id] \in Nat
  BY TokenFields, ZenonT(30) DEF TypeOK
<1>2. Fenced(t) => acked[t.id] + failed[t.id] = 0
  BY <1>1 DEF SettledOnce, Fenced
<1>3. Fenced(t) => acked[t.id] = 0 /\ failed[t.id] = 0
  BY <1>1, <1>2
<1> QED
  BY <1>1, <1>3 DEF AckCtx, FailReservedCtx

(* What the pool keeps: the side effects owed, and none without its cause. *)
EffectsInv ==
    /\ Owed
    /\ \A i \in RowIds : processed[i] <= acked[i] /\ reported[i] <= failed[i]

(* Only a settlement that took effect makes a pump owe side effects, and   *)
(* running them clears the debt.                                           *)
LEMMA EffectsStep ==
    TypeOK /\ TypeOK' /\ SettledOnce /\ SettledOnce' /\ WTypeOK /\ EffectsInv /\ [WNext]_wvars => EffectsInv'
<1> SUFFICES ASSUME TypeOK, TypeOK', SettledOnce, SettledOnce', WTypeOK, EffectsInv, [WNext]_wvars
             PROVE  EffectsInv'
  OBVIOUS
<1>0. /\ \A i \in RowIds : acked[i] \in Nat /\ failed[i] \in Nat /\ acked'[i] \in Nat /\ failed'[i] \in Nat
      /\ \A i \in RowIds : processed[i] \in Nat /\ reported[i] \in Nat
      /\ processed \in [RowIds -> Nat] /\ reported \in [RowIds -> Nat]
  BY DEF TypeOK, WTypeOK
<1>a. \A i \in RowIds : acked[i] <= acked'[i] /\ failed[i] <= failed'[i]
  BY DriverStep, CountersGrow
<1>b. \A i \in RowIds : (acked[i] = 1 => acked'[i] = 1) /\ (failed[i] = 1 => failed'[i] = 1)
  <2> SUFFICES ASSUME NEW i \in RowIds
               PROVE  (acked[i] = 1 => acked'[i] = 1) /\ (failed[i] = 1 => failed'[i] = 1)
    OBVIOUS
  <2>1. acked'[i] + failed'[i] <= 1
    BY DEF SettledOnce
  <2>2. \A a, b, c, d \in Nat : a <= c /\ b <= d /\ c + d <= 1 => (a = 1 => c = 1) /\ (b = 1 => d = 1)
    OBVIOUS
  <2> QED
    BY <1>0, <1>a, <2>1, <2>2
<1>c. /\ pc \in [Pumps -> PumpStates] /\ lease \in [Pumps -> SUBSET tokens]
      /\ \A w \in Pumps : lease[w] \subseteq tokens
      /\ \A w \in Pumps : \A t \in lease[w] : t.id \in RowIds /\ lease[w] = {t}
  BY TokenFields DEF WTypeOK
<1>d. ASSUME UNCHANGED <<processed, reported>>
      PROVE  \A i \in RowIds : processed'[i] <= acked'[i] /\ reported'[i] <= failed'[i]
  <2> SUFFICES ASSUME NEW i \in RowIds
               PROVE  processed[i] <= acked'[i] /\ reported[i] <= failed'[i]
    BY <1>d
  <2>1. processed[i] <= acked[i] /\ reported[i] <= failed[i]
    BY DEF EffectsInv
  <2> QED
    BY <1>0, <1>a, <2>1
<1>1. ASSUME \A w \in Pumps : pc'[w] \in {"processed", "reported"} => pc'[w] = pc[w] /\ lease'[w] = lease[w],
             UNCHANGED <<processed, reported>>
      PROVE  EffectsInv'
  <2>1. Owed'
    BY <1>1, <1>b, <1>c DEF EffectsInv, Owed
  <2>2. \A i \in RowIds : processed'[i] <= acked'[i] /\ reported'[i] <= failed'[i]
    BY <1>1, <1>d
  <2> QED
    BY <2>1, <2>2, ZenonT(30) DEF EffectsInv
<1>2. ASSUME NEW w \in Pumps, NEW t \in lease[w], AckCtx(t), Goto(w, "processed"),
             UNCHANGED <<lease, processed, reported>>
      PROVE  EffectsInv'
  <2>1. t.id \in RowIds /\ acked[t.id] = 0 /\ acked'[t.id] = 1
    BY <1>2, <1>c, SettleEffect, ZenonT(30)
  <2>2. processed[t.id] = 0
    BY <1>0, <2>1, SMTT(30) DEF EffectsInv
  <2>3. \A v \in Pumps : \A u \in lease[v] : pc[v] = "processed" => u.id # t.id
    BY <2>1 DEF EffectsInv, Owed
  <2>4. pc'[w] = "processed" /\ \A v \in Pumps : v # w => pc'[v] = pc[v]
    BY <1>2, <1>c, ZenonT(30) DEF Goto
  <2>5. Owed'
    BY <1>2, <1>b, <1>c, <2>1, <2>2, <2>3, <2>4, SMTT(30) DEF EffectsInv, Owed
  <2>6. \A i \in RowIds : processed'[i] <= acked'[i] /\ reported'[i] <= failed'[i]
    BY <1>2, <1>d, ZenonT(30)
  <2> QED
    BY <2>5, <2>6, ZenonT(30) DEF EffectsInv
<1>3. ASSUME NEW w \in Pumps, NEW t \in lease[w], FailReservedCtx(t), Goto(w, "reported"),
             UNCHANGED <<lease, processed, reported>>
      PROVE  EffectsInv'
  <2>1. t.id \in RowIds /\ failed[t.id] = 0 /\ failed'[t.id] = 1
    BY <1>3, <1>c, SettleEffect, ZenonT(30)
  <2>2. reported[t.id] = 0
    BY <1>0, <2>1, SMTT(30) DEF EffectsInv
  <2>3. \A v \in Pumps : \A u \in lease[v] : pc[v] = "reported" => u.id # t.id
    BY <2>1 DEF EffectsInv, Owed
  <2>4. pc'[w] = "reported" /\ \A v \in Pumps : v # w => pc'[v] = pc[v]
    BY <1>3, <1>c, ZenonT(30) DEF Goto
  <2>5. Owed'
    BY <1>3, <1>b, <1>c, <2>1, <2>2, <2>3, <2>4, SMTT(30) DEF EffectsInv, Owed
  <2>6. \A i \in RowIds : processed'[i] <= acked'[i] /\ reported'[i] <= failed'[i]
    BY <1>3, <1>d, ZenonT(30)
  <2> QED
    BY <2>5, <2>6 DEF EffectsInv
<1>4. ASSUME NEW w \in Pumps, NEW t \in lease[w], RecordSuccess(w, t) \/ RecordFailure(w, t)
      PROVE  EffectsInv'
  <2>1. /\ t.id \in RowIds /\ pc'[w] = "idle"
        /\ \A v \in Pumps : v # w => pc'[v] = pc[v] /\ lease'[v] = lease[v]
        /\ acked' = acked /\ failed' = failed
    BY <1>4, <1>c, ZenonT(30) DEF RecordSuccess, RecordFailure, Done, Goto, vars
  <2>2. CASE RecordSuccess(w, t)
    <3>1. /\ pc[w] = "processed" /\ acked[t.id] = 1 /\ processed[t.id] = 0 /\ reported' = reported
          /\ processed' = [processed EXCEPT ![t.id] = 1]
      <4>1. pc[w] = "processed" /\ reported' = reported /\ processed' = [processed EXCEPT ![t.id] = processed[t.id] + 1]
        BY <2>2, ZenonT(30) DEF RecordSuccess
      <4>2. acked[t.id] = 1 /\ processed[t.id] = 0
        BY <4>1 DEF EffectsInv, Owed
      <4>3. processed[t.id] + 1 = 1
        BY <4>2, SMTT(30)
      <4> QED
        BY <4>1, <4>2, <4>3, ZenonT(30)
    <3>2. \A v \in Pumps \ {w} : \A u \in lease[v] : pc[v] = "processed" => u.id # t.id
      BY <3>1, SMTT(30) DEF EffectsInv, Owed
    <3>3. Owed'
      BY <1>0, <1>c, <2>1, <3>1, <3>2, SMTT(30) DEF EffectsInv, Owed
    <3>4. \A i \in RowIds : processed'[i] <= acked'[i] /\ reported'[i] <= failed'[i]
      BY <1>0, <2>1, <3>1, SMTT(30) DEF EffectsInv
    <3> QED
      BY <3>3, <3>4 DEF EffectsInv
  <2>3. CASE RecordFailure(w, t)
    <3>1. /\ pc[w] = "reported" /\ failed[t.id] = 1 /\ reported[t.id] = 0 /\ processed' = processed
          /\ reported' = [reported EXCEPT ![t.id] = 1]
      <4>1. pc[w] = "reported" /\ processed' = processed /\ reported' = [reported EXCEPT ![t.id] = reported[t.id] + 1]
        BY <2>3, ZenonT(30) DEF RecordFailure
      <4>2. failed[t.id] = 1 /\ reported[t.id] = 0
        BY <4>1 DEF EffectsInv, Owed
      <4>3. reported[t.id] + 1 = 1
        BY <4>2
      <4> QED
        BY <4>1, <4>2, <4>3, ZenonT(30)
    <3>2. \A v \in Pumps \ {w} : \A u \in lease[v] : pc[v] = "reported" => u.id # t.id
      BY <3>1, SMTT(30) DEF EffectsInv, Owed
    <3>3. Owed'
      BY <1>0, <1>c, <2>1, <3>1, <3>2, SMTT(30) DEF EffectsInv, Owed
    <3>4. \A i \in RowIds : processed'[i] <= acked'[i] /\ reported'[i] <= failed'[i]
      BY <1>0, <2>1, <3>1 DEF EffectsInv
    <3> QED
      BY <3>3, <3>4 DEF EffectsInv
  <2> QED
    BY <1>4, <2>2, <2>3, ZenonT(30)
<1>5. ASSUME NEW w \in Pumps, Pop(w) PROVE EffectsInv'
  BY <1>1, <1>5, <1>c, ZenonT(30) DEF Pop, PopReserved, Goto
<1>6. ASSUME NEW w \in Pumps, PumpStep(w) PROVE EffectsInv'
  <2>1. CASE BatchIDPanics(w) \/ SkipCancelled(w) \/ HandlerSucceeds(w) \/ HandlerFails(w)
             \/ GiveUp(w) \/ PumpPanics(w)
    BY <1>1, <1>c, <2>1, ZenonT(30) DEF BatchIDPanics, SkipCancelled, HandlerSucceeds, HandlerFails, GiveUp,
                            PumpPanics, Done, Goto
  <2>2. ASSUME NEW t \in lease[w], Quarantine(w, t) \/ StartHandler(w, t) PROVE EffectsInv'
    BY <1>1, <1>c, <2>2, ZenonT(30) DEF Quarantine, StartHandler, Done, Goto
  <2>3. ASSUME NEW t \in lease[w], NEW d \in Delays, Retry(w, t, d) PROVE EffectsInv'
    BY <1>1, <1>c, <2>3, ZenonT(30) DEF Retry, Done, Goto
  <2>4. ASSUME NEW t \in lease[w], AckReservation(w, t) PROVE EffectsInv'
    BY <1>1, <1>2, <1>c, <2>4, ZenonT(30) DEF AckReservation, Done, Goto
  <2>5. ASSUME NEW t \in lease[w], FailJob(w, t) PROVE EffectsInv'
    BY <1>1, <1>3, <1>c, <2>5, ZenonT(30) DEF FailJob, Done, Goto
  <2> QED
    BY <1>4, <1>6, <2>1, <2>2, <2>3, <2>4, <2>5, ZenonT(30) DEF PumpStep
<1>7. ASSUME NEW p \in Procs, Stop(p) \/ Restart(p) \/ Crash(p) PROVE EffectsInv'
  BY <1>1, <1>7, <1>c, ZenonT(30) DEF Stop, Restart, Crash
<1>8. CASE UNCHANGED pumpVars
  BY <1>1, <1>8 DEF pumpVars
<1> QED
  BY <1>5, <1>6, <1>7, <1>8 DEF WNext, wvars

(* Success and failure side effects run at most once per job, and only     *)
(* after the acknowledgement or failure record they announce, with any     *)
(* number of slow, crashing or erroring pumps (ackReservation, failJob).   *)
THEOREM EffectsRunOnce == WSpec => []SideEffectsOnce
<1>1. TypeOK /\ WTypeOK /\ WInit => EffectsInv
  BY DEF WInit, Init, EffectsInv, Owed
<1>2. TypeOK /\ WTypeOK /\ SettledOnce /\ EffectsInv => SideEffectsOnce
  <2> SUFFICES ASSUME TypeOK, WTypeOK, SettledOnce, EffectsInv, NEW i \in RowIds
               PROVE  processed[i] <= acked[i] /\ reported[i] <= failed[i] /\ processed[i] + reported[i] <= 1
    BY DEF SideEffectsOnce
  <2>1. acked[i] \in Nat /\ failed[i] \in Nat /\ processed[i] \in Nat /\ reported[i] \in Nat
    BY ZenonT(30) DEF TypeOK, WTypeOK
  <2>2. processed[i] <= acked[i] /\ reported[i] <= failed[i] /\ acked[i] + failed[i] <= 1
    BY DEF EffectsInv, SettledOnce
  <2> QED
    BY <2>1, <2>2
<1>3. JobsAccounted => SettledOnce
  BY DEF JobsAccounted
<1>4. WSpec => []SettledOnce
  BY <1>3, PoolUsesDriver, JobsEndOnce, PTL DEF UsesDriver
<1> QED
  BY <1>1, <1>2, <1>4, WTypeCorrect, EffectsStep, PTL DEF WSpec, wvars

-----------------------------------------------------------------------------
(* Overlapping handlers *)

(* Rows removed by Clear do not come back. *)
ClearedGone == \A i \in cleared : i \notin DOMAIN jobs /\ i < nextId

(* Ids are not used again, so Clear is final. *)
LEMMA ClearedGoneStep == TypeOK /\ ClearedGone /\ [Next]_vars => ClearedGone'
<1> SUFFICES ASSUME TypeOK, ClearedGone, [Next]_vars PROVE ClearedGone'
  OBVIOUS
<1>0. nextId \in Nat /\ cleared \subseteq Nat
  BY ConstantsAssumption, SMTT(30) DEF TypeOK, RowIds, ConstantsAssumption
<1>1. ASSUME NEW p \in Procs, NEW q, NEW k, NEW d, Insert(p, q, k, d), UNCHANGED cleared
      PROVE  ClearedGone'
  BY <1>0, <1>1, InsertEffect DEF ClearedGone
<1>2. ASSUME DOMAIN jobs' \subseteq DOMAIN jobs, UNCHANGED <<cleared, nextId>> PROVE ClearedGone'
  BY <1>2, ZenonT(30) DEF ClearedGone
<1>3. ASSUME NEW p \in Procs, NEW q \in Queues, NEW i \in RowIds, ReserveNext(p, q, i) PROVE ClearedGone'
  BY <1>2, <1>3, ReserveEffect, ZenonT(30)
<1>4. ASSUME NEW t \in tokens, NEW d, ReleaseCtx(t, d) PROVE ClearedGone'
  BY <1>2, <1>4, ReleaseEffect
<1>5. ASSUME NEW S, DeleteRows(S), UNCHANGED <<cleared, nextId>> PROVE ClearedGone'
  BY <1>2, <1>5, DeleteEffect, ZenonT(30)
<1>6. ASSUME NEW q, DeleteRows(RowsOf(q)), cleared' = cleared \cup RowsOf(q), nextId' = nextId
      PROVE  ClearedGone'
  <2>1. DOMAIN jobs' = DOMAIN jobs \ RowsOf(q)
    BY <1>6, DeleteEffect, ZenonT(30)
  <2> QED
    BY <1>6, <2>1 DEF ClearedGone, RowsOf, TypeOK
<1> QED
  BY <1>1, <1>2, <1>3, <1>4, <1>5, <1>6, ZenonT(30)
     DEF Next, vars, PushDelayedCtx, PushIfNotExistsCtx, AckCtx, FailReservedCtx,
         ClearJobs, ClearDedupe, ClearAborted, Tick

(* The lease of t has run out on the clock of some process. *)
Expired(t) == clock - t.at > RetryAfter - MaxSkew

(* A row with an unspent token is popped again only past the cutoff. *)
LEMMA PopNeedsExpiry ==
    ASSUME TypeOK, LeaseState, ClearedGone, NEW p \in Procs, NEW q \in Queues, NEW i \in RowIds,
           ReserveNext(p, q, i), NEW t \in tokens, t.id = i, t \notin spent
    PROVE  Expired(t)
<1> SUFFICES ASSUME ~Expired(t) PROVE FALSE
  OBVIOUS
<1>1. i \in DOMAIN jobs /\ Poppable(p, jobs[i]) /\ i \notin cleared
  BY ReserveEffect, ZenonT(30) DEF ClearedGone
<1>2. Fenced(t) /\ jobs[i].reservedAt = t.at + Skew[t.reservedBy]
  BY <1>1 DEF LeaseState, Expired
<1>3. Reserved(jobs[i])
  BY <1>2, TokenFields, ZenonT(30) DEF Fenced, Reserved
<1>6. jobs[i].reservedAt < Now(p) - RetryAfter
  BY <1>1, <1>3, ZenonT(30) DEF Poppable
<1>5. /\ Skew[t.reservedBy] \in 0..MaxSkew /\ Skew[p] \in 0..MaxSkew /\ t.at \in Nat /\ clock \in Nat
      /\ MaxSkew \in Nat /\ RetryAfter \in Nat
  BY TokenFields, ConstantsAssumption DEF TypeOK, ConstantsAssumption
<1>7. Now(p) = clock + Skew[p]
  BY ZenonT(30) DEF Now
<1>8. jobs[i].reservedAt = t.at + Skew[t.reservedBy]
  BY <1>2
<1> DEFINE since == jobs[i].reservedAt
           now == Now(p)
<1>9. since < now - RetryAfter
  BY <1>6
<1>4. since = t.at + Skew[t.reservedBy] /\ now = clock + Skew[p]
  BY <1>7, <1>8, ZenonT(30)
<1> HIDE DEF since, now
<1> QED
  BY <1>4, <1>5, <1>9 DEF Expired

(* The token of a pop is new. *)
LEMMA PopIsFresh ==
    ASSUME TypeOK, TokensIssued, NEW p \in Procs, NEW q \in Queues, NEW i \in RowIds, ReserveNext(p, q, i)
    PROVE  TokenOf(p, i) \notin tokens
<1>1. i \in DOMAIN jobs /\ jobs[i].attempts \in Nat
  BY ReserveEffect, RowFields, ZenonT(30)
<1>2. TokenOf(p, i).id = i /\ TokenOf(p, i).attempts = jobs[i].attempts + 1
  BY ZenonT(30) DEF TokenOf
<1>3. \A t \in tokens : t.id = i => t.attempts \in Nat /\ t.attempts <= jobs[i].attempts
  BY <1>1, TokenFields DEF TokensIssued
<1> QED
  BY <1>1, <1>2, <1>3, SMTT(30)

(* A pump here has not tried to settle its lease. *)
Unsettled == {"popped", "running", "succeeded", "failing"}

(* Leases are not shared, an unsettled pump's is unspent, and two          *)
(* unsettled pumps of one row mean that a lease has run out.               *)
OverlapInv ==
    /\ \A w \in Pumps : pc[w] \in Unsettled => lease[w] \cap spent = {}
    /\ \A v, w \in Pumps : v # w => lease[v] \cap lease[w] = {}
    /\ \A v, w \in Pumps : \A t \in lease[v], u \in lease[w] :
          pc[v] \in Unsettled /\ pc[w] \in Unsettled /\ v # w /\ t.id = u.id => Expired(t) \/ Expired(u)

(* Only a pop makes a second unsettled pump of a row. *)
LEMMA OverlapStep ==
    TypeOK /\ TokensIssued /\ LeaseState /\ ClearedGone /\ WTypeOK /\ OverlapInv /\ [WNext]_wvars => OverlapInv'
<1> SUFFICES ASSUME TypeOK, TokensIssued, LeaseState, ClearedGone, WTypeOK, OverlapInv, [WNext]_wvars
             PROVE  OverlapInv'
  OBVIOUS
<1>a. /\ pc \in [Pumps -> PumpStates] /\ lease \in [Pumps -> SUBSET tokens]
      /\ \A w \in Pumps : lease[w] \subseteq tokens
      /\ \A w \in Pumps : Proc(w) \in Procs
  BY Zenon DEF WTypeOK, Proc
<1>b. clock \in Nat /\ clock' \in {clock, clock + 1}
  <2>1. clock \in Nat /\ [Next]_vars
    BY DriverStep DEF TypeOK
  <2> QED
    BY <2>1, ZenonT(30) DEF Next, vars, PushDelayedCtx, PushIfNotExistsCtx, ReserveNext, ReserveRow, AckCtx,
         ReleaseCtx, FailReservedCtx, ClearJobs, ClearDedupe, ClearAborted, Tick
<1>c. \A t \in tokens : Expired(t) => Expired(t)'
  <2> SUFFICES ASSUME NEW t \in tokens, Expired(t) PROVE Expired(t)'
    OBVIOUS
  <2>1. t.at \in Nat /\ RetryAfter \in Nat /\ MaxSkew \in Nat
    BY TokenFields, ConstantsAssumption, ZenonT(30) DEF ConstantsAssumption
  <2> QED
    BY <1>b, <2>1 DEF Expired
<1>1. ASSUME NEW S, spent' \subseteq spent \cup S,
             \A v \in Pumps : lease'[v] \subseteq lease[v],
             \A v \in Pumps : pc'[v] \in Unsettled => pc[v] \in Unsettled /\ lease[v] \cap S = {}
      PROVE  OverlapInv'
  <2> HIDE DEF Expired, Unsettled
  <2>1. \A w \in Pumps : pc'[w] \in Unsettled => lease'[w] \cap spent' = {}
    BY <1>1, ZenonT(30) DEF OverlapInv
  <2>2. \A v, w \in Pumps : v # w => lease'[v] \cap lease'[w] = {}
    BY <1>1, ZenonT(30) DEF OverlapInv
  <2>3. ASSUME NEW v \in Pumps, NEW w \in Pumps, NEW t \in lease'[v], NEW u \in lease'[w],
               pc'[v] \in Unsettled, pc'[w] \in Unsettled, v # w, t.id = u.id
        PROVE  Expired(t)' \/ Expired(u)'
    <3>1. t \in lease[v] /\ u \in lease[w] /\ t \in tokens /\ u \in tokens
      BY <1>1, <1>a, ZenonT(30)
    <3>2. Expired(t) \/ Expired(u)
      BY <1>1, <2>3, <3>1 DEF OverlapInv
    <3> QED
      BY <1>c, <3>1, <3>2, ZenonT(30)
  <2> QED
    BY <2>1, <2>2, <2>3, ZenonT(30) DEF OverlapInv, Unsettled
<1>6. ASSUME spent' = spent,
             \A v \in Pumps : lease'[v] \subseteq lease[v],
             \A v \in Pumps : pc'[v] \in Unsettled => pc[v] \in Unsettled
      PROVE  OverlapInv'
  <2>1. spent' \subseteq spent \cup {} /\ \A v \in Pumps : lease[v] \cap {} = {}
    BY <1>6, ZenonT(30)
  <2> QED
    BY <1>1, <1>6, <2>1, ZenonT(30)
<1>2. ASSUME NEW w \in Pumps, NEW q \in Queues, NEW i \in RowIds, PopReserved(w, q, i) PROVE OverlapInv'
  <2> DEFINE n == TokenOf(Proc(w), i)
  <2>1. ReserveNext(Proc(w), q, i) /\ n \notin tokens /\ n.id = i /\ spent \subseteq tokens /\ spent' = spent
    BY <1>2, <1>a, PopIsFresh, ReserveEffect, ZenonT(30) DEF PopReserved, TypeOK, TokenOf
  <2>2. /\ lease'[w] = {n} /\ \A v \in Pumps : v # w => lease'[v] = lease[v] /\ pc'[v] = pc[v]
    BY <1>2, <1>a, ZenonT(30) DEF PopReserved, Goto
  <2> HIDE DEF n
  <2>3. \A v \in Pumps \ {w} : pc[v] \in Unsettled => \A t \in lease[v] : t.id = i => Expired(t)'
    <3> SUFFICES ASSUME NEW v \in Pumps \ {w}, pc[v] \in Unsettled, NEW t \in lease[v], t.id = i
                 PROVE  Expired(t)'
      OBVIOUS
    <3>1. t \in tokens /\ t \notin spent
      BY <1>a, ZenonT(30) DEF OverlapInv
    <3> QED
      BY <1>a, <1>c, <2>1, <3>1, PopNeedsExpiry, ZenonT(30)
  <2>4. \A v \in Pumps : pc'[v] \in Unsettled => lease'[v] \cap spent' = {}
    BY <2>1, <2>2, ZenonT(30) DEF OverlapInv
  <2>5. \A u, v \in Pumps : u # v => lease'[u] \cap lease'[v] = {}
    BY <1>a, <2>1, <2>2, SMTT(30) DEF OverlapInv
  <2>6. ASSUME NEW v \in Pumps, NEW x \in Pumps, NEW t \in lease'[v], NEW u \in lease'[x],
               pc'[v] \in Unsettled, pc'[x] \in Unsettled, v # x, t.id = u.id
        PROVE  Expired(t)' \/ Expired(u)'
    <3>1. CASE v = w
      BY <2>1, <2>2, <2>3, <2>6, <3>1, ZenonT(30)
    <3>2. CASE x = w
      BY <2>1, <2>2, <2>3, <2>6, <3>2, ZenonT(30)
    <3>3. CASE v # w /\ x # w
      <4>1. t \in lease[v] /\ u \in lease[x] /\ t \in tokens /\ u \in tokens
        BY <1>a, <2>2, <3>3
      <4>2. Expired(t) \/ Expired(u)
        BY <2>2, <2>6, <3>3, <4>1, ZenonT(30) DEF OverlapInv
      <4> QED
        BY <1>c, <4>1, <4>2, ZenonT(30)
    <3> QED
      BY <3>1, <3>2, <3>3, ZenonT(30)
  <2> QED
    BY <2>4, <2>5, <2>6, ZenonT(30) DEF OverlapInv
<1>3. ASSUME NEW w \in Pumps, PumpStep(w) PROVE OverlapInv'
  <2>1. CASE BatchIDPanics(w) \/ SkipCancelled(w) \/ HandlerSucceeds(w) \/ HandlerFails(w)
             \/ GiveUp(w) \/ PumpPanics(w)
    <3>1. spent' = spent /\ \A v \in Pumps : lease'[v] \subseteq lease[v]
      BY <1>a, <2>1, ZenonT(30) DEF BatchIDPanics, SkipCancelled, HandlerSucceeds, HandlerFails, GiveUp,
                        PumpPanics, Done, vars
    <3>2. \A v \in Pumps : pc'[v] \in Unsettled => pc[v] \in Unsettled
      BY <1>a, <2>1, ZenonT(30) DEF BatchIDPanics, SkipCancelled, HandlerSucceeds, HandlerFails, GiveUp,
                        PumpPanics, Done, Goto, Unsettled
    <3> QED
      BY <1>6, <3>1, <3>2, ZenonT(30)
  <2>2. ASSUME NEW t \in lease[w], StartHandler(w, t) \/ RecordSuccess(w, t) \/ RecordFailure(w, t)
        PROVE  OverlapInv'
    <3>1. spent' = spent /\ \A v \in Pumps : lease'[v] \subseteq lease[v]
      BY <1>a, <2>2, ZenonT(30) DEF StartHandler, RecordSuccess, RecordFailure, Done, vars
    <3>2. \A v \in Pumps : pc'[v] \in Unsettled => pc[v] \in Unsettled
      BY <1>a, <2>2 DEF StartHandler, RecordSuccess, RecordFailure, Done, Goto, Unsettled
    <3> QED
      BY <1>6, <3>1, <3>2, ZenonT(30)
  <2>3. ASSUME NEW t \in lease[w], spent' \subseteq spent \cup {t}, NEW l \in PumpStates \ Unsettled, Goto(w, l),
               \A v \in Pumps : lease'[v] \subseteq lease[v]
        PROVE  OverlapInv'
    <3>1. \A v \in Pumps : pc'[v] \in Unsettled => v # w /\ pc[v] \in Unsettled
      BY <1>a, <2>3, ZenonT(30) DEF Goto
    <3>2. \A v \in Pumps : v # w => lease[v] \cap {t} = {}
      BY ZenonT(30) DEF OverlapInv
    <3> QED
      BY <1>1, <2>3, <3>1, <3>2, ZenonT(30)
  <2>4. ASSUME NEW t \in lease[w], Quarantine(w, t) \/ AckReservation(w, t) \/ FailJob(w, t) PROVE OverlapInv'
    <3>1. spent' \subseteq spent \cup {t}
      BY <2>4, Zenon DEF Quarantine, AckReservation, FailJob, AckCtx, FailReservedCtx, LeaseLost, vars
    <3>2. \A v \in Pumps : lease'[v] \subseteq lease[v]
      BY <1>a, <2>4, ZenonT(30) DEF Quarantine, AckReservation, FailJob, Done
    <3> QED
      BY <2>3, <2>4, <3>1, <3>2, ZenonT(30) DEF Quarantine, AckReservation, FailJob, Done, PumpStates, Unsettled
  <2>5. ASSUME NEW t \in lease[w], NEW d \in Delays, Retry(w, t, d) PROVE OverlapInv'
    <3>1. spent' \subseteq spent \cup {t}
      BY <2>5 DEF Retry, ReleaseCtx, LeaseLost, vars
    <3>2. \A v \in Pumps : lease'[v] \subseteq lease[v]
      BY <1>a, <2>5, Zenon DEF Retry, Done
    <3> QED
      BY <2>3, <2>5, <3>1, <3>2, ZenonT(30) DEF Retry, Done, PumpStates, Unsettled
  <2> QED
    BY <1>3, <2>1, <2>2, <2>4, <2>5, ZenonT(30) DEF PumpStep
<1>4. ASSUME NEW p \in Procs, Stop(p) \/ Restart(p) \/ Crash(p) PROVE OverlapInv'
  <2>1. spent' = spent /\ \A v \in Pumps : lease'[v] \subseteq lease[v]
    BY <1>4, <1>a, ZenonT(30) DEF Stop, Restart, Crash, vars
  <2>2. \A v \in Pumps : pc'[v] \in Unsettled => pc[v] \in Unsettled
    BY <1>4, <1>a, ZenonT(30) DEF Stop, Restart, Crash, Unsettled
  <2> QED
    BY <1>6, <2>1, <2>2, ZenonT(30)
<1>5. CASE (Client \/ Time \/ UNCHANGED vars) /\ UNCHANGED pumpVars
  <2>1. spent' = spent /\ pc' = pc /\ lease' = lease
    BY <1>5 DEF Client, Time, Tick, vars, pumpVars, PushDelayedCtx, PushIfNotExistsCtx, ClearJobs,
                ClearDedupe, ClearAborted
  <2> QED
    BY <1>6, <2>1, ZenonT(30)
<1> QED
  BY <1>2, <1>3, <1>4, <1>5, ZenonT(30) DEF WNext, Pop, wvars

(* Two pumps run handlers of one job together only after a lease of theirs *)
(* ran out, whatever is released, stopped, crashed or cleared meanwhile.   *)
THEOREM OverlapOnlyAfterExpiry == WSpec => []OverlapNeedsExpiry
<1>1. WInit => TokensIssued /\ LeaseState /\ ClearedGone /\ OverlapInv
  BY ZenonT(30) DEF WInit, Init, TokensIssued, LeaseState, ClearedGone, OverlapInv
<1>2. OverlapInv => OverlapNeedsExpiry
  BY ZenonT(30) DEF OverlapInv, OverlapNeedsExpiry, Unsettled, Expired
<1> QED
  BY <1>1, <1>2, WTypeCorrect, DriverStep, TokensIssuedStep, LeaseStep, ClearedGoneStep, OverlapStep, PTL
     DEF WSpec, wvars

-----------------------------------------------------------------------------
(* The retry budget *)

(* Deliveries are counted from one; a delivery at or past the budget is    *)
(* never handed back, so its settlement ended the row, and a row ends once. *)
BudgetInv ==
    /\ \A t \in tokens : t.attempts >= 1
    /\ \A t \in spent : t.attempts < MaxRetries \/ t.id \notin DOMAIN jobs
    /\ \A t, u \in spent :
          t.id = u.id /\ t.attempts >= MaxRetries /\ u.attempts >= MaxRetries => t = u

(* The pool calls ReleaseCtx only while retries remain (handleJobFailure). *)
LEMMA ReleasesWithinBudget ==
    ASSUME WTypeOK, [WNext]_wvars
    PROVE  \/ \E p \in Procs, q \in Queues, d \in Delays : PushDelayedCtx(p, q, d)
           \/ \E p \in Procs, q \in Queues, k \in Keys : PushIfNotExistsCtx(p, q, k)
           \/ \E p \in Procs, q \in Queues, i \in RowIds : ReserveNext(p, q, i)
           \/ \E t \in tokens : AckCtx(t) \/ FailReservedCtx(t)
           \/ \E t \in tokens, d \in Delays : t.attempts < MaxRetries /\ ReleaseCtx(t, d)
           \/ \E p \in Procs, q \in Queues : ClearJobs(p, q)
           \/ UNCHANGED <<jobs, nextId, tokens, spent>>
<1> DEFINE Effect ==
        \/ \E p \in Procs, q \in Queues, d \in Delays : PushDelayedCtx(p, q, d)
        \/ \E p \in Procs, q \in Queues, k \in Keys : PushIfNotExistsCtx(p, q, k)
        \/ \E p \in Procs, q \in Queues, i \in RowIds : ReserveNext(p, q, i)
        \/ \E t \in tokens : AckCtx(t) \/ FailReservedCtx(t)
        \/ \E t \in tokens, d \in Delays : t.attempts < MaxRetries /\ ReleaseCtx(t, d)
        \/ \E p \in Procs, q \in Queues : ClearJobs(p, q)
        \/ UNCHANGED <<jobs, nextId, tokens, spent>>
<1>0. \A w \in Pumps : lease[w] \subseteq tokens /\ Proc(w) \in Procs
  BY DEF WTypeOK, Proc
<1>a. UNCHANGED vars => Effect
  BY Zenon DEF vars
<1>1. ASSUME NEW w \in Pumps, Pop(w) PROVE Effect
  BY <1>0, <1>1, Zenon DEF Pop, PopReserved
<1>2. ASSUME NEW w \in Pumps, PumpStep(w) PROVE Effect
  <2>1. CASE BatchIDPanics(w) \/ SkipCancelled(w) \/ HandlerSucceeds(w) \/ HandlerFails(w)
             \/ GiveUp(w) \/ PumpPanics(w)
    BY <1>a, <2>1 DEF BatchIDPanics, SkipCancelled, HandlerSucceeds, HandlerFails, GiveUp, PumpPanics
  <2>2. ASSUME NEW t \in lease[w], Quarantine(w, t) \/ FailJob(w, t) \/ AckReservation(w, t)
        PROVE  (\E u \in tokens : AckCtx(u) \/ FailReservedCtx(u)) \/ UNCHANGED vars
    BY <1>0, <2>2, ZenonT(30) DEF Quarantine, FailJob, AckReservation, LeaseLost
  <2>3. ASSUME NEW t \in lease[w], NEW d \in Delays, Retry(w, t, d)
        PROVE  t.attempts < MaxRetries /\ (ReleaseCtx(t, d) \/ UNCHANGED vars)
    BY <2>3 DEF Retry, LeaseLost
  <2>4. ASSUME NEW t \in lease[w], StartHandler(w, t) \/ RecordSuccess(w, t) \/ RecordFailure(w, t)
        PROVE  UNCHANGED vars
    BY <2>4 DEF StartHandler, RecordSuccess, RecordFailure
  <2> QED
    BY <1>0, <1>2, <1>a, <2>1, <2>2, <2>3, <2>4, ZenonT(30) DEF PumpStep
<1>3. ASSUME NEW p \in Procs, Stop(p) \/ Restart(p) \/ Crash(p) PROVE Effect
  BY <1>3, <1>a, Zenon DEF Stop, Restart, Crash
<1>4. CASE Client
  BY <1>4, Zenon DEF Client, ClearDedupe, ClearAborted
<1>5. CASE Time
  BY <1>5 DEF Time, Tick
<1>6. CASE UNCHANGED wvars
  BY <1>6, <1>a, ZenonT(30) DEF wvars
<1> QED
  BY <1>1, <1>2, <1>3, <1>4, <1>5, <1>6, ZenonT(30) DEF WNext

(* Every step of the pool keeps the deliveries settled within the budget. *)
LEMMA BudgetStep ==
    TypeOK /\ WTypeOK /\ TokensIssued /\ BudgetInv /\ [WNext]_wvars => BudgetInv'
<1> SUFFICES ASSUME TypeOK, WTypeOK, TokensIssued, BudgetInv, [WNext]_wvars PROVE BudgetInv'
  OBVIOUS
<1>0. spent \subseteq tokens /\ nextId \in Nat
  BY SMTT(30) DEF TypeOK
<1>a. \A t \in tokens : t.attempts \in Nat /\ t.id \in Nat /\ t.id < nextId
  BY TokenFields DEF TokensIssued
<1>1. ASSUME NEW p \in Procs, NEW q, NEW k, NEW d, Insert(p, q, k, d), UNCHANGED <<tokens, spent>>
      PROVE  BudgetInv'
  <2>1. DOMAIN jobs' = DOMAIN jobs \cup {nextId}
    BY <1>1, InsertEffect, ZenonT(30)
  <2> QED
    BY <1>0, <1>1, <1>a, <2>1, SMTT(30) DEF BudgetInv
<1>2. ASSUME NEW p \in Procs, NEW q \in Queues, NEW i \in RowIds, ReserveNext(p, q, i) PROVE BudgetInv'
  <2>1. /\ DOMAIN jobs' = DOMAIN jobs /\ spent' = spent /\ tokens' = tokens \cup {TokenOf(p, i)}
        /\ i \in DOMAIN jobs
    BY <1>2, ReserveEffect, ZenonT(30)
  <2>2. TokenOf(p, i).attempts >= 1
    BY <2>1, RowFields, SMTT(30) DEF TokenOf
  <2> QED
    BY <2>1, <2>2, ZenonT(30) DEF BudgetInv
<1>3. ASSUME NEW t \in tokens, AckCtx(t) \/ FailReservedCtx(t) PROVE BudgetInv'
  <2>1. t.id \in DOMAIN jobs /\ spent' = spent \cup {t} /\ tokens' = tokens /\ DeleteRows({t.id})
    BY <1>3 DEF AckCtx, FailReservedCtx, Fenced
  <2>2. DOMAIN jobs' = DOMAIN jobs \ {t.id}
    BY <2>1, DeleteEffect, ZenonT(30)
  <2>3. \A u \in spent : u.id = t.id => u.attempts < MaxRetries
    BY <2>1, ZenonT(30) DEF BudgetInv
  <2> QED
    BY <1>0, <1>a, <2>1, <2>2, <2>3, SMTT(30) DEF BudgetInv
<1>4. ASSUME NEW t \in tokens, NEW d \in Delays, t.attempts < MaxRetries, ReleaseCtx(t, d) PROVE BudgetInv'
  <2>1. DOMAIN jobs' = DOMAIN jobs /\ spent' = spent \cup {t} /\ tokens' = tokens
    BY <1>4, ReleaseEffect, ZenonT(30)
  <2> QED
    BY <1>0, <1>4, <1>a, <2>1, SMTT(30) DEF BudgetInv
<1>5. ASSUME NEW p \in Procs, NEW q \in Queues, ClearJobs(p, q) PROVE BudgetInv'
  <2>1. DeleteRows(RowsOf(q)) /\ UNCHANGED <<tokens, spent>>
    BY <1>5, Zenon DEF ClearJobs
  <2>2. DOMAIN jobs' \subseteq DOMAIN jobs
    BY <2>1, DeleteEffect, ZenonT(30)
  <2> QED
    BY <2>1, <2>2 DEF BudgetInv
<1>6. CASE UNCHANGED <<jobs, nextId, tokens, spent>>
  BY <1>6 DEF BudgetInv
<1> QED
  BY <1>1, <1>2, <1>3, <1>4, <1>5, <1>6, ReleasesWithinBudget, ZenonT(30) DEF PushDelayedCtx, PushIfNotExistsCtx

(* The settled deliveries of a row have different attempts, all of them    *)
(* from 1 to the budget but one at most: they fit in 1..MaxRetries.        *)
LEMMA BudgetCounts == TypeOK /\ TokensIssued /\ BudgetInv => SettledWithinBudget
<1> SUFFICES ASSUME TypeOK, TokensIssued, BudgetInv, NEW i \in RowIds
             PROVE  Cardinality({t \in spent : t.id = i}) <= MaxRetries
  BY ZenonT(30) DEF SettledWithinBudget
<1> DEFINE S == {t \in spent : t.id = i}
           T == 1..MaxRetries
           f == [t \in S |-> IF t.attempts < MaxRetries THEN t.attempts ELSE MaxRetries]
<1>1. spent \subseteq tokens /\ \A t \in S : t.attempts \in Nat /\ t.attempts >= 1
  BY TokenFields DEF TypeOK, BudgetInv
<1>2. f \in [S -> T]
  BY <1>1, SMTT(30)
<1>3. \A t, u \in S : f[t] = f[u] => t = u
  BY <1>1 DEF TokensIssued, BudgetInv
<1>4. f \in Injection(S, T)
  BY <1>2, <1>3, ZenonT(30) DEF Injection, IsInjective
<1>5. IsFiniteSet(T) /\ Cardinality(T) = MaxRetries
  BY FS_Interval, SMTT(30)
<1> HIDE DEF S, T, f
<1>6. Cardinality(S) <= Cardinality(T)
  BY <1>4, <1>5, FS_Injection
<1> QED
  BY <1>5, <1>6 DEF S

(* Whatever crashes, is reclaimed or restarted, at most MaxRetries         *)
(* deliveries of a job are settled by workers.                             *)
THEOREM BudgetKept == WSpec => []SettledWithinBudget
<1>1. WInit => TokensIssued /\ BudgetInv
  BY DEF WInit, Init, TokensIssued, BudgetInv
<1> QED
  BY <1>1, WTypeCorrect, DriverStep, TokensIssuedStep, BudgetStep, BudgetCounts, PTL DEF WSpec, wvars
=============================================================================
