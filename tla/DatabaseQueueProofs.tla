------------------------- MODULE DatabaseQueueProofs -------------------------
(***************************************************************************)
(* The SQL driver's guarantees for any number of processes, queues, keys,  *)
(* rows and attempts, any lease window and any bounded clock skew.         *)
(***************************************************************************)
EXTENDS DatabaseQueue, TLAPS

USE ConstantsAssumption DEF ConstantsAssumption, RowIds

(* The rows the three statements write: INSERT, the UPDATE of a reservation *)
(* and that of a release.                                                   *)
LEMMA RowsWritten ==
    ASSUME NEW r \in Row, NEW p \in Procs, NEW q \in Queues, NEW k \in Keys \cup {NoKey}, NEW at \in Nat
    PROVE  /\ [queue |-> q, key |-> k, attempts |-> 0, scheduledAt |-> at,
               reservedAt |-> 0, reservedBy |-> NoProc] \in Row
           /\ [r EXCEPT !.reservedAt = at, !.reservedBy = p, !.attempts = @ + 1] \in Row
           /\ [r EXCEPT !.reservedAt = 0, !.reservedBy = NoProc, !.scheduledAt = at] \in Row
<1>1. r.attempts + 1 \in Nat
  BY DEF Row
<1>2. [queue |-> q, key |-> k, attempts |-> 0, scheduledAt |-> at,
       reservedAt |-> 0, reservedBy |-> NoProc] \in Row
  BY DEF Row
<1>3. [r EXCEPT !.reservedAt = at, !.reservedBy = p, !.attempts = @ + 1] \in Row
  BY <1>1, Zenon DEF Row
<1>4. [r EXCEPT !.reservedAt = 0, !.reservedBy = NoProc, !.scheduledAt = at] \in Row
  BY Zenon DEF Row
<1> QED
  BY <1>2, <1>3, <1>4

(* The jobs table, and the rest of the state. *)
TableOK ==
    /\ DOMAIN jobs \subseteq RowIds /\ jobs \in [DOMAIN jobs -> Row]
    /\ nextId \in 1..(MaxRows + 1) /\ \A i \in DOMAIN jobs : i < nextId

RestOK ==
    /\ clock \in Nat /\ dedupe \subseteq [key: Keys, queue: Queues]
    /\ clearing \in [Procs -> Queues \cup {NoQueue}]
    /\ failed \in [RowIds -> Nat] /\ acked \in [RowIds -> Nat] /\ cleared \subseteq RowIds
    /\ tokens \subseteq Token /\ spent \subseteq tokens

LEMMA TypeSplit == (TypeOK <=> TableOK /\ RestOK) /\ (TypeOK' <=> TableOK' /\ RestOK')
  BY Zenon DEF TypeOK, TableOK, RestOK

(* INSERT keeps the table well formed. *)
LEMMA InsertTable ==
    ASSUME TableOK, RestOK, NEW p \in Procs, NEW q \in Queues, NEW k \in Keys \cup {NoKey}, NEW d \in Nat,
           Insert(p, q, k, d)
    PROVE  TableOK'
<1> DEFINE r == [queue |-> q, key |-> k, attempts |-> 0, scheduledAt |-> Now(p) + d,
                 reservedAt |-> 0, reservedBy |-> NoProc]
<1>1. Now(p) + d \in Nat
  BY DEF Now, RestOK
<1>2. r \in Row
  BY <1>1 DEF Row
<1>3. /\ nextId \in RowIds /\ nextId' = nextId + 1
      /\ jobs' = [i \in DOMAIN jobs \cup {nextId} |-> IF i = nextId THEN r ELSE jobs[i]]
  BY Zenon DEF Insert
<1> HIDE DEF r
<1>4. DOMAIN jobs' = DOMAIN jobs \cup {nextId} /\ jobs' \in [DOMAIN jobs' -> Row]
  BY <1>2, <1>3 DEF TableOK
<1>5. nextId' \in 1..(MaxRows + 1) /\ \A i \in DOMAIN jobs' : i \in RowIds /\ i < nextId'
  BY <1>3, <1>4 DEF TableOK
<1> QED
  BY <1>4, <1>5 DEF TableOK

(* An UPDATE of one row, and a DELETE, keep it well formed. *)
LEMMA UpdateTable ==
    ASSUME TableOK, NEW i \in DOMAIN jobs, NEW r \in Row, jobs' = [jobs EXCEPT ![i] = r], nextId' = nextId
    PROVE  TableOK'
  BY DEF TableOK

LEMMA DeleteTable ==
    ASSUME TableOK, NEW S, DeleteRows(S), nextId' = nextId
    PROVE  TableOK'
<1>1. DOMAIN jobs' = DOMAIN jobs \ S /\ \A i \in DOMAIN jobs' : jobs'[i] = jobs[i]
  BY DEF DeleteRows
<1>2. jobs' \in [DOMAIN jobs' -> Row]
  BY DEF DeleteRows, TableOK
<1> QED
  BY <1>1, <1>2 DEF TableOK

LEMMA CountUp ==
    ASSUME NEW S, NEW f \in [S -> Nat], NEW i
    PROVE  [f EXCEPT ![i] = @ + 1] \in [S -> Nat]
<1>1. i \in S => f[i] + 1 \in Nat
  OBVIOUS
<1> QED
  BY <1>1, Zenon

(* Each operation of the driver keeps the tables well formed. *)
LEMMA TypeStep == TypeOK /\ [Next]_vars => TypeOK'
<1> SUFFICES ASSUME TableOK, RestOK, [Next]_vars PROVE TableOK' /\ RestOK'
  BY TypeSplit
<1>1. ASSUME NEW p \in Procs, NEW q \in Queues, NEW d \in Delays, PushDelayedCtx(p, q, d)
      PROVE  TableOK' /\ RestOK'
  <2>1. Insert(p, q, NoKey, d) /\ d \in Nat /\ NoKey \in Keys \cup {NoKey}
    BY <1>1 DEF PushDelayedCtx
  <2>2. RestOK'
    BY <1>1, ZenonT(30) DEF PushDelayedCtx, RestOK
  <2> QED
    BY <2>1, <2>2, InsertTable, Zenon
<1>2. ASSUME NEW p \in Procs, NEW q \in Queues, NEW k \in Keys, PushIfNotExistsCtx(p, q, k)
      PROVE  TableOK' /\ RestOK'
  <2>1. Insert(p, q, k, 0) /\ 0 \in Nat /\ k \in Keys \cup {NoKey}
    BY <1>2 DEF PushIfNotExistsCtx
  <2>2. dedupe' \subseteq [key: Keys, queue: Queues]
    BY <1>2 DEF PushIfNotExistsCtx, RestOK
  <2>3. RestOK'
    BY <1>2, <2>2, ZenonT(30) DEF PushIfNotExistsCtx, RestOK
  <2> QED
    BY <2>1, <2>3, InsertTable, Zenon
<1>3. ASSUME NEW p \in Procs, NEW q \in Queues, NEW i \in RowIds, ReserveNext(p, q, i)
      PROVE  TableOK' /\ RestOK'
  <2> DEFINE r == [jobs[i] EXCEPT !.reservedAt = Now(p), !.reservedBy = p, !.attempts = @ + 1]
  <2>1. i \in DOMAIN jobs /\ jobs[i] \in Row /\ ReserveRow(p, i)
    BY <1>3 DEF ReserveNext, Selected, Candidates, TableOK
  <2>2. Now(p) \in Nat
    BY DEF Now, RestOK
  <2>3. r \in Row
    BY <2>1, <2>2, RowsWritten, Zenon
  <2>4. jobs' = [jobs EXCEPT ![i] = r] /\ nextId' = nextId
    BY <2>1, Zenon DEF ReserveRow
  <2> HIDE DEF r
  <2>5. TokenOf(p, i) \in Token
    <3>1. jobs[i].attempts + 1 \in Nat
      BY <2>1 DEF Row
    <3> QED
      BY <3>1, Zenon DEF TokenOf, Token, RestOK
  <2>6. RestOK'
    BY <2>1, <2>5, ZenonT(30) DEF ReserveRow, RestOK
  <2> QED
    BY <2>1, <2>3, <2>4, <2>6, UpdateTable, Zenon
<1>4. ASSUME NEW t \in tokens, AckCtx(t)
      PROVE  TableOK' /\ RestOK'
  <2>1. acked' \in [RowIds -> Nat]
    BY <1>4, CountUp, Zenon DEF AckCtx, RestOK
  <2>2. spent' \subseteq tokens'
    BY <1>4, Zenon DEF AckCtx, RestOK
  <2>3. RestOK'
    BY <1>4, <2>1, <2>2, Zenon DEF AckCtx, RestOK
  <2> QED
    BY <1>4, <2>3, DeleteTable, Zenon DEF AckCtx
<1>5. ASSUME NEW t \in tokens, NEW d \in Delays, ReleaseCtx(t, d)
      PROVE  TableOK' /\ RestOK'
  <2> DEFINE r == [jobs[t.id] EXCEPT !.reservedAt = 0, !.reservedBy = NoProc,
                                     !.scheduledAt = Now(t.reservedBy) + d]
  <2>1. t.id \in DOMAIN jobs /\ jobs[t.id] \in Row
    BY <1>5 DEF ReleaseCtx, Fenced, TableOK
  <2>2. t.reservedBy \in Procs
    BY DEF RestOK, Token
  <2>3. Now(t.reservedBy) + d \in Nat
    BY <2>2 DEF Now, RestOK
  <2>4. r \in Row
    BY <2>1, <2>3, Zenon DEF Row
  <2>5. jobs' = [jobs EXCEPT ![t.id] = r] /\ nextId' = nextId
    BY <1>5, <2>1, Zenon DEF ReleaseCtx
  <2> HIDE DEF r
  <2>6. RestOK'
    BY <1>5 DEF ReleaseCtx, RestOK
  <2> QED
    BY <2>1, <2>4, <2>5, <2>6, UpdateTable, Zenon
<1>6. ASSUME NEW t \in tokens, FailReservedCtx(t)
      PROVE  TableOK' /\ RestOK'
  <2>1. failed' \in [RowIds -> Nat]
    BY <1>6, CountUp, Zenon DEF FailReservedCtx, RestOK
  <2>2. spent' \subseteq tokens'
    BY <1>6, Zenon DEF FailReservedCtx, RestOK
  <2>3. RestOK'
    BY <1>6, <2>1, <2>2, Zenon DEF FailReservedCtx, RestOK
  <2> QED
    BY <1>6, <2>3, DeleteTable, Zenon DEF FailReservedCtx
<1>7. ASSUME NEW p \in Procs, NEW q \in Queues, ClearJobs(p, q)
      PROVE  TableOK' /\ RestOK'
  <2>1. RowsOf(q) \subseteq RowIds
    BY DEF RowsOf, TableOK
  <2>2. clearing' \in [Procs -> Queues \cup {NoQueue}] /\ cleared' \subseteq RowIds
    BY <1>7, <2>1, Zenon DEF ClearJobs, RestOK
  <2>3. RestOK'
    BY <1>7, <2>2, Zenon DEF ClearJobs, RestOK
  <2> QED
    BY <1>7, <2>3, DeleteTable, Zenon DEF ClearJobs
<1>8. ASSUME NEW p \in Procs, ClearDedupe(p) \/ ClearAborted(p)
      PROVE  TableOK' /\ RestOK'
  <2>1. dedupe' \subseteq dedupe /\ clearing' = [clearing EXCEPT ![p] = NoQueue]
    BY <1>8 DEF ClearDedupe, ClearAborted
  <2>2. UNCHANGED <<clock, jobs, nextId, failed, acked, cleared, tokens, spent>>
    BY <1>8 DEF ClearDedupe, ClearAborted
  <2>3. clearing' \in [Procs -> Queues \cup {NoQueue}]
    BY <2>1 DEF RestOK
  <2> QED
    BY <2>1, <2>2, <2>3, Zenon DEF TableOK, RestOK
<1>9. CASE Tick
  BY <1>9, SMTT(30) DEF Tick, TableOK, RestOK
<1>10. CASE UNCHANGED vars
  BY <1>10, ZenonT(30) DEF vars, TableOK, RestOK
<1> QED
  BY <1>1, <1>2, <1>3, <1>4, <1>5, <1>6, <1>7, <1>8, <1>9, <1>10, Zenon DEF Next

(* The empty tables are well formed. *)
LEMMA TypeInit == Init => TypeOK
  BY DEF Init, TypeOK

(* The tables keep their shape through every operation of the driver. *)
THEOREM TypeCorrect == Spec => []TypeOK
  BY TypeInit, TypeStep, PTL DEF Spec

-----------------------------------------------------------------------------
(* What each statement does to the rows of the jobs table. *)

(* The columns of a row present have their types. *)
LEMMA RowFields ==
    ASSUME TypeOK, NEW i \in DOMAIN jobs
    PROVE  /\ i \in RowIds /\ i \in Nat /\ i < nextId
           /\ jobs[i].attempts \in Nat /\ jobs[i].reservedAt \in Nat /\ jobs[i].scheduledAt \in Nat
           /\ jobs[i].queue \in Queues
           /\ jobs[i].key \in Keys \cup {NoKey}
           /\ jobs[i].reservedBy \in Procs \cup {NoProc}
  BY SMTT(30) DEF TypeOK, Row

(* The fields of a token issued have their types. *)
LEMMA TokenFields ==
    ASSUME TypeOK, NEW t \in tokens
    PROVE  /\ t.id \in RowIds /\ t.id \in Nat /\ t.attempts \in Nat /\ t.at \in Nat
           /\ t.reservedBy \in Procs /\ t.reservedBy # NoProc
  BY SMTT(30) DEF TypeOK, Token

(* INSERT INTO jobs adds one fresh, unreserved row and touches no other. *)
LEMMA InsertEffect ==
    ASSUME TypeOK, NEW p \in Procs, NEW q, NEW k, NEW d, Insert(p, q, k, d)
    PROVE  /\ nextId \in RowIds /\ nextId \notin DOMAIN jobs /\ nextId' = nextId + 1
           /\ DOMAIN jobs' = DOMAIN jobs \cup {nextId}
           /\ \A i \in DOMAIN jobs : jobs'[i] = jobs[i]
           /\ jobs'[nextId].attempts = 0 /\ jobs'[nextId].reservedBy = NoProc
           /\ jobs'[nextId].key = k /\ jobs'[nextId].queue = q
  BY DEF Insert, TypeOK

(* The reserving UPDATE changes the reservation columns of one row. *)
LEMMA ReserveEffect ==
    ASSUME TypeOK, NEW p \in Procs, NEW q \in Queues, NEW i \in RowIds, ReserveNext(p, q, i)
    PROVE  /\ i \in DOMAIN jobs /\ Poppable(p, jobs[i])
           /\ DOMAIN jobs' = DOMAIN jobs
           /\ \A j \in DOMAIN jobs : j # i => jobs'[j] = jobs[j]
           /\ jobs'[i].attempts = jobs[i].attempts + 1
           /\ jobs'[i].reservedBy = p /\ jobs'[i].reservedAt = Now(p)
           /\ jobs'[i].key = jobs[i].key /\ jobs'[i].queue = jobs[i].queue
           /\ tokens' = tokens \cup {TokenOf(p, i)}
           /\ UNCHANGED <<clock, nextId, dedupe, clearing, failed, acked, cleared, spent>>
<1>1. i \in DOMAIN jobs /\ Poppable(p, jobs[i])
  BY DEF ReserveNext, Selected, Candidates
<1>2. jobs[i] \in Row
  BY <1>1 DEF TypeOK
<1> QED
  BY <1>1, <1>2, Zenon DEF ReserveNext, ReserveRow, Row

(* ReleaseCtx hands its row back in place and keeps the attempts. *)
LEMMA ReleaseEffect ==
    ASSUME TypeOK, NEW t \in tokens, NEW d, ReleaseCtx(t, d)
    PROVE  /\ Fenced(t) /\ t.id \in DOMAIN jobs
           /\ DOMAIN jobs' = DOMAIN jobs
           /\ \A j \in DOMAIN jobs : j # t.id => jobs'[j] = jobs[j]
           /\ jobs'[t.id].attempts = jobs[t.id].attempts
           /\ jobs'[t.id].reservedBy = NoProc
           /\ jobs'[t.id].key = jobs[t.id].key /\ jobs'[t.id].queue = jobs[t.id].queue
           /\ spent' = spent \cup {t}
           /\ UNCHANGED <<clock, nextId, dedupe, clearing, failed, acked, cleared, tokens>>
<1>1. t.id \in DOMAIN jobs /\ jobs[t.id] \in Row
  BY DEF ReleaseCtx, Fenced, TypeOK
<1> QED
  BY <1>1, Zenon DEF ReleaseCtx, Row

(* A DELETE removes the rows it selects and changes no other. *)
LEMMA DeleteEffect ==
    ASSUME NEW S, DeleteRows(S)
    PROVE  DOMAIN jobs' = DOMAIN jobs \ S /\ \A i \in DOMAIN jobs' : jobs'[i] = jobs[i]
  BY DEF DeleteRows

-----------------------------------------------------------------------------
(* The fence *)

(* Tokens come from rows inserted earlier, none is ahead of its row's      *)
(* attempts, and no two of one row carry the same attempts.                *)
TokensIssued ==
    /\ \A t \in tokens : t.id < nextId /\ t.at <= clock
    /\ \A t \in tokens : t.id \in DOMAIN jobs => t.attempts <= jobs[t.id].attempts
    /\ \A t, u \in tokens : t.id = u.id /\ t.attempts = u.attempts => t = u

(* Every statement of the driver keeps the issued tokens apart. *)
LEMMA TokensIssuedStep == TypeOK /\ TokensIssued /\ [Next]_vars => TokensIssued'
<1> SUFFICES ASSUME TypeOK, TokensIssued, [Next]_vars PROVE TokensIssued'
  OBVIOUS
<1> nextId \in Nat /\ clock \in Nat
  BY DEF TypeOK
<1>1. ASSUME NEW p \in Procs, NEW q, NEW k, NEW d, Insert(p, q, k, d), UNCHANGED <<tokens, clock>>
      PROVE  TokensIssued'
  BY <1>1, InsertEffect, TokenFields DEF TokensIssued
<1>2. ASSUME NEW p \in Procs, NEW q \in Queues, NEW i \in RowIds, ReserveNext(p, q, i)
      PROVE  TokensIssued'
  <2> DEFINE n == TokenOf(p, i)
  <2>1. n.id = i /\ n.attempts = jobs[i].attempts + 1 /\ n.at = clock
    BY DEF TokenOf
  <2>2. \A t \in tokens : t.id = n.id => t.attempts < n.attempts
    BY <1>2, <2>1, ReserveEffect, RowFields, TokenFields DEF TokensIssued
  <2>3. tokens' = tokens \cup {n} /\ i \in DOMAIN jobs /\ nextId' = nextId /\ clock' = clock
    BY <1>2, ReserveEffect
  <2> HIDE DEF n
  <2>4. \A t \in tokens' : t.id < nextId' /\ t.at <= clock'
    BY <2>1, <2>3, RowFields DEF TokensIssued
  <2>5. \A t \in tokens' : t.id \in DOMAIN jobs' => t.attempts <= jobs'[t.id].attempts
    <3> SUFFICES ASSUME NEW t \in tokens', t.id \in DOMAIN jobs'
                 PROVE  t.attempts <= jobs'[t.id].attempts
      OBVIOUS
    <3>1. CASE t = n
      BY <1>2, <2>1, <3>1, ReserveEffect, RowFields
    <3>2. CASE t \in tokens
      BY <1>2, <2>3, <3>2, ReserveEffect, RowFields, TokenFields DEF TokensIssued
    <3> QED
      BY <2>3, <3>1, <3>2
  <2>6. \A t, u \in tokens' : t.id = u.id /\ t.attempts = u.attempts => t = u
    BY <2>1, <2>2, <2>3, RowFields, TokenFields DEF TokensIssued
  <2> QED
    BY <2>4, <2>5, <2>6 DEF TokensIssued
<1>3. ASSUME NEW S, DeleteRows(S), UNCHANGED <<tokens, clock, nextId>>
      PROVE  TokensIssued'
  BY <1>3, DeleteEffect, Zenon DEF TokensIssued
<1>4. ASSUME NEW t \in tokens, NEW d, ReleaseCtx(t, d)
      PROVE  TokensIssued'
  BY <1>4, ReleaseEffect DEF TokensIssued
<1>5. ASSUME UNCHANGED <<jobs, tokens, nextId>>, clock' \in {clock, clock + 1}
      PROVE  TokensIssued'
  BY <1>5, TokenFields DEF TokensIssued
<1> QED
  BY <1>1, <1>2, <1>3, <1>4, <1>5, Zenon
     DEF Next, vars, PushDelayedCtx, PushIfNotExistsCtx, AckCtx, FailReservedCtx,
         ClearJobs, ClearDedupe, ClearAborted, Tick

(* Whatever the number of processes and pumps, at most one of the tokens   *)
(* ever issued for a row passes the WHERE id AND attempts AND reserved_by  *)
(* of a settling statement.                                                *)
THEOREM FenceAdmitsOneHolder == Spec => []FenceAdmitsOne
<1>1. Init => TokensIssued
  BY DEF Init, TokensIssued
<1>2. TypeOK /\ TokensIssued => FenceAdmitsOne
  BY DEF TokensIssued, FenceAdmitsOne, Fenced
<1> QED
  BY <1>1, <1>2, TypeCorrect, TokensIssuedStep, PTL DEF Spec

-----------------------------------------------------------------------------
(* Settlement *)

(* SettledOnce, and nothing is settled before it was inserted. *)
Settlement ==
    /\ SettledOnce
    /\ \A i \in RowIds : i >= nextId => acked[i] + failed[i] = 0

(* A settlement needs its row present, and removes it. *)
LEMMA SettlementStep == TypeOK /\ Settlement /\ NoJobLost /\ [Next]_vars => Settlement' /\ NoJobLost'
<1> SUFFICES ASSUME TypeOK, Settlement, NoJobLost, [Next]_vars PROVE Settlement' /\ NoJobLost'
  OBVIOUS
<1> /\ nextId \in 1..(MaxRows + 1)
    /\ acked \in [RowIds -> Nat] /\ failed \in [RowIds -> Nat]
    /\ cleared \subseteq RowIds
  BY DEF TypeOK
<1> DEFINE ended(i) == acked[i] + failed[i]
           OK(i) == /\ ended(i) <= 1
                    /\ i \in DOMAIN jobs \/ i >= nextId => ended(i) = 0
                    /\ i < nextId => i \in DOMAIN jobs \/ ended(i) > 0 \/ i \in cleared
<1>0. /\ \A i \in RowIds : ended(i) \in Nat /\ OK(i)
      /\ (\A i \in RowIds : OK(i))' => Settlement' /\ NoJobLost'
  <2>1. nextId' \in 1..(MaxRows + 1)
    BY TypeStep, ZenonT(30) DEF TypeOK
  <2>2. \A i \in RowIds : ended(i) \in Nat
    OBVIOUS
  <2>3. \A i \in RowIds : i < nextId <=> i \in 1..(nextId - 1)
    OBVIOUS
  <2>4. \A i \in 1..(nextId' - 1) : i \in RowIds /\ i < nextId'
    <3>1. \A n \in 1..(MaxRows + 1) : \A i \in 1..(n - 1) : i \in 1..MaxRows /\ i < n
      OBVIOUS
    <3> QED
      BY <2>1, <3>1, Zenon
  <2>5. \A i \in RowIds : OK(i)
    BY <2>3 DEF Settlement, SettledOnce, NoJobLost
  <2>6. (\A i \in RowIds : OK(i))' => Settlement' /\ NoJobLost'
    BY <2>4 DEF Settlement, SettledOnce, NoJobLost
  <2> QED
    BY <2>2, <2>5, <2>6
<1>1. ASSUME NEW p \in Procs, NEW q, NEW k, NEW d, Insert(p, q, k, d), UNCHANGED <<acked, failed, cleared>>
      PROVE  Settlement' /\ NoJobLost'
  <2>1. \A i \in RowIds : ended(i)' = ended(i)
    BY <1>1
  <2> HIDE DEF ended
  <2>3. nextId' = nextId + 1 /\ DOMAIN jobs' = DOMAIN jobs \cup {nextId} /\ cleared' = cleared
    BY <1>1, InsertEffect, Zenon
  <2>4. \A i \in RowIds : i < nextId + 1 <=> i < nextId \/ i = nextId
    OBVIOUS
  <2>2. (\A i \in RowIds : OK(i))'
    BY <1>0, <2>1, <2>3, <2>4
  <2> QED
    BY <1>0, <2>2
<1>2. ASSUME UNCHANGED <<nextId, acked, failed, cleared>>, DOMAIN jobs' = DOMAIN jobs
      PROVE  Settlement' /\ NoJobLost'
  BY <1>0, <1>2
<1>3. ASSUME NEW t \in tokens, Fenced(t), DeleteRows({t.id}), UNCHANGED <<nextId, cleared>>,
             \/ acked' = [acked EXCEPT ![t.id] = @ + 1] /\ failed' = failed
             \/ failed' = [failed EXCEPT ![t.id] = @ + 1] /\ acked' = acked
      PROVE  Settlement' /\ NoJobLost'
  <2>1. /\ t.id \in RowIds /\ t.id \in DOMAIN jobs /\ t.id < nextId
        /\ DOMAIN jobs' = DOMAIN jobs \ {t.id}
    BY <1>3, TokenFields, RowFields, DeleteEffect, Zenon DEF Fenced
  <2>2. ended(t.id)' = 1
    <3>1. acked[t.id] \in Nat /\ failed[t.id] \in Nat /\ ended(t.id) = 0
      BY <1>0, <2>1
    <3>2. CASE acked' = [acked EXCEPT ![t.id] = @ + 1] /\ failed' = failed
      BY <2>1, <3>1, <3>2
    <3>3. CASE failed' = [failed EXCEPT ![t.id] = @ + 1] /\ acked' = acked
      BY <2>1, <3>1, <3>3
    <3> QED
      BY <1>3, <3>2, <3>3
  <2>3. \A i \in RowIds : i # t.id => ended(i)' = ended(i)
    BY <1>3, ZenonT(30)
  <2> HIDE DEF ended
  <2>4. ASSUME NEW i \in RowIds PROVE OK(i)'
    <3>1. CASE i = t.id
      BY <1>3, <2>1, <2>2, <3>1, SMTT(30)
    <3>2. CASE i # t.id
      BY <1>0, <1>3, <2>1, <2>3, <3>2, ZenonT(30)
    <3> QED
      BY <3>1, <3>2
  <2> QED
    BY <1>0, <2>4
<1>4. ASSUME NEW q \in Queues, DeleteRows(RowsOf(q)), cleared' = cleared \cup RowsOf(q),
             UNCHANGED <<nextId, acked, failed>>
      PROVE  Settlement' /\ NoJobLost'
  <2>1. DOMAIN jobs' = DOMAIN jobs \ RowsOf(q) /\ \A i \in RowIds : ended(i)' = ended(i)
    BY <1>4, DeleteEffect, Zenon
  <2> HIDE DEF ended
  <2>2. (\A i \in RowIds : OK(i))'
    BY <1>0, <1>4, <2>1
  <2> QED
    BY <1>0, <2>2
<1>5. ASSUME NEW p \in Procs, NEW q \in Queues, NEW i \in RowIds, ReserveNext(p, q, i)
      PROVE  Settlement' /\ NoJobLost'
  BY <1>2, <1>5, ReserveEffect, ZenonT(30)
<1>6. ASSUME NEW t \in tokens, NEW d, ReleaseCtx(t, d)
      PROVE  Settlement' /\ NoJobLost'
  BY <1>2, <1>6, ReleaseEffect
<1> QED
  BY <1>1, <1>2, <1>3, <1>4, <1>5, <1>6, Zenon
     DEF Next, vars, PushDelayedCtx, PushIfNotExistsCtx, AckCtx, FailReservedCtx,
         ClearJobs, ClearDedupe, ClearAborted, Tick

(* A job ends at most once, as acknowledged or in failed_jobs, and no job  *)
(* disappears without one of the two or a Clear: AckCtx, FailReservedCtx   *)
(* and the quarantine delete the row in the step that records its end.     *)
THEOREM JobsEndOnce == Spec => []JobsAccounted
<1>1. TypeOK /\ Init => Settlement /\ NoJobLost
  BY DEF Init, Settlement, SettledOnce, NoJobLost
<1>2. Settlement /\ NoJobLost => JobsAccounted
  BY DEF Settlement, JobsAccounted
<1> QED
  BY <1>1, <1>2, TypeCorrect, SettlementStep, PTL DEF Spec

-----------------------------------------------------------------------------
(* The lease *)

(* A token is spent, its queue was cleared, its lease has run out, or it   *)
(* still fences a row whose reserved_at is the holder's time of issue.     *)
LeaseState ==
    \A t \in tokens :
        \/ t \in spent
        \/ t.id \in cleared
        \/ clock - t.at > RetryAfter - MaxSkew
        \/ Fenced(t) /\ jobs[t.id].reservedAt = t.at + Skew[t.reservedBy]

(* Only a fenced settlement, Clear, or a pop past the cutoff ends a lease. *)
LEMMA LeaseStep == TypeOK /\ TokensIssued /\ LeaseState /\ [Next]_vars => LeaseState'
<1> SUFFICES ASSUME TypeOK, TokensIssued, LeaseState, [Next]_vars PROVE LeaseState'
  OBVIOUS
<1> clock \in Nat /\ cleared \subseteq RowIds
  BY DEF TypeOK
<1> DEFINE Live(t) == Fenced(t) /\ jobs[t.id].reservedAt = t.at + Skew[t.reservedBy]
<1>1. ASSUME NEW p \in Procs, NEW q, NEW k, NEW d, Insert(p, q, k, d),
             UNCHANGED <<tokens, clock, spent, cleared>>
      PROVE  LeaseState'
  BY <1>1, InsertEffect, SMTT(30) DEF LeaseState, Fenced
<1>2. ASSUME NEW p \in Procs, NEW q \in Queues, NEW i \in RowIds, ReserveNext(p, q, i)
      PROVE  LeaseState'
  <2> SUFFICES ASSUME NEW t \in tokens',
                      t \notin spent, t.id \notin cleared, ~(clock - t.at > RetryAfter - MaxSkew)
               PROVE  Live(t)'
    BY <1>2, ReserveEffect, ZenonT(30) DEF LeaseState
  <2>1. CASE t = TokenOf(p, i)
    BY <1>2, <2>1, ReserveEffect, SMTT(30) DEF TokenOf, Fenced, Now
  <2>2. CASE t \in tokens
    <3>1. Live(t)
      BY <2>2 DEF LeaseState
    <3>2. t.id # i
      <4> SUFFICES ASSUME t.id = i PROVE FALSE
        OBVIOUS
      <4>1. Reserved(jobs[i])
        BY <2>2, <3>1, TokenFields DEF Fenced, Reserved
      <4>2. jobs[i].reservedAt < Now(p) - RetryAfter
        BY <1>2, <4>1, ReserveEffect DEF Poppable
      <4>3. t.at + Skew[t.reservedBy] < clock + Skew[p] - RetryAfter
        BY <3>1, <4>2 DEF Now
      <4>4. Skew[t.reservedBy] \in 0..MaxSkew /\ Skew[p] \in 0..MaxSkew /\ t.at \in Nat
        BY <2>2, TokenFields
      <4> QED
        BY <4>3, <4>4
    <3> QED
      BY <1>2, <3>1, <3>2, ReserveEffect DEF Fenced
  <2> QED
    BY <1>2, <2>1, <2>2, ReserveEffect, SMTT(30)
<1>3. ASSUME NEW u \in tokens, Fenced(u), DeleteRows({u.id}), spent' = spent \cup {u},
             UNCHANGED <<tokens, clock, cleared>>
      PROVE  LeaseState'
  <2>1. \A t \in tokens : Fenced(t) /\ t.id = u.id => t = u
    BY <1>3 DEF TokensIssued, Fenced
  <2>2. DOMAIN jobs' = DOMAIN jobs \ {u.id} /\ \A i \in DOMAIN jobs' : jobs'[i] = jobs[i]
    BY <1>3, DeleteEffect, Zenon
  <2>3. ASSUME NEW t \in tokens, Live(t), t # u PROVE Live(t)'
    BY <1>3, <2>1, <2>2, <2>3, ZenonT(30) DEF Fenced
  <2> QED
    BY <1>3, <2>3 DEF LeaseState
<1>4. ASSUME NEW u \in tokens, NEW d, ReleaseCtx(u, d)
      PROVE  LeaseState'
  <2>1. \A t \in tokens : Fenced(t) /\ t.id = u.id => t = u
    BY <1>4, ReleaseEffect DEF TokensIssued, Fenced
  <2>2. \A t \in tokens : Live(t) /\ t # u => Live(t)'
    BY <1>4, <2>1, ReleaseEffect DEF Fenced
  <2> QED
    BY <1>4, <2>2, ReleaseEffect DEF LeaseState
<1>5. ASSUME NEW q \in Queues, DeleteRows(RowsOf(q)), cleared' = cleared \cup RowsOf(q),
             UNCHANGED <<tokens, clock, spent>>
      PROVE  LeaseState'
  <2>1. DOMAIN jobs' = DOMAIN jobs \ RowsOf(q) /\ \A i \in DOMAIN jobs' : jobs'[i] = jobs[i]
    BY <1>5, DeleteEffect, Zenon
  <2>2. ASSUME NEW t \in tokens, Live(t), t.id \notin cleared' PROVE Live(t)'
    BY <1>5, <2>1, <2>2 DEF Fenced
  <2> QED
    BY <1>5, <2>2 DEF LeaseState
<1>6. ASSUME UNCHANGED <<jobs, tokens, spent, cleared>>, clock' \in {clock, clock + 1}
      PROVE  LeaseState'
  BY <1>6, TokenFields DEF LeaseState, Fenced
<1> QED
  BY <1>1, <1>2, <1>3, <1>4, <1>5, <1>6, Zenon
     DEF Next, vars, PushDelayedCtx, PushIfNotExistsCtx, AckCtx, FailReservedCtx,
         ClearJobs, ClearDedupe, ClearAborted, Tick

(* A holder that settles within retryAfter less the clock skew of the      *)
(* fleet never gets ErrLeaseLost, unless it settled before or the queue    *)
(* was cleared.                                                            *)
THEOREM LeaseHolds == Spec => []LeaseProtects
<1>1. Init => TokensIssued /\ LeaseState
  BY DEF Init, TokensIssued, LeaseState
<1>2. TypeOK /\ LeaseState => LeaseProtects
  <2> SUFFICES ASSUME TypeOK, LeaseState, NEW t \in tokens, clock - t.at <= RetryAfter - MaxSkew
               PROVE  Fenced(t) \/ t \in spent \/ t.id \in cleared
    BY DEF LeaseProtects
  <2>1. clock \in Nat /\ t.at \in Nat
    BY TokenFields, Zenon DEF TypeOK
  <2> QED
    BY <2>1 DEF LeaseState
<1> QED
  BY <1>1, <1>2, TypeCorrect, TokensIssuedStep, LeaseStep, PTL DEF Spec

-----------------------------------------------------------------------------
(* Dedupe keys, one driver *)

(* All pushes and clears of the deployment go through one driver. *)
OneDriver == \A p, r \in Procs : p = r

(* Every keyed row holds its claim, no key twice, and a queue between the  *)
(* two deletes of Clear has no keyed row.                                  *)
KeyInv ==
    /\ NoDuplicateKey
    /\ KeyedRowsHoldTheirClaim
    /\ \A p \in Procs, i \in DOMAIN jobs :
          clearing[p] # NoQueue /\ jobs[i].key # NoKey => jobs[i].queue # clearing[p]

(* With one driver d.mu orders every claim against both deletes of Clear. *)
LEMMA KeyStep == OneDriver /\ TypeOK /\ KeyInv /\ [Next]_vars => KeyInv'
<1> SUFFICES ASSUME OneDriver, TypeOK, KeyInv, [Next]_vars PROVE KeyInv'
  OBVIOUS
<1> USE DEF KeyInv, NoDuplicateKey, KeyedRowsHoldTheirClaim
<1>1. ASSUME NEW p \in Procs, NEW q \in Queues, NEW d \in Delays, PushDelayedCtx(p, q, d)
      PROVE  KeyInv'
  <2>1. Insert(p, q, NoKey, d) /\ UNCHANGED <<dedupe, clearing>>
    BY <1>1, ZenonT(30) DEF PushDelayedCtx
  <2> QED
    BY <2>1, InsertEffect, SMTT(30)
<1>2. ASSUME NEW p \in Procs, NEW q \in Queues, NEW k \in Keys, PushIfNotExistsCtx(p, q, k)
      PROVE  KeyInv'
  <2>1. /\ Insert(p, q, k, 0) /\ ~KeyHeld(k) /\ clearing[p] = NoQueue
        /\ dedupe' = dedupe \cup {[key |-> k, queue |-> q]} /\ clearing' = clearing
    BY <1>2 DEF PushIfNotExistsCtx, MuFree
  <2>2. \A i \in DOMAIN jobs : jobs[i].key # k
    BY <2>1, Zenon DEF KeyHeld
  <2>3. NoDuplicateKey'
    BY <2>1, <2>2, InsertEffect, SMTT(30)
  <2>4. KeyedRowsHoldTheirClaim'
    BY <2>1, InsertEffect, SMTT(30)
  <2>5. \A r \in Procs : clearing[r] = NoQueue
    BY <2>1, ZenonT(30) DEF OneDriver
  <2> QED
    BY <2>1, <2>3, <2>4, <2>5, ZenonT(30)
<1>3. ASSUME NEW p \in Procs, NEW q \in Queues, NEW i \in RowIds, ReserveNext(p, q, i)
      PROVE  KeyInv'
  <2>1. \A j \in DOMAIN jobs : jobs'[j].key = jobs[j].key /\ jobs'[j].queue = jobs[j].queue
    BY <1>3, ReserveEffect, ZenonT(30)
  <2> QED
    BY <1>3, <2>1, ReserveEffect, SMTT(30)
<1>4. ASSUME NEW t \in tokens, NEW d, ReleaseCtx(t, d)
      PROVE  KeyInv'
  <2>1. \A j \in DOMAIN jobs : jobs'[j].key = jobs[j].key /\ jobs'[j].queue = jobs[j].queue
    BY <1>4, ReleaseEffect, ZenonT(30)
  <2> QED
    BY <1>4, <2>1, ReleaseEffect, SMTT(30)
<1>5. ASSUME NEW S, DeleteRows(S), UNCHANGED <<dedupe, clearing>>
      PROVE  KeyInv'
  <2>1. DOMAIN jobs' = DOMAIN jobs \ S /\ \A i \in DOMAIN jobs' : jobs'[i] = jobs[i]
    BY <1>5, DeleteEffect, Zenon
  <2> QED
    BY <1>5, <2>1
<1>6. ASSUME NEW p \in Procs, NEW q \in Queues, ClearJobs(p, q)
      PROVE  KeyInv'
  <2>1. /\ DeleteRows(RowsOf(q)) /\ dedupe' = dedupe
        /\ clearing' = [clearing EXCEPT ![p] = q]
    BY <1>6 DEF ClearJobs
  <2>5. DOMAIN jobs' = DOMAIN jobs \ RowsOf(q) /\ \A i \in DOMAIN jobs' : jobs'[i] = jobs[i]
    BY <2>1, DeleteEffect, Zenon
  <2>2. \A i \in DOMAIN jobs' : i \in DOMAIN jobs /\ jobs'[i] = jobs[i] /\ jobs[i].queue # q
    BY <2>5 DEF RowsOf
  <2>3. \A r \in Procs : clearing'[r] = q
    BY <2>1, ZenonT(30) DEF OneDriver, TypeOK
  <2>4. NoDuplicateKey' /\ KeyedRowsHoldTheirClaim'
    BY <2>1, <2>2, ZenonT(30)
  <2> QED
    BY <2>2, <2>3, <2>4
<1>7. ASSUME NEW p \in Procs, ClearDedupe(p)
      PROVE  KeyInv'
  <2>1. /\ clearing[p] # NoQueue /\ jobs' = jobs
        /\ dedupe' = {r \in dedupe : r.queue # clearing[p]}
        /\ \A r \in Procs : clearing'[r] = NoQueue
    BY <1>7, ZenonT(30) DEF ClearDedupe, OneDriver, TypeOK
  <2> QED
    BY <2>1
<1>8. ASSUME NEW p \in Procs, ClearAborted(p)
      PROVE  KeyInv'
  <2>1. jobs' = jobs /\ dedupe' = dedupe /\ \A r \in Procs : clearing'[r] = NoQueue
    BY <1>8, ZenonT(30) DEF ClearAborted, OneDriver, TypeOK
  <2> QED
    BY <2>1
<1>9. ASSUME UNCHANGED <<jobs, dedupe, clearing>>
      PROVE  KeyInv'
  BY <1>9
<1> QED
  BY <1>1, <1>2, <1>3, <1>4, <1>5, <1>6, <1>7, <1>8, <1>9, Zenon
     DEF Next, vars, AckCtx, FailReservedCtx, Tick

(* Where one driver serves the deployment, PushIfNotExistsCtx never puts a *)
(* second row of a key beside the first, whatever Clear does meanwhile.    *)
THEOREM OneDriverNoDuplicateKey == OneDriver /\ Spec => []NoDuplicateKey
<1>1. Init => KeyInv
  BY DEF Init, KeyInv, NoDuplicateKey, KeyedRowsHoldTheirClaim
<1>2. KeyInv => NoDuplicateKey
  BY DEF KeyInv
<1> SUFFICES ASSUME OneDriver PROVE Spec => []NoDuplicateKey
  OBVIOUS
<1>3. TypeOK /\ KeyInv /\ [Next]_vars => KeyInv'
  BY KeyStep, Zenon
<1> QED
  BY <1>1, <1>2, <1>3, TypeCorrect, PTL DEF Spec

-----------------------------------------------------------------------------
(* The retry budget *)

(* No operation lowers the attempts of a row that stays in the table, and  *)
(* a row changes hands only with attempts one higher.                      *)
THEOREM AttemptsSurvive == Spec => AttemptsNeverLost
<1> DEFINE A == \A i \in DOMAIN jobs \cap DOMAIN jobs' :
          /\ jobs'[i].attempts \in {jobs[i].attempts, jobs[i].attempts + 1}
          /\ Reserved(jobs'[i]) /\ jobs'[i] # jobs[i] => jobs'[i].attempts = jobs[i].attempts + 1
<1>1. TypeOK /\ [Next]_vars => A
  <2> SUFFICES ASSUME TypeOK, [Next]_vars PROVE A
    OBVIOUS
  <2>1. ASSUME NEW p \in Procs, NEW q, NEW k, NEW d, Insert(p, q, k, d) PROVE A
    BY <2>1, InsertEffect, ZenonT(30)
  <2>2. ASSUME NEW p \in Procs, NEW q \in Queues, NEW i \in RowIds, ReserveNext(p, q, i) PROVE A
    BY <2>2, ReserveEffect, ZenonT(30)
  <2>3. ASSUME NEW t \in tokens, NEW d, ReleaseCtx(t, d) PROVE A
    BY <2>3, ReleaseEffect DEF Reserved
  <2>4. ASSUME NEW S, DeleteRows(S) PROVE A
    BY <2>4, DeleteEffect, Zenon
  <2>5. ASSUME UNCHANGED jobs PROVE A
    BY <2>5
  <2> QED
    BY <2>1, <2>2, <2>3, <2>4, <2>5, ZenonT(30)
       DEF Next, vars, PushDelayedCtx, PushIfNotExistsCtx, AckCtx, FailReservedCtx,
           ClearJobs, ClearDedupe, ClearAborted, Tick
<1> QED
  BY <1>1, TypeCorrect, PTL DEF Spec, AttemptsNeverLost
=============================================================================
