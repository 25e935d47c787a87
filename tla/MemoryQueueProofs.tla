-------------------------- MODULE MemoryQueueProofs --------------------------
(***************************************************************************)
(* The in-memory driver keeps the contract of a queue with leases: it      *)
(* implements JobQueue, gives a dedupe key to one live job and hands out   *)
(* no delayed job early.                                                   *)
(***************************************************************************)
EXTENDS MemoryQueue, SequenceTheorems, FiniteSetTheorems, TLAPS

IsEntry(d) == d = [job |-> d.job, left |-> d.left] /\ d.job \in Jobs /\ d.left \in Nat

(* The three places of the store, each holding a job at most once. *)
StoreShape ==
    /\ list \in Seq(Jobs) /\ IsInjective(list)
    /\ IsFiniteSet(heap) /\ \A d \in heap : IsEntry(d)
    /\ \A d, e \in heap : d.job = e.job => d = e
    /\ \A r \in leases : r.job \in Jobs
    /\ \A r, s \in leases : r.job = s.job => r = s

(* A job is in one place. *)
OnePlace == Listed \cap Heaped = {} /\ Listed \cap Leased = {} /\ Heaped \cap Leased = {}

(* The key of a live job is recorded, fresh or past its retention. *)
KeysKept ==
    /\ DOMAIN keys = {KeyOf[j] : j \in Jobs}
    /\ \A j \in LiveJobs : KeyOf[j] # MemNoKey => keys[KeyOf[j]] # "none"
    /\ LiveKeysUnique

MemInv == StoreShape /\ OnePlace /\ KeysKept

(* The step of the contract, or none. *)
QueueStep == [Abstract!JobNext]_(Abstract!jobVars)

-----------------------------------------------------------------------------
(* Lists *)

LEMMA Appended ==
    ASSUME NEW s \in Seq(Jobs), IsInjective(s), NEW j \in Jobs, j \notin Range(s)
    PROVE  /\ Append(s, j) \in Seq(Jobs) /\ IsInjective(Append(s, j))
           /\ Range(Append(s, j)) = Range(s) \cup {j}
<1>1. /\ Len(s) \in Nat /\ DOMAIN s = 1..Len(s)
      /\ Append(s, j) \in Seq(Jobs) /\ Len(Append(s, j)) = Len(s) + 1
      /\ \A i \in 1..Len(s) : Append(s, j)[i] = s[i]
      /\ Append(s, j)[Len(s) + 1] = j
  BY AppendProperties, LenProperties
<1>2. DOMAIN Append(s, j) = 1..Len(s) + 1
  BY <1>1, LenProperties
<1> DEFINE a == Append(s, j)
<1> HIDE DEF a
<1>3. /\ DOMAIN a = 1..Len(s) + 1 /\ a[Len(s) + 1] = j /\ \A i \in 1..Len(s) : a[i] = s[i]
  BY <1>1, <1>2 DEF a
<1>4. \A i \in DOMAIN a : i \in 1..Len(s) \/ i = Len(s) + 1
  BY <1>1, <1>3
<1>5. IsInjective(a)
  BY <1>1, <1>3, <1>4 DEF IsInjective, Range
<1>6. Range(a) = Range(s) \cup {j}
  BY <1>1, <1>3, <1>4 DEF Range
<1> QED
  BY <1>1, <1>5, <1>6 DEF a

LEMMA Beheaded ==
    ASSUME NEW s \in Seq(Jobs), IsInjective(s), s # << >>
    PROVE  /\ Head(s) \in Range(s) /\ Tail(s) \in Seq(Jobs) /\ IsInjective(Tail(s))
           /\ Range(Tail(s)) = Range(s) \ {Head(s)}
<1>1. /\ Len(s) \in Nat /\ Len(s) > 0 /\ DOMAIN s = 1..Len(s) /\ Head(s) = s[1]
      /\ Tail(s) \in Seq(Jobs) /\ Len(Tail(s)) = Len(s) - 1
      /\ \A i \in 1..Len(s) - 1 : Tail(s)[i] = s[i + 1]
  BY HeadTailProperties, LenProperties, EmptySeq
<1> DEFINE t == Tail(s)
           n == Len(s) - 1
<1>2. DOMAIN t = 1..n /\ \A i \in 1..n : t[i] = s[i + 1]
  BY <1>1, LenProperties
<1> HIDE DEF t
<1>3. n \in Nat /\ \A i \in 1..n : i + 1 \in DOMAIN s
  BY <1>1
<1>4. IsInjective(t)
  BY <1>2, <1>3 DEF IsInjective
<1>5. \A k \in DOMAIN s : k # 1 => k - 1 \in 1..n /\ (k - 1) + 1 = k
  BY <1>1
<1>6. Range(t) = Range(s) \ {s[1]}
  <2>1. \A x \in Range(t) : x \in Range(s) /\ x # s[1]
    <3>1. \A i \in 1..n : s[i + 1] # s[1] /\ s[i + 1] \in Range(s)
      BY <1>1, <1>3 DEF Range, IsInjective
    <3> QED
      BY <1>2, <3>1 DEF Range
  <2>2. \A x \in Range(s) : x # s[1] => x \in Range(t)
    BY <1>2, <1>5 DEF Range
  <2> QED  BY <2>1, <2>2
<1> QED
  BY <1>1, <1>4, <1>6 DEF t, Range

LEMMA Joined ==
    ASSUME NEW s \in Seq(Jobs), NEW t \in Seq(Jobs), IsInjective(s), IsInjective(t), Range(s) \cap Range(t) = {}
    PROVE  s \o t \in Seq(Jobs) /\ IsInjective(s \o t) /\ Range(s \o t) = Range(s) \cup Range(t)
<1> DEFINE u == s \o t
           m == Len(s)
           n == Len(t)
<1>1. m \in Nat /\ n \in Nat /\ DOMAIN s = 1..m /\ DOMAIN t = 1..n
  BY LenProperties
<1>2. /\ u \in Seq(Jobs) /\ Len(u) = m + n
      /\ \A i \in 1..m + n : u[i] = IF i <= m THEN s[i] ELSE t[i - m]
  BY ConcatProperties
<1>3. DOMAIN u = 1..m + n
  BY <1>2, LenProperties
<1> HIDE DEF u, m, n
<1>4. \A i \in DOMAIN u : \/ i \in DOMAIN s /\ u[i] = s[i]
                          \/ i \notin DOMAIN s /\ i - m \in DOMAIN t /\ u[i] = t[i - m] /\ (i - m) + m = i
  BY <1>1, <1>2, <1>3
<1>5. /\ \A i \in DOMAIN s : i \in DOMAIN u /\ u[i] = s[i]
      /\ \A i \in DOMAIN t : i + m \in DOMAIN u /\ u[i + m] = t[i]
  BY <1>1, <1>2, <1>3
<1>6. IsInjective(u)
  BY <1>4 DEF IsInjective, Range
<1>7. Range(u) = Range(s) \cup Range(t)
  BY <1>4, <1>5 DEF Range
<1> QED
  BY <1>2, <1>6, <1>7 DEF u
-----------------------------------------------------------------------------
(* The pushes *)

LEMMA UnpushedFacts == ASSUME NEW j \in Unpushed
                       PROVE  /\ j \in Jobs /\ j \notin Listed /\ j \notin Heaped /\ j \notin Leased
                              /\ j \notin failedJobs \cup ackedJobs
  BY DEF Unpushed, LiveJobs

(* A key is recorded for each live job when only j joined them. *)
LEMMA JoinKeepsKeys ==
    ASSUME MemInv, NEW j \in Jobs, LiveJobs' = LiveJobs \cup {j}, DOMAIN keys' = DOMAIN keys,
           \A k \in DOMAIN keys : keys'[k] = keys[k] \/ keys'[k] # "none",
           KeyOf[j] # MemNoKey => keys'[KeyOf[j]] # "none" /\ keys[KeyOf[j]] = "none"
    PROVE  KeysKept'
<1>1. LiveJobs \subseteq Jobs
  BY DEF MemInv, StoreShape, LiveJobs, Listed, Heaped, Leased, IsEntry, Range
<1>2. \A i \in LiveJobs' : KeyOf[i] # MemNoKey => keys'[KeyOf[i]] # "none"
  BY <1>1 DEF MemInv, KeysKept
<1>3. LiveKeysUnique'
  BY <1>1 DEF MemInv, KeysKept, LiveKeysUnique
<1> QED
  BY <1>2, <1>3 DEF MemInv, KeysKept

LEMMA PushListed ==
    ASSUME MemInv, NEW j \in Unpushed, list' = Append(list, j), UNCHANGED <<heap, leases, endVars>>
    PROVE  StoreShape' /\ OnePlace' /\ LiveJobs' = LiveJobs \cup {j} /\ QueueStep
<1>1. /\ list' \in Seq(Jobs) /\ IsInjective(list') /\ Listed' = Listed \cup {j}
      /\ Heaped' = Heaped /\ Leased' = Leased
  BY UnpushedFacts, Appended DEF MemInv, StoreShape, Listed, Heaped, Leased
<1>2. StoreShape' /\ OnePlace' /\ LiveJobs' = LiveJobs \cup {j}
  BY <1>1, UnpushedFacts DEF MemInv, StoreShape, OnePlace, LiveJobs
<1>3. Abstract!PushJob
  BY <1>1, UnpushedFacts DEF Abstract!PushJob, Abstract!Known, endVars
<1> QED
  BY <1>2, <1>3 DEF QueueStep, Abstract!JobNext

LEMMA PushOnceKeeps == ASSUME MemInv, NEW j \in Jobs, PushOnce(j) PROVE MemInv' /\ QueueStep
<1>1. StoreShape' /\ OnePlace' /\ LiveJobs' = LiveJobs \cup {j} /\ QueueStep
  BY PushListed DEF PushOnce
<1>2. KeyOf[j] \in DOMAIN keys /\ keys' = [keys EXCEPT ![KeyOf[j]] = "fresh"] /\ keys[KeyOf[j]] = "none"
  BY DEF MemInv, KeysKept, PushOnce
<1>3. KeysKept'
  BY <1>1, <1>2, JoinKeepsKeys
<1> QED
  BY <1>1, <1>3 DEF MemInv

LEMMA PushMemKeeps == ASSUME MemInv, NEW j \in Jobs, PushMem(j) PROVE MemInv' /\ QueueStep
<1>1. j \in Unpushed /\ KeyOf[j] = MemNoKey /\ UNCHANGED <<leases, keys, endVars>>
  BY DEF PushMem
<1>2. CASE list' = Append(list, j) /\ UNCHANGED heap
  <2>1. StoreShape' /\ OnePlace' /\ LiveJobs' = LiveJobs \cup {j} /\ QueueStep
    BY <1>1, <1>2, PushListed
  <2> QED
    BY <1>1, <2>1, JoinKeepsKeys DEF MemInv
<1>3. ASSUME NEW d \in MemDelays, heap' = heap \cup {[job |-> j, left |-> d]}, UNCHANGED list
      PROVE  MemInv' /\ QueueStep
  <2> DEFINE e == [job |-> j, left |-> d]
  <2>1. IsEntry(e) /\ e.job = j /\ heap' = heap \cup {e}
    BY <1>3, MemoryAssumption DEF IsEntry, MemoryAssumption
  <2> HIDE DEF e
  <2>2. Heaped' = Heaped \cup {j} /\ Listed' = Listed /\ Leased' = Leased
    BY <1>1, <1>3, <2>1, ZenonT(30) DEF Heaped, Listed, Leased
  <2>3. IsFiniteSet(heap')
    BY <2>1, FS_AddElement DEF MemInv, StoreShape
  <2>4. StoreShape'
    BY <1>1, <1>3, <2>1, <2>3, UnpushedFacts, SMTT(30) DEF MemInv, StoreShape, Heaped
  <2>5. OnePlace' /\ LiveJobs' = LiveJobs \cup {j}
    BY <1>1, <2>2, UnpushedFacts DEF MemInv, OnePlace, LiveJobs
  <2>6. KeysKept'
    BY <1>1, <2>5, JoinKeepsKeys
  <2>7. Abstract!PushJob
    BY <1>1, <2>2, UnpushedFacts DEF Abstract!PushJob, Abstract!Known, endVars
  <2> QED
    BY <2>4, <2>5, <2>6, <2>7, ZenonT(30) DEF MemInv, QueueStep, Abstract!JobNext
<1> QED
  BY <1>2, <1>3 DEF PushMem
-----------------------------------------------------------------------------
(* The calls of a worker *)

(* Jobs only move between the places, or leave them; the keys stay. *)
LEMMA FewerKeepKeys == ASSUME MemInv, LiveJobs' \subseteq LiveJobs, UNCHANGED keys PROVE KeysKept'
  BY DEF MemInv, KeysKept, LiveKeysUnique

LEMMA ReserveMemKeeps == ASSUME MemInv, NEW w \in MemWorkers, ReserveMem(w) PROVE MemInv' /\ QueueStep
<1> DEFINE j == Head(list)
           r == [id |-> memNextId', job |-> j]
<1>1. /\ list # << >> /\ list' = Tail(list) /\ leases' = leases \cup {r} /\ r.job = j
      /\ UNCHANGED <<heap, keys, endVars>>
  BY DEF ReserveMem
<1> HIDE DEF r
<1>2. j \in Listed /\ j \in Jobs /\ list' \in Seq(Jobs) /\ IsInjective(list') /\ Listed' = Listed \ {j}
  BY <1>1, Beheaded, HeadTailProperties DEF MemInv, StoreShape, Listed
<1> HIDE DEF j
<1>3. Leased' = Leased \cup {j} /\ Heaped' = Heaped /\ j \notin Leased /\ j \notin Heaped
  BY <1>1, <1>2 DEF MemInv, OnePlace, Leased, Heaped
<1>4. StoreShape'
  BY <1>1, <1>2, <1>3 DEF MemInv, StoreShape, Leased
<1>5. OnePlace' /\ LiveJobs' = LiveJobs
  BY <1>2, <1>3 DEF MemInv, OnePlace, LiveJobs
<1>6. KeysKept'
  BY <1>1, <1>5, FewerKeepKeys
<1>7. Abstract!Lease
  BY <1>1, <1>2, <1>3 DEF Abstract!Lease, endVars
<1> QED
  BY <1>4, <1>5, <1>6, <1>7, ZenonT(30) DEF MemInv, QueueStep, Abstract!JobNext

(* A settled or released lease takes its job out of the leased ones. *)
LEMMA LeaseDropped ==
    ASSUME MemInv, NEW w \in MemWorkers, LeaseOf(w) \in leases, leases' = leases \ {LeaseOf(w)}
    PROVE  /\ holding[w] \in Leased /\ holding[w] \in Jobs /\ Leased' = Leased \ {holding[w]}
           /\ holding[w] \notin Listed /\ holding[w] \notin Heaped
<1>1. LeaseOf(w).job = holding[w]
  BY DEF LeaseOf
<1>2. holding[w] \in Leased /\ holding[w] \in Jobs
  BY <1>1 DEF MemInv, StoreShape, Leased
<1>3. \A r \in leases : r # LeaseOf(w) => r.job # holding[w]
  BY <1>1 DEF MemInv, StoreShape
<1>4. Leased' = Leased \ {holding[w]}
  BY <1>1, <1>3 DEF Leased
<1> QED
  BY <1>2, <1>4 DEF MemInv, OnePlace

LEMMA SettleKeeps ==
    ASSUME MemInv, NEW w \in MemWorkers, QuarantineMem(w) \/ Ack(w) \/ FailReserved(w)
    PROVE  MemInv' /\ QueueStep
<1>1. /\ LeaseOf(w) \in leases /\ leases' = leases \ {LeaseOf(w)} /\ UNCHANGED <<list, heap, keys>>
      /\ failedJobs' \cup ackedJobs' = (failedJobs \cup ackedJobs) \cup {holding[w]}
  BY DEF QuarantineMem, Ack, FailReserved
<1>2. /\ holding[w] \in Leased /\ Leased' = Leased \ {holding[w]} /\ Listed' = Listed /\ Heaped' = Heaped
  BY <1>1, LeaseDropped, ZenonT(30) DEF Listed, Heaped
<1>3. StoreShape' /\ OnePlace' /\ LiveJobs' \subseteq LiveJobs
  BY <1>1, <1>2 DEF MemInv, StoreShape, OnePlace, LiveJobs
<1>4. KeysKept'
  BY <1>1, <1>3, FewerKeepKeys
<1>5. Abstract!Settle
  BY <1>1, <1>2 DEF Abstract!Settle
<1> QED
  BY <1>3, <1>4, <1>5 DEF MemInv, QueueStep, Abstract!JobNext

LEMMA ReleaseMemKeeps == ASSUME MemInv, NEW w \in MemWorkers, ReleaseMem(w) PROVE MemInv' /\ QueueStep
<1>1. /\ LeaseOf(w) \in leases /\ leases' = leases \ {LeaseOf(w)} /\ UNCHANGED <<list, keys, endVars>>
  BY DEF ReleaseMem
<1>2. PICK d \in MemDelays : heap' = heap \cup {[job |-> holding[w], left |-> d]}
  BY DEF ReleaseMem
<1> DEFINE e == [job |-> holding[w], left |-> d]
<1>3. /\ holding[w] \in Leased /\ holding[w] \in Jobs /\ Leased' = Leased \ {holding[w]}
      /\ holding[w] \notin Listed /\ holding[w] \notin Heaped /\ Listed' = Listed
  BY <1>1, LeaseDropped DEF Listed
<1>4. IsEntry(e) /\ e.job = holding[w] /\ heap' = heap \cup {e}
  BY <1>2, <1>3, MemoryAssumption, ZenonT(30) DEF IsEntry, MemoryAssumption
<1> HIDE DEF e
<1>5. Heaped' = Heaped \cup {holding[w]}
  BY <1>4 DEF Heaped
<1>6. IsFiniteSet(heap')
  BY <1>4, FS_AddElement, ZenonT(30) DEF MemInv, StoreShape
<1>7. \A a, b \in heap' : a.job = b.job => a = b
  BY <1>3, <1>4, SMTT(30) DEF MemInv, StoreShape, Heaped
<1>8. StoreShape'
  BY <1>1, <1>4, <1>6, <1>7, ZenonT(30) DEF MemInv, StoreShape
<1>9. OnePlace' /\ LiveJobs' = LiveJobs
  BY <1>3, <1>5 DEF MemInv, OnePlace, LiveJobs
<1>10. KeysKept'
  BY <1>1, <1>9, FewerKeepKeys
<1>11. Abstract!ReleaseJob
  BY <1>1, <1>3, <1>5 DEF Abstract!ReleaseJob, endVars
<1> QED
  BY <1>8, <1>9, <1>10, <1>11, ZenonT(30) DEF MemInv, QueueStep, Abstract!JobNext

(* A call on a dropped lease leaves the store alone. *)
LEMMA SameStore ==
    ASSUME MemInv, UNCHANGED <<list, heap, leases, keys, endVars>> PROVE MemInv' /\ QueueStep
<1>1. Listed' = Listed /\ Heaped' = Heaped /\ Leased' = Leased
  BY DEF Listed, Heaped, Leased
<1>2. StoreShape' /\ OnePlace' /\ LiveJobs' = LiveJobs
  BY <1>1 DEF MemInv, StoreShape, OnePlace, LiveJobs
<1> QED
  BY <1>1, <1>2, FewerKeepKeys DEF MemInv, QueueStep, Abstract!jobVars, endVars

-----------------------------------------------------------------------------
(* The background goroutine, Clear and time *)

LEMMA MoveReadyKeeps == ASSUME MemInv, MoveReady PROVE MemInv' /\ QueueStep
<1>1. heap' = heap \ Due /\ UNCHANGED <<leases, keys, endVars>>
  BY DEF MoveReady
<1>2. PICK s \in Bijection(1..Cardinality(Due), Due) : list' = list \o [k \in DOMAIN s |-> s[k].job]
  BY ZenonT(30) DEF MoveReady
<1> DEFINE n == Cardinality(Due)
           t == [k \in DOMAIN s |-> s[k].job]
<1>3. Due \in SUBSET heap /\ IsFiniteSet(heap)
  BY DEF Due, MemInv, StoreShape
<1>4. n \in Nat /\ IsFiniteSet(heap')
  BY <1>1, <1>3, FS_Subset, FS_CardinalityType
<1>5. s \in [1..n -> Due] /\ IsInjective(s) /\ \A d \in Due : \E k \in 1..n : s[k] = d
  BY DEF Bijection, Injection, Surjection
<1> HIDE DEF n
<1>6. t \in Seq(Jobs) /\ DOMAIN t = 1..n
  <2>1. t \in [1..n -> Jobs]
    BY <1>3, <1>5 DEF MemInv, StoreShape, IsEntry
  <2> QED
    BY <1>4, <2>1
<1>7. \A k \in 1..n : t[k] = s[k].job /\ s[k] \in heap
  BY <1>3, <1>5
<1>8. IsInjective(t)
  BY <1>5, <1>6, <1>7, SMTT(30) DEF IsInjective, MemInv, StoreShape
<1>9. Range(t) = {d.job : d \in Due}
  BY <1>5, <1>6, <1>7, ZenonT(30) DEF Range
<1> HIDE DEF t
<1>10. Range(t) \subseteq Heaped /\ Heaped' = Heaped \ Range(t)
  <2>1. \A d \in heap, e \in Due : d.job = e.job => d \in Due
    BY <1>3 DEF MemInv, StoreShape
  <2> QED
    BY <1>1, <1>3, <1>9, <2>1, ZenonT(30) DEF Heaped
<1>11. list' \in Seq(Jobs) /\ IsInjective(list') /\ Listed' = Listed \cup Range(t)
  BY <1>2, <1>6, <1>8, <1>10, Joined, Zenon DEF MemInv, StoreShape, OnePlace, Listed, t
<1>12. Leased' = Leased
  BY <1>1 DEF Leased
<1>13. StoreShape'
  BY <1>1, <1>4, <1>11 DEF MemInv, StoreShape
<1>14. OnePlace' /\ LiveJobs' = LiveJobs
  BY <1>10, <1>11, <1>12 DEF MemInv, OnePlace, LiveJobs
<1>15. KeysKept'
  BY <1>1, <1>14, FewerKeepKeys
<1>16. Abstract!Promote
  BY <1>1, <1>10, <1>11, <1>12 DEF Abstract!Promote, endVars
<1> QED
  BY <1>13, <1>14, <1>15, <1>16, ZenonT(30) DEF MemInv, QueueStep, Abstract!JobNext

LEMMA SweepKeysKeeps == ASSUME MemInv, SweepKeys PROVE MemInv' /\ QueueStep
<1>1. UNCHANGED <<list, heap, leases, endVars>>
  BY DEF SweepKeys
<1>2. Listed' = Listed /\ Heaped' = Heaped /\ Leased' = Leased
  BY <1>1 DEF Listed, Heaped, Leased
<1>3. StoreShape' /\ OnePlace' /\ LiveJobs' = LiveJobs
  BY <1>1, <1>2 DEF MemInv, StoreShape, OnePlace, LiveJobs
<1>4. /\ DOMAIN keys' = DOMAIN keys
      /\ \A j \in LiveJobs : KeyOf[j] \in DOMAIN keys => keys'[KeyOf[j]] = keys[KeyOf[j]]
  BY DEF SweepKeys
<1>5. \A j \in LiveJobs : KeyOf[j] \in DOMAIN keys
  BY DEF MemInv, StoreShape, KeysKept, LiveJobs, Listed, Heaped, Leased, IsEntry, Range
<1>6. KeysKept'
  BY <1>3, <1>4, <1>5 DEF MemInv, KeysKept, LiveKeysUnique
<1> QED
  BY <1>1, <1>2, <1>3, <1>6, ZenonT(30) DEF MemInv, QueueStep, Abstract!jobVars, endVars

LEMMA ClearMemKeeps == ASSUME MemInv, ClearMem PROVE MemInv' /\ QueueStep
<1>1. list' = << >> /\ heap' = {} /\ leases' = {} /\ DOMAIN keys' = DOMAIN keys
      /\ UNCHANGED <<failedJobs, ackedJobs>>
  BY DEF ClearMem
<1>2. list' \in Seq(Jobs) /\ Len(list') = 0 /\ DOMAIN list' = {}
  BY <1>1
<1>3. Listed' = {} /\ Heaped' = {} /\ Leased' = {} /\ IsInjective(list')
  BY <1>1, <1>2, ZenonT(30) DEF Listed, Heaped, Leased, Range, IsInjective
<1>4. StoreShape' /\ OnePlace' /\ LiveJobs' = {}
  BY <1>1, <1>2, <1>3, FS_EmptySet, ZenonT(30) DEF StoreShape, OnePlace, LiveJobs
<1>5. KeysKept'
  BY <1>1, <1>4 DEF MemInv, KeysKept, LiveKeysUnique
<1>6. Abstract!ClearAll
  BY <1>1, <1>3, ZenonT(30) DEF Abstract!ClearAll
<1> QED
  BY <1>4, <1>5, <1>6 DEF MemInv, QueueStep, Abstract!JobNext

(* The entry d after a second. *)
Nearer(d) == [d EXCEPT !.left = IF @ = 0 THEN 0 ELSE @ - 1]

LEMMA TimeLeftEffect ==
    ASSUME MemInv, TimeLeft
    PROVE  /\ heap' = {Nearer(d) : d \in heap} /\ IsFiniteSet(heap') /\ \A d \in heap' : IsEntry(d)
           /\ \A d \in heap : Nearer(d).job = d.job
           /\ \A d, e \in heap' : d.job = e.job => d = e
           /\ Heaped' = Heaped
<1>1. heap' = {Nearer(d) : d \in heap}
  BY DEF TimeLeft, Nearer
<1>2. \A d \in heap : IsEntry(Nearer(d)) /\ Nearer(d).job = d.job
  <2> SUFFICES ASSUME NEW d \in heap PROVE IsEntry(Nearer(d)) /\ Nearer(d).job = d.job
    OBVIOUS
  <2>1. d = [job |-> d.job, left |-> d.left] /\ d.job \in Jobs /\ d.left \in Nat
    BY DEF MemInv, StoreShape, IsEntry
  <2>2. Nearer(d) = [job |-> d.job, left |-> IF d.left = 0 THEN 0 ELSE d.left - 1]
    BY <2>1 DEF Nearer
  <2> QED
    BY <2>1, <2>2 DEF IsEntry
<1>3. IsFiniteSet(heap')
  <2> DEFINE f == [d \in heap |-> Nearer(d)]
  <2>1. f \in Surjection(heap, heap')
    BY <1>1 DEF Surjection
  <2> QED
    BY <2>1, FS_Surjection DEF MemInv, StoreShape
<1>4. Heaped' = Heaped
  BY <1>1, <1>2 DEF Heaped
<1> QED
  BY <1>1, <1>2, <1>3, <1>4 DEF MemInv, StoreShape

LEMMA ElapseKeeps == ASSUME MemInv, Elapse PROVE MemInv' /\ QueueStep
<1>1. UNCHANGED <<list, leases, endVars>>
  BY DEF Elapse
<1>2. IsFiniteSet(heap') /\ (\A d \in heap' : IsEntry(d)) /\ (\A d, e \in heap' : d.job = e.job => d = e)
      /\ Heaped' = Heaped
  BY TimeLeftEffect DEF Elapse, MemInv, StoreShape, Heaped
<1>3. Listed' = Listed /\ Leased' = Leased
  BY <1>1 DEF Listed, Leased
<1>4. StoreShape' /\ OnePlace' /\ LiveJobs' = LiveJobs
  BY <1>1, <1>2, <1>3 DEF MemInv, StoreShape, OnePlace, LiveJobs
<1>5. DOMAIN keys' = DOMAIN keys /\ \A k \in DOMAIN keys : keys'[k] = keys[k] \/ keys'[k] = "old"
  BY DEF Elapse
<1>6. \A j \in LiveJobs : KeyOf[j] \in DOMAIN keys
  BY DEF MemInv, StoreShape, KeysKept, LiveJobs, Listed, Heaped, Leased, IsEntry, Range
<1>7. KeysKept'
  BY <1>4, <1>5, <1>6, ZenonT(30) DEF MemInv, KeysKept, LiveKeysUnique
<1> QED
  BY <1>1, <1>2, <1>3, <1>4, <1>7, ZenonT(30) DEF MemInv, QueueStep, Abstract!jobVars, endVars

-----------------------------------------------------------------------------
(* The contract *)

LEMMA MemInvInit == MemInit => MemInv /\ Abstract!JobInit
<1> SUFFICES ASSUME MemInit PROVE MemInv /\ Abstract!JobInit
  OBVIOUS
<1>1. list = << >> /\ list \in Seq(Jobs) /\ DOMAIN list = {} /\ heap = {} /\ leases = {}
  BY DEF MemInit
<1>2. Listed = {} /\ Heaped = {} /\ Leased = {} /\ IsInjective(list)
  BY <1>1 DEF Listed, Heaped, Leased, Range, IsInjective
<1>3. StoreShape /\ OnePlace /\ LiveJobs = {}
  BY <1>1, <1>2, FS_EmptySet, ZenonT(30) DEF StoreShape, OnePlace, LiveJobs
<1>4. KeysKept
  BY <1>3 DEF KeysKept, LiveKeysUnique, MemInit
<1> QED
  BY <1>2, <1>3, <1>4 DEF MemInv, Abstract!JobInit, MemInit

LEMMA MemStep == ASSUME MemInv, [MemNext]_memVars PROVE MemInv' /\ QueueStep
<1>1. CASE UNCHANGED memVars
  BY <1>1, SameStore DEF memVars, endVars
<1>2. ASSUME NEW w \in MemWorkers, LostLease(w) PROVE MemInv' /\ QueueStep
  BY <1>2, SameStore DEF LostLease, storeVars
<1>3. ASSUME NEW w \in MemWorkers, WorkerCall(w) PROVE MemInv' /\ QueueStep
  BY <1>2, <1>3, ReserveMemKeeps, SettleKeeps, ReleaseMemKeeps, ZenonT(30) DEF WorkerCall
<1> QED
  BY <1>1, <1>3, PushMemKeeps, PushOnceKeeps, MoveReadyKeeps, SweepKeysKeeps, ClearMemKeeps, ElapseKeeps, ZenonT(30)
     DEF MemNext

(* What MemDelayHonoured says of one step. *)
DelayStep == \A d \in heap : d.job \notin {e.job : e \in heap'} => d.left = 0 \/ d.job \in clearedJobs'

LEMMA DelayKept == ASSUME MemInv, [MemNext]_memVars PROVE DelayStep
<1>1. CASE heap \subseteq heap'
  BY <1>1 DEF DelayStep
<1>2. CASE MoveReady
  BY <1>2 DEF DelayStep, MoveReady, Due
<1>3. CASE ClearMem
  BY <1>3 DEF DelayStep, ClearMem, LiveJobs, Heaped
<1>4. CASE TimeLeft
  BY <1>4, TimeLeftEffect DEF DelayStep
<1> QED
  BY <1>1, <1>2, <1>3, <1>4, ZenonT(30)
     DEF MemNext, memVars, storeVars, PushMem, PushOnce, WorkerCall, ReserveMem, LostLease, QuarantineMem,
         Ack, ReleaseMem, FailReserved, SweepKeys, Elapse

(* For any jobs, keys, workers and delays: the list, the heap and the      *)
(* leases of the memory driver hold a job once and hand it on as JobQueue  *)
(* allows, one live job carries a dedupe key, and no job leaves the heap   *)
(* before its time except by Clear.                                        *)
THEOREM MemoryKeepsContract == MemSpec => MemKeepsContract
<1>1. MemInv => LiveKeysUnique
  BY DEF MemInv, KeysKept
<1>2. ASSUME MemInv, [MemNext]_memVars PROVE [DelayStep]_memVars
  BY <1>2, DelayKept
<1> QED
  BY MemInvInit, MemStep, <1>1, <1>2, PTL
     DEF MemSpec, MemKeepsContract, MemImplementsQueue, Abstract!JobSpec, QueueStep, MemDelayHonoured, DelayStep
=============================================================================
