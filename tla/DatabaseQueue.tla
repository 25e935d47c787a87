---------------------------- MODULE DatabaseQueue ----------------------------
(***************************************************************************)
(* The SQL queue driver (queue/database.go): the tables jobs, failed_jobs  *)
(* and job_dedupe, shared by every process that opened a DatabaseDriver on *)
(* the same database.  A pop leases a row and returns a fencing token; the *)
(* holder settles the row with Ack, Release, FailReserved or a poison      *)
(* quarantine, each a single transaction guarded by the token.  A holder   *)
(* may be slow, may crash, or may use its token long after the lease was   *)
(* reclaimed, so every token ever issued can be presented at any time.     *)
(***************************************************************************)
EXTENDS Integers, FiniteSets

CONSTANTS
    Procs,        \* driver instances, one workerID each; all pumps of one share it
    Queues,       \* queue names
    Keys,         \* dedupe keys
    NoKey,        \* a job pushed without a dedupe key
    NoProc,       \* reserved_by IS NULL
    NoQueue,      \* no Clear in progress
    Skew,         \* Skew[p]: how far p's time.Now() runs ahead of true time
    MaxSkew,      \* bound on the skew
    RetryAfter,   \* the lease window, in clock ticks
    Delays,       \* the delays callers pass to PushDelayedCtx and ReleaseCtx
    HasRowLocks,  \* postgres, mysql: FOR UPDATE SKIP LOCKED; FALSE for sqlite
    MaxRows,      \* bound: rows ever inserted
    MaxAttempts,  \* bound: reservations of one row
    MaxIdle       \* bound: time passing while no row waits for it

ASSUME ConstantsAssumption ==
    /\ NoKey \notin Keys /\ NoProc \notin Procs /\ NoQueue \notin Queues
    /\ MaxSkew \in Nat /\ Skew \in [Procs -> 0..MaxSkew]
    /\ RetryAfter \in Nat /\ Delays \subseteq Nat
    /\ HasRowLocks \in BOOLEAN
    /\ MaxRows \in Nat /\ MaxAttempts \in Nat /\ MaxIdle \in Nat

VARIABLES
    clock,     \* true time
    jobs,      \* the jobs table: row id -> row; DOMAIN jobs are the rows present
    nextId,    \* the next autoincrement id
    dedupe,    \* the job_dedupe table: a set of [key, queue]
    clearing,  \* clearing[p]: the queue whose dedupe rows p's Clear has yet to delete
    failed,    \* failed[i]: failed_jobs rows written for row i
    acked,     \* observation, acked[i]: times a delivery of row i was acknowledged
    cleared,   \* observation: rows removed by Clear
    tokens,    \* observation: every reservation token issued, with its issue time
    spent      \* observation: the tokens whose settlement took effect

vars == <<clock, jobs, nextId, dedupe, clearing, failed, acked, cleared, tokens, spent>>

RowIds == 1..MaxRows

Row == [queue: Queues, key: Keys \cup {NoKey}, attempts: Nat,
        scheduledAt: Nat, reservedAt: Nat, reservedBy: Procs \cup {NoProc}]

Token == [id: RowIds, attempts: Nat, reservedBy: Procs, at: Nat]

Init ==
    /\ clock = 0
    /\ jobs = [i \in {} |-> 0]
    /\ nextId = 1
    /\ dedupe = {}
    /\ clearing = [p \in Procs |-> NoQueue]
    /\ failed = [i \in RowIds |-> 0]
    /\ acked = [i \in RowIds |-> 0]
    /\ cleared = {}
    /\ tokens = {}
    /\ spent = {}

(* What time.Now() reads in process p. *)
Now(p) == clock + Skew[p]

(* d.mu of driver p is held across the two statements of Clear; the other  *)
(* critical sections are one transaction, hence one step, each.            *)
MuFree(p) == clearing[p] = NoQueue

(* lockWorkerPath: pops and settlements take d.mu only without row locks.  *)
WorkerPathFree(p) == HasRowLocks \/ MuFree(p)

-----------------------------------------------------------------------------
(* Pushing *)

Insert(p, q, k, d) ==
    /\ nextId \in RowIds
    /\ jobs' = [i \in DOMAIN jobs \cup {nextId} |->
                  IF i = nextId
                  THEN [queue |-> q, key |-> k, attempts |-> 0,
                        scheduledAt |-> Now(p) + d, reservedAt |-> 0, reservedBy |-> NoProc]
                  ELSE jobs[i]]
    /\ nextId' = nextId + 1

PushDelayedCtx(p, q, d) ==
    /\ Insert(p, q, NoKey, d)
    /\ UNCHANGED <<clock, dedupe, clearing, failed, acked, cleared, tokens, spent>>

KeyHeld(k) == \E r \in dedupe : r.key = k

(* claimAndInsert: the claim and the insert commit together under d.mu; a  *)
(* key already held commits nothing and the push reports success.          *)
PushIfNotExistsCtx(p, q, k) ==
    /\ MuFree(p)
    /\ ~KeyHeld(k)
    /\ Insert(p, q, k, 0)
    /\ dedupe' = dedupe \cup {[key |-> k, queue |-> q]}
    /\ UNCHANGED <<clock, clearing, failed, acked, cleared, tokens, spent>>

-----------------------------------------------------------------------------
(* Leasing *)

Reserved(r) == r.reservedBy # NoProc

(* Bug: the lease is reclaimed one tick early. *)
PoppableEarly(p, r) ==
    \/ ~Reserved(r) /\ r.scheduledAt <= Now(p)
    \/ Reserved(r) /\ r.reservedAt <= Now(p) - RetryAfter

(* The reservation predicate: due and unreserved, or the lease has expired. *)
Poppable(p, r) ==
    \/ ~Reserved(r) /\ r.scheduledAt <= Now(p)
    \/ Reserved(r) /\ r.reservedAt < Now(p) - RetryAfter

Candidates(p, q) == {i \in DOMAIN jobs : jobs[i].queue = q /\ Poppable(p, jobs[i])}

(* ORDER BY scheduled_at, id *)
Before(i, j) ==
    \/ jobs[i].scheduledAt < jobs[j].scheduledAt
    \/ jobs[i].scheduledAt = jobs[j].scheduledAt /\ i <= j

(* With SKIP LOCKED a pop passes over rows other transactions hold locked, *)
(* and those may roll back; without it the first candidate is taken.       *)
Selected(p, q, i) ==
    /\ i \in Candidates(p, q)
    /\ HasRowLocks \/ \A j \in Candidates(p, q) : Before(i, j)

TokenOf(p, i) ==
    [id |-> i, attempts |-> jobs[i].attempts + 1, reservedBy |-> p, at |-> clock]

ReserveRow(p, i) ==
    /\ jobs' = [jobs EXCEPT ![i].reservedAt = Now(p),
                            ![i].reservedBy = p,
                            ![i].attempts = @ + 1]
    /\ tokens' = tokens \cup {TokenOf(p, i)}
    /\ UNCHANGED <<clock, nextId, dedupe, clearing, failed, acked, cleared, spent>>

ReserveNext(p, q, i) ==
    /\ WorkerPathFree(p)
    /\ Selected(p, q, i)
    /\ jobs[i].attempts < MaxAttempts
    /\ ReserveRow(p, i)

-----------------------------------------------------------------------------
(* Settling.  Every settlement is fenced on (id, attempts, reserved_by);   *)
(* zero rows affected is ErrLeaseLost and changes nothing.                 *)

(* Bug: the fence trusts the workerID alone. *)
FencedByOwnerOnly(t) ==
    /\ t.id \in DOMAIN jobs
    /\ jobs[t.id].reservedBy = t.reservedBy

Fenced(t) ==
    /\ t.id \in DOMAIN jobs
    /\ jobs[t.id].attempts = t.attempts
    /\ jobs[t.id].reservedBy = t.reservedBy

DeleteRows(S) == jobs' = [i \in DOMAIN jobs \ S |-> jobs[i]]

(* AckCtx, and the second step of the delete-mode PopCtx: deleteReserved. *)
AckCtx(t) ==
    /\ WorkerPathFree(t.reservedBy)
    /\ Fenced(t)
    /\ DeleteRows({t.id})
    /\ acked' = [acked EXCEPT ![t.id] = @ + 1]
    /\ spent' = spent \cup {t}
    /\ UNCHANGED <<clock, nextId, dedupe, clearing, failed, cleared, tokens>>

(* ReleaseCtx: back to unreserved in place, the attempts count kept. *)
ReleaseCtx(t, d) ==
    /\ WorkerPathFree(t.reservedBy)
    /\ Fenced(t)
    /\ jobs' = [jobs EXCEPT ![t.id].reservedAt = 0,
                            ![t.id].reservedBy = NoProc,
                            ![t.id].scheduledAt = Now(t.reservedBy) + d]
    /\ spent' = spent \cup {t}
    /\ UNCHANGED <<clock, nextId, dedupe, clearing, failed, acked, cleared, tokens>>

(* Bug: the failed_jobs insert does not wait for the fence. *)
FailReservedUnfenced(t) ==
    /\ WorkerPathFree(t.reservedBy)
    /\ failed[t.id] < MaxAttempts
    /\ DeleteRows({t.id})
    /\ failed' = [failed EXCEPT ![t.id] = @ + 1]
    /\ spent' = spent \cup {t}
    /\ UNCHANGED <<clock, nextId, dedupe, clearing, acked, cleared, tokens>>

(* commitFailedReservation and quarantineReserved: the fenced delete and   *)
(* the failed_jobs insert in one transaction; the dedupe row stays.        *)
FailReservedCtx(t) ==
    /\ WorkerPathFree(t.reservedBy)
    /\ Fenced(t)
    /\ DeleteRows({t.id})
    /\ failed' = [failed EXCEPT ![t.id] = @ + 1]
    /\ spent' = spent \cup {t}
    /\ UNCHANGED <<clock, nextId, dedupe, clearing, acked, cleared, tokens>>

-----------------------------------------------------------------------------
(* Clear: two autocommit deletes under d.mu of this process. *)

RowsOf(q) == {i \in DOMAIN jobs : jobs[i].queue = q}

ClearJobs(p, q) ==
    /\ MuFree(p)
    /\ DeleteRows(RowsOf(q))
    /\ cleared' = cleared \cup RowsOf(q)
    /\ clearing' = [clearing EXCEPT ![p] = q]
    /\ UNCHANGED <<clock, nextId, dedupe, failed, acked, tokens, spent>>

ClearDedupe(p) ==
    /\ clearing[p] # NoQueue
    /\ dedupe' = {r \in dedupe : r.queue # clearing[p]}
    /\ clearing' = [clearing EXCEPT ![p] = NoQueue]
    /\ UNCHANGED <<clock, jobs, nextId, failed, acked, cleared, tokens, spent>>

(* The second delete errors, or the process dies before it. *)
ClearAborted(p) ==
    /\ clearing[p] # NoQueue
    /\ clearing' = [clearing EXCEPT ![p] = NoQueue]
    /\ UNCHANGED <<clock, jobs, nextId, dedupe, failed, acked, cleared, tokens, spent>>

(* Time passes while some process waits for a row, and MaxIdle ticks besides. *)
Waiting(r) == \E p \in Procs : ~Poppable(p, r)

Tick ==
    /\ clock < MaxIdle \/ \E i \in DOMAIN jobs : Waiting(jobs[i])
    /\ clock' = clock + 1
    /\ UNCHANGED <<jobs, nextId, dedupe, clearing, failed, acked, cleared, tokens, spent>>

Next ==
    \/ \E p \in Procs, q \in Queues, d \in Delays : PushDelayedCtx(p, q, d)
    \/ \E p \in Procs, q \in Queues, k \in Keys : PushIfNotExistsCtx(p, q, k)
    \/ \E p \in Procs, q \in Queues, i \in RowIds : ReserveNext(p, q, i)
    \/ \E t \in tokens : AckCtx(t)
    \/ \E t \in tokens, d \in Delays : ReleaseCtx(t, d)
    \/ \E t \in tokens : FailReservedCtx(t)
    \/ \E p \in Procs, q \in Queues : ClearJobs(p, q)
    \/ \E p \in Procs : ClearDedupe(p)
    \/ \E p \in Procs : ClearAborted(p)
    \/ Tick

Spec == Init /\ [][Next]_vars

-----------------------------------------------------------------------------
(* Properties *)

(* The tables and the issued tokens are well formed, and ids are handed    *)
(* out once: no row present has an id the sequence has yet to reach.       *)
TypeOK ==
    /\ clock \in Nat
    /\ DOMAIN jobs \subseteq RowIds
    /\ jobs \in [DOMAIN jobs -> Row]
    /\ nextId \in 1..(MaxRows + 1)
    /\ \A i \in DOMAIN jobs : i < nextId
    /\ dedupe \subseteq [key: Keys, queue: Queues]
    /\ clearing \in [Procs -> Queues \cup {NoQueue}]
    /\ failed \in [RowIds -> Nat]
    /\ acked \in [RowIds -> Nat]
    /\ cleared \subseteq RowIds
    /\ tokens \subseteq Token
    /\ spent \subseteq tokens

(* The fence (database.go, the WHERE of deleteReserved, ReleaseCtx and     *)
(* commitFailedReservation) admits at most one of all the tokens ever      *)
(* issued for a row, whoever holds the others and however late they come,  *)
(* even when the holders share one workerID.                               *)
FenceAdmitsOne ==
    \A t, u \in tokens : t.id = u.id /\ Fenced(t) /\ Fenced(u) => t = u

(* A job ends once: a row is acknowledged or recorded in failed_jobs, one  *)
(* of them and one time, and never while it can still be delivered.        *)
SettledOnce ==
    \A i \in RowIds :
        /\ acked[i] + failed[i] <= 1
        /\ i \in DOMAIN jobs => acked[i] + failed[i] = 0

(* No job is lost: a row the table handed an id to is still in it, or was  *)
(* acknowledged, recorded as failed, or removed by Clear.                  *)
NoJobLost ==
    \A i \in 1..(nextId - 1) :
        i \in DOMAIN jobs \/ acked[i] + failed[i] > 0 \/ i \in cleared

(* A job is accounted for: it ends once, and is never lost. *)
JobsAccounted == SettledOnce /\ NoJobLost

(* Inside its lease a holder's token still fences its row, so its own      *)
(* settlement will take effect, unless it already did or the queue was     *)
(* cleared.  Clock skew between hosts shortens the lease by the difference *)
(* of their clocks, because reserved_at and the cutoff are both            *)
(* time.Now() of the host that runs the statement (reserveNext).           *)
LeaseProtects ==
    \A t \in tokens :
        clock - t.at <= RetryAfter - MaxSkew =>
            Fenced(t) \/ t \in spent \/ t.id \in cleared

(* "a concurrent Clear cannot interleave between the jobs and job_dedupe   *)
(* deletes and strand a dedupe-less jobs row (which would let a later      *)
(* same-key push enqueue a duplicate and break at-most-once)"              *)
(* (claimAndInsert): two rows of the same dedupe key never coexist.        *)
NoDuplicateKey ==
    \A i, j \in DOMAIN jobs :
        jobs[i].key # NoKey /\ jobs[i].key = jobs[j].key => i = j

(* What carries NoDuplicateKey: every keyed row present still holds its    *)
(* claim in job_dedupe, under its own queue.                               *)
KeyedRowsHoldTheirClaim ==
    \A i \in DOMAIN jobs :
        jobs[i].key # NoKey => [key |-> jobs[i].key, queue |-> jobs[i].queue] \in dedupe

(* The persisted attempts count only grows while a row lives (ReleaseCtx   *)
(* keeps it, reserveNext adds one), and a row changes hands only by adding *)
(* one: the retry budget survives releases, reclaims and restarts.         *)
AttemptsNeverLost ==
    [][\A i \in DOMAIN jobs \cap DOMAIN jobs' :
          /\ jobs'[i].attempts \in {jobs[i].attempts, jobs[i].attempts + 1}
          /\ Reserved(jobs'[i]) /\ jobs'[i] # jobs[i] => jobs'[i].attempts = jobs[i].attempts + 1]_vars
=============================================================================
