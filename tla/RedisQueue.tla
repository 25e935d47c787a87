----------------------------- MODULE RedisQueue -----------------------------
(***************************************************************************)
(* The redis queue driver (queue/redis/redis.go) under the worker's        *)
(* delete-on-pop path (queue/worker.go): a list, a sorted set of delayed   *)
(* entries, a failed list and the dedupe sentinels, each redis command one *)
(* step.  A command may fail, or take effect with its reply lost; a worker *)
(* may crash or be stopped between any two commands.                       *)
(***************************************************************************)
EXTENDS Naturals, Sequences, FiniteSets, SequencesExt

CONSTANTS
    RJobs,       \* job values; each is pushed once
    Deduped,     \* jobs pushed by PushIfNotExistsCtx, each under its own key
    Poison,      \* jobs whose payload cannot be rebuilt
    RWorkers,
    RDelays,     \* delays of pushes and back-offs
    RTries,      \* the worker's attempt budget
    Kinds,       \* the mishaps that may happen
    MaxMishaps,  \* bound: mishaps
    MaxRClears   \* bound: calls of Clear

ASSUME RedisAssumption ==
    /\ Deduped \subseteq RJobs /\ Poison \subseteq RJobs /\ RDelays \subseteq Nat
    /\ RTries \in Nat \ {0} /\ MaxMishaps \in Nat /\ MaxRClears \in Nat
    /\ Kinds \subseteq {"failed", "unanswered", "crash", "stop"}

VARIABLES
    rlist,     \* the list: entries in order
    zset,      \* the delayed set: entries with the time left to their score
    rfailed,   \* jobs in the failed list
    rdone,     \* jobs whose handler succeeded
    givenUp,   \* jobs a worker decided not to run again
    rcleared,  \* jobs Clear deleted an entry of
    pushed,    \* pushed[j]: entries of j that producers put on the list or the set
    sentinel,  \* jobs whose dedupe sentinel is set
    pump,      \* pump[w]: the next command of worker w
    hand,      \* hand[w]: the entry worker w took off redis
    stale,     \* stale[w]: time passed since moveDelayedJobs read the clock
    counts,    \* counts[w][j]: the attempts cache of worker w
    redisClearing,  \* deletes of Clear still to come
    mishaps,   \* mishaps[k]: how often k happened
    rclears

redisVars == <<rlist, zset, rfailed, rdone, givenUp, rcleared, pushed, sentinel, pump, hand, stale,
               counts, redisClearing, mishaps, rclears>>

endings == <<rfailed, rdone, givenUp, rcleared>>
producer == <<pushed, sentinel>>
admin == <<redisClearing, rclears>>

Entry(j, n) == [job |-> j, att |-> n]
NoEntry == [job |-> CHOOSE j \in RJobs : TRUE, att |-> 0]
Steps == {"idle", "check", "zpop", "rpush", "readd", "blpop", "quarantine", "run", "retry", "fail"}
Carrying == {"rpush", "readd", "quarantine", "run", "retry", "fail"}

RedisInit ==
    /\ rlist = <<>> /\ zset = {} /\ rfailed = {} /\ rdone = {} /\ givenUp = {} /\ rcleared = {}
    /\ pushed = [j \in RJobs |-> 0] /\ sentinel = {}
    /\ pump = [w \in RWorkers |-> "idle"] /\ hand = [w \in RWorkers |-> NoEntry]
    /\ stale = [w \in RWorkers |-> FALSE]
    /\ counts = [w \in RWorkers |-> [j \in RJobs |-> 0]]
    /\ redisClearing = {} /\ mishaps = [k \in Kinds |-> 0] /\ rclears = 0

Times(k) == IF k \in Kinds THEN mishaps[k] ELSE 0

Total == Times("failed") + Times("unanswered") + Times("crash") + Times("stop")

Mishap(k) ==
    /\ k \in Kinds /\ Total < MaxMishaps
    /\ mishaps' = [mishaps EXCEPT ![k] = @ + 1]

(* ZADD: the score of a member that is there is replaced. *)
ZAdd(e, d) == zset' = {z \in zset : z.entry # e} \cup {[entry |-> e, left |-> d]}

Moving == {"check", "zpop", "rpush"}

(* Worker w goes on to s with e in hand; outside moveDelayedJobs no clock  *)
(* is kept.                                                                *)
Turn(w, s, e) ==
    /\ pump' = [pump EXCEPT ![w] = s] /\ hand' = [hand EXCEPT ![w] = e]
    /\ stale' = [stale EXCEPT ![w] = @ /\ s \in Moving]

-----------------------------------------------------------------------------
(* Producers *)

(* PushCtx or PushDelayedCtx; a caller that sees an error gives up. *)
PushRedis(j) ==
    /\ j \notin Deduped /\ pushed[j] = 0
    /\ \/ rlist' = Append(rlist, Entry(j, 0)) /\ UNCHANGED zset
       \/ \E d \in RDelays : ZAdd(Entry(j, 0), d) /\ UNCHANGED rlist
    /\ pushed' = [pushed EXCEPT ![j] = 1]
    /\ UNCHANGED mishaps \/ Mishap("unanswered")
    /\ UNCHANGED <<endings, sentinel, pump, hand, stale, counts, admin>>

DedupePushed(j) ==
    /\ rlist' = Append(rlist, Entry(j, 0)) /\ pushed' = [pushed EXCEPT ![j] = @ + 1]
    /\ sentinel' = sentinel \cup {j}

(* redisDedupePushScript, where the sentinel is not set: sentinel and      *)
(* entry, or neither when RPUSH errs inside the script.                    *)
RunScript(j) ==
    \/ DedupePushed(j) /\ (UNCHANGED mishaps \/ Mishap("unanswered"))
    \/ Mishap("failed") /\ UNCHANGED <<rlist, pushed, sentinel>>

(* PushIfNotExistsCtx; its caller may call again at any time. *)
PushIfNotExists(j) ==
    /\ j \in Deduped /\ j \notin sentinel
    /\ RunScript(j)
    /\ UNCHANGED <<zset, endings, pump, hand, stale, counts, admin>>

-----------------------------------------------------------------------------
(* A pop: moveDelayedJobs, then BLPOP *)

StartPop(w) ==
    /\ pump[w] = "idle" /\ Turn(w, "check", NoEntry)
    /\ UNCHANGED <<rlist, zset, endings, producer, counts, admin, mishaps>>

(* The least score of the set; the workers' clock may be behind. *)
Lowest == {z \in zset : \A y \in zset : z.left <= y.left}

(* ZRANGE: is the least score due?  An error ends the move. *)
CheckDelayed(w) ==
    /\ pump[w] = "check"
    /\ \/ (\E z \in Lowest : z.left = 0) /\ Turn(w, "zpop", NoEntry) /\ UNCHANGED mishaps
       \/ ((\A z \in Lowest : z.left > 0) \/ stale[w]) /\ Turn(w, "blpop", NoEntry) /\ UNCHANGED mishaps
       \/ Mishap("failed") /\ Turn(w, "blpop", NoEntry)
    /\ UNCHANGED <<rlist, zset, endings, producer, counts, admin>>

(* Bug: the entry is read and left in the set until it is on the list. *)
ZPopMinPeeks(w) ==
    /\ pump[w] = "zpop"
    /\ \/ \E z \in Lowest : Turn(w, "rpush", z.entry)
       \/ zset = {} /\ Turn(w, "blpop", NoEntry)
    /\ UNCHANGED <<rlist, zset, endings, producer, counts, admin, mishaps>>

(* ZPOPMIN takes the least entry as it is now, due or not. *)
ZPopMin(w) ==
    /\ pump[w] = "zpop"
    /\ \/ \E z \in Lowest : zset' = zset \ {z} /\ Turn(w, "rpush", z.entry) /\ UNCHANGED mishaps
       \/ zset = {} /\ Turn(w, "blpop", NoEntry) /\ UNCHANGED <<zset, mishaps>>
       \/ Mishap("failed") /\ Turn(w, "blpop", NoEntry) /\ UNCHANGED zset
       \/ \E z \in Lowest : Mishap("unanswered") /\ zset' = zset \ {z} /\ Turn(w, "blpop", NoEntry)
    /\ UNCHANGED <<rlist, endings, producer, counts, admin>>

(* Bug: an RPUSH error ends the move with the entry in hand. *)
RPushMovedDrops(w) ==
    /\ pump[w] = "rpush"
    /\ \/ rlist' = Append(rlist, hand[w]) /\ Turn(w, "check", NoEntry) /\ UNCHANGED mishaps
       \/ Mishap("failed") /\ Turn(w, "idle", NoEntry) /\ UNCHANGED rlist
    /\ UNCHANGED <<zset, endings, producer, counts, admin>>

RPushMoved(w) ==
    /\ pump[w] = "rpush"
    /\ \/ rlist' = Append(rlist, hand[w]) /\ Turn(w, "check", NoEntry) /\ UNCHANGED mishaps
       \/ Mishap("failed") /\ Turn(w, "readd", hand[w]) /\ UNCHANGED rlist
       \/ Mishap("unanswered") /\ rlist' = Append(rlist, hand[w]) /\ Turn(w, "readd", hand[w])
    /\ UNCHANGED <<zset, endings, producer, counts, admin>>

(* The recovery ZADD, with the score the entry had; the pop errs anyway. *)
ReAdd(w) ==
    /\ pump[w] = "readd" /\ Turn(w, "idle", NoEntry)
    /\ \/ ZAdd(hand[w], 0) /\ (UNCHANGED mishaps \/ Mishap("unanswered"))
       \/ Mishap("failed") /\ UNCHANGED zset
    /\ UNCHANGED <<rlist, endings, producer, counts, admin>>

BLPop(w) ==
    /\ pump[w] = "blpop"
    /\ \/ /\ rlist # <<>> /\ rlist' = Tail(rlist) /\ UNCHANGED mishaps
          /\ Turn(w, IF Head(rlist).job \in Poison THEN "quarantine" ELSE "run", Head(rlist))
       \/ rlist = <<>> /\ Turn(w, "idle", NoEntry) /\ UNCHANGED <<rlist, mishaps>>
       \/ Mishap("failed") /\ Turn(w, "idle", NoEntry) /\ UNCHANGED rlist
       \/ rlist # <<>> /\ Mishap("unanswered") /\ rlist' = Tail(rlist) /\ Turn(w, "idle", NoEntry)
    /\ UNCHANGED <<zset, endings, producer, counts, admin>>

-----------------------------------------------------------------------------
(* Running the job, and what the worker does with its outcome *)

Forget(w, j) == counts' = [counts EXCEPT ![w][j] = 0]

RunSucceeds(w) ==
    /\ pump[w] = "run" /\ Turn(w, "idle", NoEntry)
    /\ rdone' = rdone \cup {hand[w].job} /\ Forget(w, hand[w].job)
    /\ UNCHANGED <<rlist, zset, rfailed, givenUp, rcleared, producer, admin, mishaps>>

(* handleJobFailure: the attempt is counted in the worker's own cache. *)
RunFails(w) ==
    /\ pump[w] = "run"
    /\ LET j == hand[w].job
           attempt == counts[w][j] + 1
       IN \/ /\ attempt < RTries /\ Turn(w, "retry", hand[w])
             /\ counts' = [counts EXCEPT ![w][j] = attempt] /\ UNCHANGED givenUp
          \/ Turn(w, "fail", hand[w]) /\ Forget(w, j) /\ givenUp' = givenUp \cup {j}
    /\ UNCHANGED <<rlist, zset, rfailed, rdone, rcleared, producer, admin, mishaps>>

(* PushDelayedCtx of a fresh copy; any error fails the job. *)
RetryRedis(w) ==
    /\ pump[w] = "retry"
    /\ LET e == Entry(hand[w].job, hand[w].att + 1)
       IN \/ \E d \in RDelays : ZAdd(e, d) /\ Turn(w, "idle", NoEntry) /\ UNCHANGED <<counts, mishaps>>
          \/ Mishap("failed") /\ Turn(w, "fail", hand[w]) /\ Forget(w, e.job) /\ UNCHANGED zset
          \/ \E d \in RDelays : /\ Mishap("unanswered") /\ ZAdd(e, d)
                                /\ Turn(w, "fail", hand[w]) /\ Forget(w, e.job)
    /\ UNCHANGED <<rlist, endings, producer, admin>>

(* FailedCtx, or quarantinePoisonedPayload: an error is logged only. *)
RecordFailed(w) ==
    /\ pump[w] \in {"fail", "quarantine"} /\ Turn(w, "idle", NoEntry)
    /\ \/ rfailed' = rfailed \cup {hand[w].job} /\ (UNCHANGED mishaps \/ Mishap("unanswered"))
       \/ Mishap("failed") /\ UNCHANGED rfailed
    /\ UNCHANGED <<rlist, zset, rdone, givenUp, rcleared, producer, counts, admin>>

(* Worker shutdown while the handler runs: not retried, not failed. *)
AbortRun(w) ==
    /\ pump[w] = "run" /\ Mishap("stop") /\ Turn(w, "idle", NoEntry)
    /\ counts' = [counts EXCEPT ![w] = [j \in RJobs |-> 0]]
    /\ UNCHANGED <<rlist, zset, endings, producer, admin>>

(* The process dies and is started again. *)
CrashWorker(w) ==
    /\ pump[w] # "idle" /\ Mishap("crash") /\ Turn(w, "idle", NoEntry)
    /\ counts' = [counts EXCEPT ![w] = [j \in RJobs |-> 0]]
    /\ UNCHANGED <<rlist, zset, endings, producer, admin>>

-----------------------------------------------------------------------------
(* Clear and time *)

StartClear ==
    /\ redisClearing = {} /\ rclears < MaxRClears /\ rclears' = rclears + 1
    /\ redisClearing' = {"list", "zset", "failed"}
    /\ UNCHANGED <<rlist, zset, endings, producer, pump, hand, stale, counts, mishaps>>

(* The pipeline's DELs, one at a time; sentinels stay. *)
ClearStep ==
    \/ /\ "list" \in redisClearing /\ redisClearing' = redisClearing \ {"list"}
       /\ rlist' = <<>> /\ rcleared' = rcleared \cup {e.job : e \in ToSet(rlist)}
       /\ UNCHANGED <<zset, rfailed, rdone, givenUp, producer, pump, hand, stale, counts, mishaps, rclears>>
    \/ /\ redisClearing = {"zset", "failed"} /\ redisClearing' = {"failed"}
       /\ zset' = {} /\ rcleared' = rcleared \cup {z.entry.job : z \in zset}
       /\ UNCHANGED <<rlist, rfailed, rdone, givenUp, producer, pump, hand, stale, counts, mishaps, rclears>>
    \/ /\ redisClearing = {"failed"} /\ redisClearing' = {}
       /\ rfailed' = {} /\ rcleared' = rcleared \cup rfailed
       /\ UNCHANGED <<rlist, zset, rdone, givenUp, producer, pump, hand, stale, counts, mishaps, rclears>>

(* The connection fails before the rest of the pipeline is run. *)
ClearBreaks ==
    /\ redisClearing # {} /\ Mishap("failed") /\ redisClearing' = {}
    /\ UNCHANGED <<rlist, zset, endings, producer, pump, hand, stale, counts, rclears>>

SecondPasses ==
    /\ \E z \in zset : z.left > 0
    /\ zset' = {[z EXCEPT !.left = IF @ = 0 THEN 0 ELSE @ - 1] : z \in zset}
    /\ stale' = [w \in RWorkers |-> pump[w] \in Moving]
    /\ UNCHANGED <<rlist, endings, producer, pump, hand, counts, admin, mishaps>>

RedisPump(w) ==
    \/ StartPop(w) \/ CheckDelayed(w) \/ ZPopMin(w) \/ RPushMoved(w) \/ ReAdd(w) \/ BLPop(w)
    \/ RunSucceeds(w) \/ RunFails(w) \/ RetryRedis(w) \/ RecordFailed(w)

RedisNext ==
    \/ \E j \in RJobs : PushRedis(j) \/ PushIfNotExists(j)
    \/ \E w \in RWorkers : RedisPump(w) \/ AbortRun(w) \/ CrashWorker(w)
    \/ StartClear \/ ClearStep \/ ClearBreaks \/ SecondPasses

RedisSpec == RedisInit /\ [][RedisNext]_redisVars

(* Workers keep polling, handlers end, the pipeline is sent, time passes. *)
RedisFairness ==
    /\ \A w \in RWorkers : WF_redisVars(RedisPump(w))
    /\ WF_redisVars(ClearStep) /\ WF_redisVars(SecondPasses)

RedisLiveSpec == RedisSpec /\ RedisFairness

-----------------------------------------------------------------------------
(* Properties *)

InHand(j) == {w \in RWorkers : pump[w] \in Carrying /\ hand[w].job = j}

Copies(j) ==
    Len(SelectSeq(rlist, LAMBDA e : e.job = j)) + Cardinality({z \in zset : z.entry.job = j})
      + Cardinality(InHand(j))

Lost == {j \in RJobs : pushed[j] > 0 /\ Copies(j) = 0 /\ j \notin rdone \cup rfailed \cup rcleared}

(* Lists, set, workers and counters are well formed. *)
RedisTypeOK ==
    /\ \A e \in ToSet(rlist) : e.job \in RJobs /\ e.att \in Nat
    /\ \A z \in zset : z.entry.job \in RJobs /\ z.left \in Nat
    /\ pump \in [RWorkers -> Steps] /\ rfailed \cup rdone \cup rcleared \cup sentinel \subseteq RJobs

(* A job is in one place, and ends in one way, but for one more copy per   *)
(* reply that was lost: the ZPOPMIN, RPUSH, ZADD and BLPOP of several      *)
(* workers never make two of one entry.                                    *)
EntryOnce ==
    \A j \in RJobs :
        Copies(j) + Cardinality({j} \cap rdone) + Cardinality({j} \cap rfailed)
          <= 1 + Times("unanswered")

(* One failed command never loses a job, save the record of a job that     *)
(* will not run again: moveDelayedJobs puts back what it could not push,   *)
(* and a retry that cannot be pushed is recorded as failed.                *)
LossNeedsTwo ==
    Times("failed") < 2 /\ Total = Times("failed") => Lost \subseteq Poison \cup givenUp

(* A deduped job is put on the list exactly once if its sentinel is set,   *)
(* and never otherwise, whatever the caller was told (the Lua script).     *)
DedupeExact ==
    \A j \in Deduped : pushed[j] = IF j \in sentinel THEN 1 ELSE 0

(* Every entry leaves redis and the workers for good. *)
RedisDrains == \A j \in RJobs : Copies(j) > 0 ~> Copies(j) = 0

(* "Atomically pop the job if it's still ready": an entry leaves the       *)
(* delayed set for the list only when its time has come.                   *)
RedisDelayHonoured ==
    [][\A z \in zset : z.left > 0 /\ z.entry \notin {y.entry : y \in zset'} => redisClearing # {}]_redisVars

(* A job that a worker's shutdown aborts is still there for the next       *)
(* worker: without a failure of redis or of a process nothing is lost.     *)
AbortedJobKept == Total = Times("stop") => Lost = {}
=============================================================================
