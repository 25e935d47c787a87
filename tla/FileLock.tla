------------------------------ MODULE FileLock ------------------------------
(***************************************************************************)
(* The lock of one key in the file cache (cache/drivers/file_lock.go): a   *)
(* record naming its owner and the end of its TTL, read and changed under  *)
(* the flock of the key's stripe by Get, Release and ForceRelease.  The    *)
(* expiry sweep and Flush of the cache (file.go) also reach the record,    *)
(* under the store mutex alone.                                            *)
(***************************************************************************)
EXTENDS Naturals

CONSTANTS
    Lockers, \* the lock instances, each with an owner ID of its own
    Nobody   \* no holder, or one that crashed: its owner ID is gone

ASSUME FileLockAssumption == Nobody \notin Lockers

VARIABLES
    record,  \* the record's file: "none", "torn" or "held", its owner, its age
    guard,   \* the holder of the stripe's flock
    lockAt,  \* lockAt[l]: where the caller of l is
    wants,   \* wants[l]: the call it is in: "get", "release" or "force"
    holds,   \* holds[l]: Get returned true; not released, forced or past its TTL
    cleared, \* the holders whose record the sweep or Flush removed
    cleaner  \* where the sweep or the Flush of the cache is

lockVars == <<record, guard, lockAt, wants, holds, cleared, cleaner>>

NoRecord == [is |-> "none", owner |-> Nobody, past |-> FALSE]
Torn == [NoRecord EXCEPT !.is = "torn"]
HeldBy(l) == [is |-> "held", owner |-> l, past |-> FALSE]

LockInit ==
    /\ record = NoRecord /\ guard = Nobody
    /\ lockAt = [l \in Lockers |-> "idle"] /\ wants = [l \in Lockers |-> "get"]
    /\ holds = [l \in Lockers |-> FALSE] /\ cleared = {} /\ cleaner = "idle"

Step(l, a) == lockAt' = [lockAt EXCEPT ![l] = a]

-----------------------------------------------------------------------------
(* Get, Release and ForceRelease *)

CallLock(l, w) ==
    /\ lockAt[l] = "idle"
    /\ wants' = [wants EXCEPT ![l] = w] /\ Step(l, "guard")
    /\ UNCHANGED <<record, guard, holds, cleared, cleaner>>

(* guard: waits for another holder, up to fileKeyLockWait or the context. *)
TakeGuard(l) ==
    /\ lockAt[l] = "guard"
    /\ \/ guard = Nobody /\ guard' = l /\ Step(l, wants[l])
       \/ guard # Nobody /\ Step(l, "idle") /\ UNCHANGED guard
    /\ UNCHANGED <<record, wants, holds, cleared, cleaner>>

LeaveGuard(l) == guard' = Nobody /\ Step(l, "idle")

(* A record that is missing, torn or past its TTL leaves the lock free. *)
CheckRecord(l) ==
    /\ lockAt[l] = "get"
    /\ IF record.is = "held" /\ ~record.past
         THEN LeaveGuard(l)
         ELSE Step(l, "truncate") /\ UNCHANGED guard
    /\ UNCHANGED <<record, wants, holds, cleared, cleaner>>

(* os.WriteFile truncates, then writes; a failed write leaves it torn. *)
Truncate(l) ==
    /\ lockAt[l] = "truncate"
    /\ record' = Torn /\ Step(l, "write")
    /\ UNCHANGED <<guard, wants, holds, cleared, cleaner>>

(* The file the writer opened may have been unlinked under it. *)
WriteRecord(l) ==
    /\ lockAt[l] = "write" /\ LeaveGuard(l)
    /\ \/ /\ record' = IF record.is = "none" THEN record ELSE HeldBy(l)
          /\ holds' = [holds EXCEPT ![l] = TRUE]
          /\ cleared' = IF record.is = "none" THEN cleared \cup {l} ELSE cleared \ {l}
       \/ UNCHANGED <<record, holds, cleared>>
    /\ UNCHANGED <<wants, cleaner>>

(* Bug: the owner is not compared. *)
ReleaseAny(l) ==
    /\ lockAt[l] = "release" /\ LeaveGuard(l)
    /\ record' = NoRecord /\ holds' = [holds EXCEPT ![l] = FALSE]
    /\ cleared' = cleared \ {l}
    /\ UNCHANGED <<wants, cleaner>>

(* The record goes only while it names the caller. *)
ReleaseLock(l) ==
    /\ lockAt[l] = "release" /\ LeaveGuard(l)
    /\ record' = IF record.is = "held" /\ record.owner = l THEN NoRecord ELSE record
    /\ holds' = [holds EXCEPT ![l] = FALSE] /\ cleared' = cleared \ {l}
    /\ UNCHANGED <<wants, cleaner>>

ForceRelease(l) ==
    /\ lockAt[l] = "force" /\ LeaveGuard(l)
    /\ record' = NoRecord
    /\ holds' = [m \in Lockers |-> holds[m] /\ record.owner # m]
    /\ UNCHANGED <<wants, cleared, cleaner>>

-----------------------------------------------------------------------------
(* The sweep and the Flush of the cache *)

(* The walks look without a lock.  The sweep takes a record for an entry:  *)
(* a whole one never expires, a torn one is unreadable.                    *)
Walk ==
    /\ cleaner = "idle"
    /\ \/ record.is # "none" /\ cleaner' = "flush"
       \/ record.is = "torn" /\ record.past /\ cleaner' = "sweep"
    /\ UNCHANGED <<record, guard, lockAt, wants, holds, cleared>>

(* removeIfEligible reads the file again before it removes it. *)
LookAgain ==
    /\ cleaner = "sweep"
    /\ cleaner' = IF record.is = "torn" /\ record.past THEN "remove" ELSE "idle"
    /\ UNCHANGED <<record, guard, lockAt, wants, holds, cleared>>

RemoveRecord ==
    /\ cleaner \in {"flush", "remove"} /\ cleaner' = "idle"
    /\ record' = NoRecord
    /\ cleared' = cleared \cup {l \in Lockers : holds[l] /\ record = HeldBy(l)}
    /\ UNCHANGED <<guard, lockAt, wants, holds>>

-----------------------------------------------------------------------------
(* Time and crashes *)

(* A TTL passes, of the record and of the hold, or the grace of a torn     *)
(* record, whose writer crashed or is held up.                             *)
LockTimePasses ==
    \/ /\ record.is # "none" /\ ~record.past
       /\ record' = [record EXCEPT !.past = TRUE]
       /\ holds' = [l \in Lockers |-> holds[l] /\ record.owner # l]
       /\ UNCHANGED <<guard, lockAt, wants, cleared, cleaner>>
    \/ /\ \E l \in cleared :
            /\ holds[l] /\ holds' = [holds EXCEPT ![l] = FALSE]
            /\ cleared' = cleared \ {l}
       /\ UNCHANGED <<record, guard, lockAt, wants, cleaner>>

(* The kernel drops the flock; the record stays until its TTL. *)
CrashLocker(l) ==
    /\ guard' = IF guard = l THEN Nobody ELSE guard
    /\ Step(l, "idle") /\ wants' = [wants EXCEPT ![l] = "get"]
    /\ holds' = [holds EXCEPT ![l] = FALSE] /\ cleared' = cleared \ {l}
    /\ record' = IF record.owner = l THEN [record EXCEPT !.owner = Nobody] ELSE record
    /\ UNCHANGED cleaner

LockStep(l) ==
    \/ TakeGuard(l) \/ CheckRecord(l) \/ Truncate(l) \/ WriteRecord(l)
    \/ ReleaseLock(l) \/ ForceRelease(l)

LockNext ==
    \/ \E l \in Lockers : LockStep(l) \/ CrashLocker(l)
                            \/ \E w \in {"get", "release", "force"} : CallLock(l, w)
    \/ Walk \/ LookAgain \/ RemoveRecord
    \/ LockTimePasses

LockSpec == LockInit /\ [][LockNext]_lockVars

-----------------------------------------------------------------------------
(* Properties *)

(* The record, the guard and the callers are well formed. *)
LockTypeOK ==
    /\ record \in [is: {"none", "torn", "held"}, owner: Lockers \cup {Nobody}, past: BOOLEAN]
    /\ guard \in Lockers \cup {Nobody}
    /\ lockAt \in [Lockers -> {"idle", "guard", "get", "release", "force", "truncate", "write"}]
    /\ wants \in [Lockers -> {"get", "release", "force"}]
    /\ holds \in [Lockers -> BOOLEAN] /\ cleared \subseteq Lockers
    /\ cleaner \in {"idle", "flush", "sweep", "remove"}

(* A caller that holds the lock is the owner its record names, so no two   *)
(* hold it, unless the sweep or Flush of the cache has removed its record: *)
(* neither a release by a former holder, a force-release that races an     *)
(* acquisition, nor a crash while the record is written frees or takes a   *)
(* lock that is held.                                                      *)
HolderIsRecorded ==
    \A l \in Lockers : holds[l] => record = HeldBy(l) \/ l \in cleared

(* "A lock is held until its owner releases it, it is force-released, or   *)
(* its TTL passes" (FileLock).                                             *)
LockHeldUntilReleased == \A l \in Lockers : holds[l] => record = HeldBy(l)
=============================================================================
