------------------------------ MODULE FileCache ------------------------------
(***************************************************************************)
(* One key of the file cache, read and written by several processes over   *)
(* one directory (cache/drivers/file.go, file_swap.go, file_keylock.go).   *)
(* Every write holds the flock of the key's stripe and then the mutex of   *)
(* its process's store from its read to its rename; reads take neither,    *)
(* and cleanup takes the stripe without waiting.  A file is written to a   *)
(* temp file and renamed or linked into place, so a read sees a whole      *)
(* item; without hard links an Add creates the file empty and fills it.    *)
(***************************************************************************)
EXTENDS Naturals, FiniteSets

CONSTANTS
    Clients,   \* goroutines of the processes
    Processes, \* each holds one FileStore over the directory
    ProcessOf, \* ProcessOf[c]: the process of client c
    NoClient,
    HardLinks, \* the filesystem has hard links
    Vals,      \* numbers a value may hold
    MaxOps,    \* bound: operations per client
    MaxFileFaults  \* bound: crashes and failed writes

ASSUME FileCacheAssumption ==
    /\ NoClient \notin Clients /\ ProcessOf \in [Clients -> Processes]
    /\ HardLinks \in BOOLEAN /\ Vals \subseteq Nat /\ {0, 1} \subseteq Vals
    /\ MaxOps \in Nat /\ MaxFileFaults \in Nat

VARIABLES
    entry,   \* the entry's file
    tmp,     \* tmp[c]: the temp file c wrote: "none", "fresh" or "stale"
    stripe,  \* the holder of the stripe's flock
    mutex,   \* mutex[p]: the holder of the store mutex of process p
    at,      \* at[c]: where client c is
    doing,   \* doing[c]: the operation c is in
    seen,    \* seen[c]: what its read under the locks returned
    ops, fileFaults

fileVars == <<entry, tmp, stripe, mutex, at, doing, seen, ops, fileFaults>>

(* A file is absent, empty, or holds a value (val is its singleton) or a   *)
(* set.  past: its expiry, or for an empty file the grace, has passed.     *)
Absent == [is |-> "none", val |-> {}, mortal |-> FALSE, past |-> FALSE]
Empty == [Absent EXCEPT !.is = "zero"]
Item(kind, v, m) == [is |-> kind, val |-> v, mortal |-> m, past |-> FALSE]

Items == [is: {"none", "zero", "value", "set"}, val: SUBSET Vals, mortal: BOOLEAN, past: BOOLEAN]

LiveItem(e) == e.is \in {"value", "set"} /\ ~e.past

(* Unreadable past the grace, or expired: what the sweep removes. *)
Eligible(e) == e.is # "none" /\ e.past

Operations ==
    [name: {"put", "add"}, val: {0}, mortal: BOOLEAN]
      \cup [name: {"setAdd", "setRemove"}, val: Vals, mortal: {TRUE}]
      \cup [name: {"swap", "delete", "increment", "forget", "get", "sweep", "flush"}, val: {0}, mortal: {TRUE}]

NoOp == [name |-> "get", val |-> 0, mortal |-> TRUE]

FileInit ==
    /\ entry = Absent /\ tmp = [c \in Clients |-> "none"]
    /\ stripe = NoClient /\ mutex = [p \in Processes |-> NoClient]
    /\ at = [c \in Clients |-> "idle"] /\ doing = [c \in Clients |-> NoOp]
    /\ seen = [c \in Clients |-> Absent]
    /\ ops = [c \in Clients |-> 0] /\ fileFaults = 0

Goto(c, l) == at' = [at EXCEPT ![c] = l]

-----------------------------------------------------------------------------
(* What an operation does with the item it read: the file it leaves *)

Matched(o, e) == LiveItem(e) /\ e.is = "value" /\ e.val = {o.val}

LiveSet(e) == LiveItem(e) /\ e.is = "set"

(* The operation leaves the file alone. *)
Refused(o, e) ==
    \/ o.name = "add" /\ (LiveItem(e) \/ e.is = "zero")
    \/ o.name \in {"swap", "delete"} /\ ~Matched(o, e)
    \/ o.name = "increment" /\ LiveItem(e) /\ (e.is = "set" \/ \E v \in e.val : v + 1 \notin Vals)
    \/ o.name = "setRemove" /\ ~LiveSet(e)

(* The operation ends in a removal; the last member takes its set along. *)
Removes(o, e) ==
    \/ o.name \in {"delete", "forget", "flush"}
    \/ o.name = "setRemove" /\ e.val \subseteq {o.val}

Written(o, e) ==
    CASE o.name = "increment" ->
           IF LiveItem(e) THEN Item("value", {v + 1 : v \in e.val}, e.mortal)
                          ELSE Item("value", {1}, FALSE)
      [] o.name = "setAdd" ->
           IF LiveSet(e) THEN Item("set", e.val \cup {o.val}, e.mortal)
                         ELSE Item("set", {o.val}, o.mortal)
      [] o.name = "setRemove" -> Item("set", e.val \ {o.val}, e.mortal)
      [] o.name = "swap" -> Item("value", {CHOOSE v \in Vals : v # o.val}, o.mortal)
      [] OTHER -> Item("value", {o.val}, o.mortal)

-----------------------------------------------------------------------------
(* Locking: the stripe, then the mutex *)

StaleTemp == \E d \in Clients : tmp[d] = "stale"

(* Reads and the walks of the sweep and of Flush look without a lock.  A   *)
(* sweep is the handling of one of the candidates its walk found.          *)
Begin(c, o) ==
    /\ at[c] = "idle" /\ ops[c] < MaxOps
    /\ ops' = [ops EXCEPT ![c] = @ + 1]
    /\ doing' = [doing EXCEPT ![c] = o]
    /\ CASE o.name = "get" ->
              /\ mutex[ProcessOf[c]] = NoClient
              /\ IF entry.is # "zero" /\ Eligible(entry) THEN Goto(c, "try") ELSE Goto(c, "idle")
         [] o.name = "sweep" ->
              \/ Eligible(entry) /\ Goto(c, "try")
              \/ StaleTemp /\ Goto(c, "tryTemp")
              \/ ~Eligible(entry) /\ ~StaleTemp /\ Goto(c, "idle")
         [] o.name = "flush" ->
              Goto(c, IF entry.is # "none" THEN "stripe" ELSE IF StaleTemp THEN "tryTemp" ELSE "idle")
         [] OTHER -> Goto(c, "stripe")
    /\ UNCHANGED <<entry, tmp, stripe, mutex, seen, fileFaults>>

(* Bug: a removal outside a write goes on without the stripe. *)
TryStripeIgnored(c) ==
    /\ at[c] = "try" /\ Goto(c, "mutex")
    /\ UNCHANGED <<entry, tmp, stripe, mutex, doing, seen, ops, fileFaults>>

(* flockStripe, one attempt: a busy stripe leaves the file for later. *)
TryStripe(c) ==
    /\ at[c] = "try"
    /\ IF stripe = NoClient
         THEN stripe' = c /\ Goto(c, "mutex")
         ELSE Goto(c, "idle") /\ UNCHANGED stripe
    /\ UNCHANGED <<entry, tmp, mutex, doing, seen, ops, fileFaults>>

(* lockStripe waits for the holder, up to its bound or the context. *)
LockStripe(c) ==
    /\ at[c] = "stripe"
    /\ \/ stripe = NoClient /\ stripe' = c /\ Goto(c, "mutex")
       \/ stripe # NoClient /\ Goto(c, "idle") /\ UNCHANGED stripe
    /\ UNCHANGED <<entry, tmp, mutex, doing, seen, ops, fileFaults>>

LockMutex(c) ==
    /\ at[c] = "mutex" /\ mutex[ProcessOf[c]] = NoClient
    /\ mutex' = [mutex EXCEPT ![ProcessOf[c]] = c]
    /\ Goto(c, "read")
    /\ UNCHANGED <<entry, tmp, stripe, doing, seen, ops, fileFaults>>

(* Both locks go together: nothing happens between the two releases. *)
Unlock(c) ==
    /\ at[c] = "unlock"
    /\ mutex' = [p \in Processes |-> IF mutex[p] = c THEN NoClient ELSE mutex[p]]
    /\ stripe' = IF stripe = c THEN NoClient ELSE stripe
    /\ seen' = [seen EXCEPT ![c] = Absent]
    /\ doing' = [doing EXCEPT ![c] = NoOp]
    /\ Goto(c, "idle")
    /\ UNCHANGED <<entry, tmp, ops, fileFaults>>

-----------------------------------------------------------------------------
(* The read, the write and the removal under the locks *)

(* Cleanup looks again at what it saw without the locks.  An Add goes to   *)
(* its exclusive create before it reads the file.                          *)
AfterRead(o) ==
    CASE o.name = "get" -> IF Eligible(entry) /\ entry.is # "zero" THEN "remove" ELSE "unlock"
      [] o.name = "sweep" -> IF Eligible(entry) THEN "remove" ELSE "unlock"
      [] o.name # "add" /\ Refused(o, entry) -> "unlock"
      [] Removes(o, entry) -> "remove"
      [] OTHER -> "temp"

ReadEntry(c) ==
    /\ at[c] = "read"
    /\ seen' = [seen EXCEPT ![c] = entry]
    /\ Goto(c, AfterRead(doing[c]))
    /\ UNCHANGED <<entry, tmp, stripe, mutex, doing, ops, fileFaults>>

WriteFault(c) ==
    /\ fileFaults < MaxFileFaults /\ fileFaults' = fileFaults + 1
    /\ Goto(c, "unlock") /\ UNCHANGED <<entry, tmp>>

WriteTemp(c) ==
    /\ at[c] = "temp"
    /\ \/ tmp' = [tmp EXCEPT ![c] = "fresh"] /\ Goto(c, "place") /\ UNCHANGED <<entry, fileFaults>>
       \/ WriteFault(c)
    /\ UNCHANGED <<stripe, mutex, doing, seen, ops>>

(* Rename over the entry, or for an Add the link that refuses an existing  *)
(* one; without links an exclusive create of the empty file.  A rename     *)
(* fails when its temp file is gone.                                       *)
Place(c) ==
    LET o == doing[c]
        landed == entry' = Written(o, seen[c]) /\ Goto(c, "unlock")
    IN
    /\ at[c] = "place"
    /\ CASE o.name # "add" /\ tmp[c] = "none" -> Goto(c, "unlock") /\ UNCHANGED entry
         [] o.name # "add" /\ tmp[c] # "none" -> landed
         [] o.name = "add" /\ entry.is # "none" -> Goto(c, "check") /\ UNCHANGED entry
         [] o.name = "add" /\ entry.is = "none" ->
              IF HardLinks /\ tmp[c] # "none" THEN landed ELSE entry' = Empty /\ Goto(c, "fill")
    /\ tmp' = [tmp EXCEPT ![c] = IF at'[c] = "fill" THEN @ ELSE "none"]
    /\ seen' = [seen EXCEPT ![c] = IF at'[c] = "fill" THEN Empty ELSE @]
    /\ UNCHANGED <<stripe, mutex, doing, ops, fileFaults>>

(* The payload of an Add without hard links lands in the file it created;  *)
(* a write that fails removes the file.                                    *)
FillEntry(c) ==
    /\ at[c] = "fill" /\ Goto(c, "unlock")
    /\ tmp' = [tmp EXCEPT ![c] = "none"]
    /\ \/ /\ entry' = IF entry.is = "zero" THEN Written(doing[c], Absent) ELSE entry
          /\ UNCHANGED fileFaults
       \/ fileFaults < MaxFileFaults /\ fileFaults' = fileFaults + 1 /\ entry' = Absent
    /\ UNCHANGED <<stripe, mutex, doing, seen, ops>>

(* An Add that found a file reads it, and replaces an expired one. *)
CheckExisting(c) ==
    /\ at[c] = "check"
    /\ seen' = [seen EXCEPT ![c] = entry]
    /\ IF Refused(doing[c], entry)
         THEN Goto(c, "unlock") /\ UNCHANGED doing
         ELSE doing' = [doing EXCEPT ![c].name = "takeover"] /\ Goto(c, "temp")
    /\ UNCHANGED <<entry, tmp, stripe, mutex, ops, fileFaults>>

(* The temp files older than the grace. *)
Purged == [d \in Clients |-> IF tmp[d] = "stale" THEN "none" ELSE tmp[d]]

(* Flush also removes the stale temp files of the stripe it holds. *)
RemoveEntry(c) ==
    /\ at[c] = "remove"
    /\ entry' = Absent /\ Goto(c, "unlock")
    /\ tmp' = IF doing[c].name = "flush" THEN Purged ELSE tmp
    /\ UNCHANGED <<stripe, mutex, doing, seen, ops, fileFaults>>

(* A leftover goes only while the stripe is free; its lock is taken and    *)
(* released within the step.                                               *)
RemoveTemps(c) ==
    /\ at[c] = "tryTemp"
    /\ tmp' = IF stripe = NoClient THEN Purged ELSE tmp
    /\ Goto(c, "idle")
    /\ UNCHANGED <<entry, stripe, mutex, doing, seen, ops, fileFaults>>

-----------------------------------------------------------------------------
(* The environment *)

(* An expiry passes, or the grace of an empty file or of a temp file, of a *)
(* live writer that is held up too.                                        *)
TimePasses ==
    /\ \/ /\ ~entry.past /\ (entry.mortal \/ entry.is = "zero")
          /\ entry' = [entry EXCEPT !.past = TRUE] /\ UNCHANGED tmp
       \/ /\ \E c \in Clients : tmp[c] = "fresh"
          /\ tmp' = [c \in Clients |-> IF tmp[c] = "fresh" THEN "stale" ELSE tmp[c]]
          /\ UNCHANGED entry
    /\ UNCHANGED <<stripe, mutex, at, doing, seen, ops, fileFaults>>

(* A process dies: the kernel drops its flocks, its files stay. *)
CrashProcess(p) ==
    /\ fileFaults < MaxFileFaults /\ fileFaults' = fileFaults + 1
    /\ \E c \in Clients : ProcessOf[c] = p /\ at[c] \notin {"idle", "dead"}
    /\ at' = [c \in Clients |-> IF ProcessOf[c] = p THEN "dead" ELSE at[c]]
    /\ stripe' = IF stripe # NoClient /\ ProcessOf[stripe] = p THEN NoClient ELSE stripe
    /\ mutex' = [mutex EXCEPT ![p] = NoClient]
    /\ UNCHANGED <<entry, tmp, doing, seen, ops>>

ClientStep(c) ==
    \/ TryStripe(c) \/ LockStripe(c) \/ LockMutex(c) \/ Unlock(c)
    \/ ReadEntry(c) \/ WriteTemp(c) \/ Place(c) \/ FillEntry(c) \/ CheckExisting(c)
    \/ RemoveEntry(c) \/ RemoveTemps(c)

FileNext ==
    \/ \E c \in Clients : ClientStep(c) \/ \E o \in Operations : Begin(c, o)
    \/ TimePasses
    \/ \E p \in Processes : CrashProcess(p)

FileSpec == FileInit /\ [][FileNext]_fileVars

-----------------------------------------------------------------------------
(* Properties *)

(* The files and the clients are well formed. *)
FileTypeOK ==
    /\ entry \in Items /\ tmp \in [Clients -> {"none", "fresh", "stale"}]
    /\ stripe \in Clients \cup {NoClient}
    /\ at \in [Clients -> {"idle", "dead", "stripe", "try", "tryTemp", "mutex", "read", "temp",
                           "place", "fill", "check", "remove", "unlock"}]
    /\ seen \in [Clients -> Items]

(* "the swap is atomic against the exact stored value it matched, across   *)
(* instances and processes" (CompareAndSwapCtx), and so is every other     *)
(* operation that reads before it writes or removes: what it read is still *)
(* the file's content, apart from an expiry that passed meanwhile, when    *)
(* its write lands.                                                        *)
ReadStillCurrent ==
    \A c \in Clients :
        (at[c] \in {"fill", "remove"} \/ (at[c] \in {"temp", "place"} /\ doing[c].name # "add"))
          => [entry EXCEPT !.past = seen[c].past] = seen[c]

(* Cleanup never fails a write: the temp file of a live writer stays, even *)
(* past the grace, until the writer has renamed it (removeTempIfStale).    *)
LiveTempKept == \A c \in Clients : at[c] = "place" => tmp[c] # "none"

(* An entry that is not expired goes away only by an operation that means  *)
(* to remove it: neither the sweep nor the read of an expired entry        *)
(* removes a fresh write that landed after it looked (removeIfEligible,    *)
(* removeExpired).                                                         *)
LiveEntryKept ==
    [][\A c \in Clients :
         LiveItem(entry) /\ entry' = Absent /\ at[c] = "remove" /\ at'[c] # "remove"
           => doing[c].name \notin {"get", "sweep"}]_fileVars

(* "Add ... returns true if inserted, false if a non-expired entry was     *)
(* already present" (AddCtx): an Add never replaces a live entry, and of   *)
(* two that race for a fresh or an expired key one alone inserts.          *)
AddNeverOverwrites ==
    [][\A c \in Clients :
         doing[c].name \in {"add", "takeover"} /\ LiveItem(entry) /\ entry' # entry
           => at'[c] = at[c] \/ at'[c] = "dead"]_fileVars

(* The operations of racing processes on a key are as if made one by one:  *)
(* each acts on what it read, and none undoes a write it did not see.      *)
CacheSound == [](ReadStillCurrent /\ LiveTempKept) /\ LiveEntryKept /\ AddNeverOverwrites
=============================================================================
