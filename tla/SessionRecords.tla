--------------------------- MODULE SessionRecords ---------------------------
(***************************************************************************)
(* The session store over a shared cache (auth/drivers/session/cache.go,   *)
(* CacheStore): the records of one user, the index set that lists them and *)
(* the generation token that revokes them all.  Instances share nothing    *)
(* but the cache, whose calls are the atomic steps.  A read that fails     *)
(* cannot be told from an absent key.                                      *)
(***************************************************************************)
EXTENDS Naturals, FiniteSets

CONSTANTS
    Instances,      \* calls in progress at one time
    SessIds,        \* session ids
    OldIds,         \* ids of the user's records, if there are any, at the start
    None,           \* no record
    MaxCalls,       \* bound: calls made
    MaxReadFaults,  \* bound: reads that fail
    MaxIndexFaults  \* bound: additions to the index that fail

ASSUME CallsAssumption == OldIds \subseteq SessIds /\ MaxCalls \in Nat /\ MaxReadFaults \in Nat /\ MaxIndexFaults \in Nat

VARIABLES
    meta,    \* the record under each id: generation, saved changes, when it was put and last slid
    idx,     \* the user's index
    token,   \* the user's generation token; 0 = none, a later one is larger
    call,    \* what each instance is doing
    calls,   \* calls made
    savedBy, \* the changes UpdateData reported as saved since the record was put
    missed,  \* history: ids unlink took out and could not read, or list, again
    storeFaults   \* faults so far

recordVars == <<meta, idx, token, call, calls, savedBy, missed, storeFaults>>

NoCall == [op |-> "none", step |-> "idle", id |-> None, n |-> 0, rec |-> None, gen |-> 0, began |-> 0,
           todo |-> {}, stale |-> {}, ids |-> {}, gone |-> {}, after |-> "idle"]

RecordsInit ==
    /\ \E old \in {{}, OldIds} :
        /\ meta = [i \in SessIds |-> IF i \in old THEN [gen |-> 1, data |-> {}, put |-> 0, seen |-> 0] ELSE None]
        /\ idx = old /\ token = IF old = {} THEN 0 ELSE 1
    /\ call = [p \in Instances |-> NoCall] /\ calls = 0
    /\ savedBy = [i \in SessIds |-> {}] /\ missed = {} /\ storeFaults = [read |-> 0, index |-> 0]

-----------------------------------------------------------------------------
(* A call's frame *)

AtStep(p, s) == call[p].step = s
Becomes(p, f) == call' = [call EXCEPT ![p] = f]
Goes(p, s) == Becomes(p, [call[p] EXCEPT !.step = s])
Returns(p) == Becomes(p, NoCall)

(* unlink(ids), and what follows it. *)
Unlinking(f, ids, after) == [f EXCEPT !.step = "look", !.ids = ids, !.gone = {}, !.after = after]

(* ListForUser and DeleteAllForUser go on to the next member, and unlink    *)
(* the ones without a record at the end.                                    *)
Proceeds(p, f) ==
    \/ \E i \in f.todo : Becomes(p, [f EXCEPT !.id = i, !.todo = @ \ {i}, !.step = "read"])
    \/ f.todo = {} /\ f.stale # {} /\ Becomes(p, Unlinking(f, f.stale, "return"))
    \/ f.todo = {} /\ f.stale = {} /\ Returns(p)

MarkStale(f) == [f EXCEPT !.stale = @ \union {f.id}]

(* A read of a key that holds v answers r: a failed one answers absent. *)
Answered(v, r, absent) ==
    \/ r = v /\ UNCHANGED storeFaults
    \/ /\ r = absent /\ v # absent /\ storeFaults.read < MaxReadFaults
       /\ storeFaults' = [storeFaults EXCEPT !.read = @ + 1]

FirstStep(op) ==
    CASE op = "put" -> "ensure"
      [] op \in {"get", "touch", "update", "deleteIf"} -> "read"
      [] op = "delete" -> "owner"
      [] op = "deleteAll" -> "rotate"
      [] op = "list" -> "members"

Begins(p, op, i) ==
    /\ call[p].step \in {"idle", "served"} /\ calls < MaxCalls
    /\ calls' = calls + 1
    /\ Becomes(p, [NoCall EXCEPT !.op = op, !.step = FirstStep(op), !.id = i, !.n = calls', !.began = token])
    /\ UNCHANGED <<meta, idx, token, savedBy, missed, storeFaults>>

-----------------------------------------------------------------------------
(* liveRaw and evict *)

ReadRecord(p) ==
    /\ AtStep(p, "read")
    /\ \E r \in {meta[call[p].id], None} :
        /\ Answered(meta[call[p].id], r, None)
        /\ IF r # None THEN Becomes(p, [call[p] EXCEPT !.rec = r, !.step = "compare"])
           ELSE IF call[p].op \in {"list", "deleteAll"} THEN Proceeds(p, MarkStale(call[p]))
           ELSE Returns(p)
    /\ UNCHANGED <<meta, idx, token, calls, savedBy, missed>>

(* What a call does with a record under the current token. *)
Accepts(p) ==
    \/ call[p].op = "get" /\ Goes(p, "served")
    \/ call[p].op \in {"touch", "update"} /\ Goes(p, "swap")
    \/ call[p].op = "deleteIf" /\ (Goes(p, "remove") \/ Returns(p))
    \/ call[p].op \in {"list", "deleteAll"} /\ Proceeds(p, call[p])

(* A record under another token is evicted; DeleteAllForUser removes it. *)
Rejects(p) == Goes(p, IF call[p].op = "deleteAll" THEN "remove" ELSE "evict")

(* Bug: a token that cannot be read passes. *)
CompareTokenOpen(p) ==
    /\ AtStep(p, "compare")
    /\ \E g \in {token, 0} :
        /\ Answered(token, g, 0)
        /\ IF g \in {0, call[p].rec.gen} THEN Accepts(p) ELSE Rejects(p)
    /\ UNCHANGED <<meta, idx, token, calls, savedBy, missed>>

(* The token is read after the record; one that cannot be read matches none. *)
CompareToken(p) ==
    /\ AtStep(p, "compare")
    /\ \E g \in {token, 0} :
        /\ Answered(token, g, 0)
        /\ IF g = call[p].rec.gen THEN Accepts(p) ELSE Rejects(p)
    /\ UNCHANGED <<meta, idx, token, calls, savedBy, missed>>

(* evict: CompareAndDelete of the record read; the answer stands either way. *)
Evict(p) ==
    LET f == IF call[p].op = "list" THEN MarkStale(call[p]) ELSE call[p] IN
    /\ AtStep(p, "evict")
    /\ IF meta[f.id] = f.rec
       THEN /\ meta' = [meta EXCEPT ![f.id] = None]
            /\ Becomes(p, Unlinking(f, {f.id}, IF f.op = "list" THEN "proceed" ELSE "return"))
       ELSE /\ IF f.op = "list" THEN Proceeds(p, f) ELSE Returns(p)
            /\ UNCHANGED meta
    /\ UNCHANGED <<idx, token, calls, savedBy, missed, storeFaults>>

(* The CompareAndDelete of DeleteIf, which reads again when it lost, and of *)
(* DeleteAllForUser, which leaves the newer record.                         *)
RemoveRead(p) ==
    LET f == call[p] IN
    /\ AtStep(p, "remove")
    /\ IF meta[f.id] = f.rec
       THEN /\ meta' = [meta EXCEPT ![f.id] = None]
            /\ IF f.op = "deleteIf" THEN Becomes(p, Unlinking(f, {f.id}, "return"))
               ELSE Proceeds(p, MarkStale(f))
       ELSE /\ IF f.op = "deleteIf" THEN Goes(p, "read") ELSE Proceeds(p, f)
            /\ UNCHANGED meta
    /\ UNCHANGED <<idx, token, calls, savedBy, missed, storeFaults>>

-----------------------------------------------------------------------------
(* slide *)

(* The record as read with the call's change; LastSeenAt only moves forward. *)
Slid(f) == [f.rec EXCEPT !.data = IF f.op = "update" THEN @ \union {f.n} ELSE @,
                         !.seen = IF f.n > @ THEN f.n ELSE @]

(* Bug: the write only asks that a record is there. *)
SwapPresent(p) ==
    LET f == call[p] IN
    /\ AtStep(p, "swap")
    /\ IF meta[f.id] # None
       THEN /\ meta' = [meta EXCEPT ![f.id] = Slid(f)]
            /\ savedBy' = [savedBy EXCEPT ![f.id] = IF f.op = "update" THEN @ \union {f.n} ELSE @]
            /\ Goes(p, "extend")
       ELSE Goes(p, "read") /\ UNCHANGED <<meta, savedBy>>
    /\ UNCHANGED <<idx, token, calls, missed, storeFaults>>

(* CompareAndSwap against what was read; a lost one reads again. *)
Swap(p) ==
    LET f == call[p] IN
    /\ AtStep(p, "swap")
    /\ IF meta[f.id] = f.rec
       THEN /\ meta' = [meta EXCEPT ![f.id] = Slid(f)]
            /\ savedBy' = [savedBy EXCEPT ![f.id] = IF f.op = "update" THEN @ \union {f.n} ELSE @]
            /\ Goes(p, "extend")
       ELSE Goes(p, "read") /\ UNCHANGED <<meta, savedBy>>
    /\ UNCHANGED <<idx, token, calls, missed, storeFaults>>

(* A write of the index that fails. *)
IndexDown == storeFaults.index < MaxIndexFaults /\ storeFaults' = [storeFaults EXCEPT !.index = @ + 1]

(* A SetAdd that may fail: Put takes its record back, the others log it. *)
AddMember(p, s, failed) ==
    /\ AtStep(p, s)
    /\ \/ /\ idx' = idx \union {call[p].id} /\ missed' = missed \ {call[p].id}
          /\ Goes(p, "served") /\ UNCHANGED storeFaults
       \/ IndexDown /\ Goes(p, failed) /\ UNCHANGED <<idx, missed>>
    /\ UNCHANGED <<meta, token, calls, savedBy>>

ExtendIndex(p) == AddMember(p, "extend", "served")

-----------------------------------------------------------------------------
(* Put *)

Issues(p, g) == Becomes(p, [call[p] EXCEPT !.gen = g, !.step = "write"])

EnsureGeneration(p) ==
    /\ AtStep(p, "ensure")
    /\ \E g \in {token, 0} : Answered(token, g, 0) /\ IF g # 0 THEN Issues(p, g) ELSE Goes(p, "create")
    /\ UNCHANGED <<meta, idx, token, calls, savedBy, missed>>

(* Add if absent: a token that only could not be read stays. *)
CreateGeneration(p) ==
    /\ AtStep(p, "create") /\ Goes(p, "reread")
    /\ token' = IF token = 0 THEN call[p].n ELSE token
    /\ UNCHANGED <<meta, idx, calls, savedBy, missed, storeFaults>>

RereadGeneration(p) ==
    /\ AtStep(p, "reread")
    /\ \E g \in {token, 0} : Answered(token, g, 0) /\ IF g # 0 THEN Issues(p, g) ELSE Returns(p)
    /\ UNCHANGED <<meta, idx, token, calls, savedBy, missed>>

WriteRecord(p) ==
    LET f == call[p] IN
    /\ AtStep(p, "write") /\ Goes(p, "index")
    /\ meta' = [meta EXCEPT ![f.id] = [gen |-> f.gen, data |-> {}, put |-> f.n, seen |-> f.n]]
    /\ savedBy' = [savedBy EXCEPT ![f.id] = {}]
    /\ UNCHANGED <<idx, token, calls, missed, storeFaults>>

IndexRecord(p) == AddMember(p, "index", "rollback")

RollBack(p) ==
    LET f == call[p] written == [gen |-> f.gen, data |-> {}, put |-> f.n, seen |-> f.n] IN
    /\ AtStep(p, "rollback") /\ Returns(p)
    /\ meta' = IF meta[f.id] = written THEN [meta EXCEPT ![f.id] = None] ELSE meta
    /\ UNCHANGED <<idx, token, calls, savedBy, missed, storeFaults>>

-----------------------------------------------------------------------------
(* Delete, DeleteAllForUser, ListForUser *)

(* Delete reads whose record it is, only to name the index. *)
ReadOwner(p) ==
    /\ AtStep(p, "owner")
    /\ \E r \in {meta[call[p].id], None} :
        /\ Answered(meta[call[p].id], r, None)
        /\ Becomes(p, [call[p] EXCEPT !.rec = r, !.step = "forget"])
    /\ UNCHANGED <<meta, idx, token, calls, savedBy, missed>>

Forget(p) ==
    LET f == call[p] IN
    /\ AtStep(p, "forget") /\ meta' = [meta EXCEPT ![f.id] = None]
    /\ IF f.rec = None THEN Returns(p) ELSE Becomes(p, Unlinking(f, {f.id}, "return"))
    /\ UNCHANGED <<idx, token, calls, savedBy, missed, storeFaults>>

(* The new token is drawn by this call: larger than every earlier one. *)
RotateToken(p) ==
    /\ AtStep(p, "rotate") /\ token' = token + MaxCalls /\ Goes(p, "members")
    /\ UNCHANGED <<meta, idx, calls, savedBy, missed, storeFaults>>

LoadMembers(p) ==
    /\ AtStep(p, "members") /\ Proceeds(p, [call[p] EXCEPT !.todo = idx])
    /\ UNCHANGED <<meta, idx, token, calls, savedBy, missed, storeFaults>>

-----------------------------------------------------------------------------
(* unlink *)

(* The ids without a record of the user are taken out. *)
Look(p) ==
    LET f == call[p] IN
    /\ AtStep(p, "look") /\ f.ids # {}
    /\ \E i \in f.ids : \E r \in {meta[i], None} :
        /\ Answered(meta[i], r, None)
        /\ Becomes(p, [f EXCEPT !.ids = @ \ {i}, !.gone = IF r = None THEN @ \union {i} ELSE @])
    /\ UNCHANGED <<meta, idx, token, calls, savedBy, missed>>

Unlinked(p) == \/ call[p].after = "proceed" /\ Proceeds(p, call[p])
               \/ call[p].after = "return" /\ Returns(p)

(* Bug: the ids are not looked at again once they are out. *)
DropMembersOnly(p) ==
    /\ AtStep(p, "look") /\ call[p].ids = {} /\ Unlinked(p)
    /\ \/ idx' = idx \ call[p].gone /\ UNCHANGED storeFaults
       \/ IndexDown /\ UNCHANGED idx
    /\ UNCHANGED <<meta, token, calls, savedBy, missed>>

(* A SetRemove that fails is logged. *)
DropMembers(p) ==
    /\ AtStep(p, "look") /\ call[p].ids = {}
    /\ IF call[p].gone = {}
       THEN Unlinked(p) /\ UNCHANGED <<idx, storeFaults>>
       ELSE /\ Goes(p, "relook")
            /\ \/ idx' = idx \ call[p].gone /\ UNCHANGED storeFaults
               \/ IndexDown /\ UNCHANGED idx
    /\ UNCHANGED <<meta, token, calls, savedBy, missed>>

(* A record that is there after all gets its membership back. *)
LookAgain(p) ==
    LET f == call[p] IN
    /\ AtStep(p, "relook") /\ f.gone # {}
    /\ \E i \in f.gone : \E r \in {meta[i], None} :
        /\ Answered(meta[i], r, None)
        /\ Becomes(p, [f EXCEPT !.gone = @ \ {i}, !.ids = IF r = None THEN {} ELSE {i},
                                !.step = IF r = None THEN "relook" ELSE "relist"])
        /\ missed' = IF r # meta[i] THEN missed \union ({i} \ idx) ELSE missed
    /\ UNCHANGED <<meta, idx, token, calls, savedBy>>

(* The SetAdd of extendIndex; its failure is logged. *)
RelistMember(p) ==
    /\ AtStep(p, "relist") /\ Goes(p, "relook")
    /\ \/ /\ idx' = idx \union call[p].ids /\ missed' = missed \ call[p].ids
          /\ UNCHANGED storeFaults
       \/ IndexDown /\ missed' = missed \union (call[p].ids \ idx) /\ UNCHANGED idx
    /\ UNCHANGED <<meta, token, calls, savedBy>>

EndUnlink(p) ==
    /\ AtStep(p, "relook") /\ call[p].gone = {} /\ Unlinked(p)
    /\ UNCHANGED <<meta, idx, token, calls, savedBy, missed, storeFaults>>

-----------------------------------------------------------------------------
RecordsNext ==
    \E p \in Instances :
        \/ \E op \in {"put", "get", "touch", "update", "deleteIf", "delete"}, i \in SessIds : Begins(p, op, i)
        \/ \E op \in {"deleteAll", "list"} : Begins(p, op, None)
        \/ ReadRecord(p) \/ CompareToken(p) \/ Evict(p) \/ RemoveRead(p) \/ Swap(p) \/ ExtendIndex(p)
        \/ EnsureGeneration(p) \/ CreateGeneration(p) \/ RereadGeneration(p)
        \/ WriteRecord(p) \/ IndexRecord(p) \/ RollBack(p)
        \/ ReadOwner(p) \/ Forget(p) \/ RotateToken(p) \/ LoadMembers(p)
        \/ Look(p) \/ DropMembers(p) \/ LookAgain(p) \/ RelistMember(p) \/ EndUnlink(p)

RecordsSpec == RecordsInit /\ [][RecordsNext]_recordVars

-----------------------------------------------------------------------------
(* A save that was reported stays in the record, whatever touches, saves,   *)
(* revocations and removals overlap it, until a Put writes the record anew  *)
(* (slide, slideOnce).                                                      *)
SavesKept == \A i \in SessIds : meta[i] # None => savedBy[i] \subseteq meta[i].data

(* A call that began after a sign-out-everywhere rotated the token never    *)
(* answers with, or writes, a record issued before it, also when the token  *)
(* cannot be read and when the Put of the record was still under way        *)
(* (liveRaw, ensureGeneration, DeleteAllForUser).                           *)
RevokedNotServed ==
    \A p \in Instances :
        call[p].op \in {"get", "touch", "update"} /\ call[p].step \in {"swap", "extend", "served"} =>
            call[p].rec.gen >= call[p].began

(* With no call under way every live record is in the user's index, so it   *)
(* can be listed: also one that was put between the look of an unlink and   *)
(* its removal of the id, which the second look gives its membership back.  *)
(* Left out are the ids whose second look could not read the record, or     *)
(* could not list it: they wait for the next write (unlink, Put, slide).    *)
(* Stated for one failed index write (MaxIndexFaults = 1): two can undo it, *)
(* a Put's and that of a slide that came before the Put took its record back. *)
LiveListed ==
    (\A p \in Instances : call[p].step \in {"idle", "served"}) =>
        \A i \in SessIds \ missed : meta[i] # None /\ meta[i].gen = token => i \in idx
=============================================================================
