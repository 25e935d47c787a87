--------------------------- MODULE RequestProofs ----------------------------
(***************************************************************************)
(* What a request relies on, for any number of requests, records and       *)
(* listeners: a session's saves stay and its revocation is final, and the  *)
(* listeners of a response run before it commits.  The two parts have no   *)
(* state in common, and each is about its own specification.               *)
(***************************************************************************)
EXTENDS SessionRecords, CommitListeners, SequenceTheorems, TLAPS

-----------------------------------------------------------------------------
(* Session records *)

(* A record in the cache carries the token it was issued under. *)
RecordOK(r) == r # None /\ DOMAIN r = {"gen", "data", "put", "seen"} /\ r.gen \in Nat \ {0}

(* Where a call keeps the record it read, where it names one id, and where  *)
(* a Put has yet to write its record.                                       *)
ReadSteps == {"compare", "evict", "remove", "swap", "extend"}
IdSteps == ReadSteps \union {"read", "ensure", "create", "reread", "write", "index", "rollback", "owner", "forget"}
PutSteps == {"ensure", "create", "reread", "write"}

Fields == {"op", "step", "id", "n", "rec", "gen", "began", "todo", "stale", "ids", "gone", "after"}

(* The frame of a call: what it holds at each of its steps. *)
FrameOK(f) ==
    /\ DOMAIN f = Fields
    /\ f.n \in Nat /\ f.gen \in Nat /\ f.began \in Nat /\ f.todo \subseteq SessIds
    /\ f.stale \subseteq SessIds /\ f.ids \subseteq SessIds /\ f.gone \subseteq SessIds
    /\ f.step \in IdSteps => f.id \in SessIds
    /\ f.step \in ReadSteps => RecordOK(f.rec)
    /\ f.op \in {"get", "touch", "update"} /\ f.step = "served" => RecordOK(f.rec)
    /\ f.step = "write" => f.gen # 0
    /\ f.step \in PutSteps \union {"index", "rollback"} => f.op = "put"

(* The cache and the calls are well formed. *)
RecordsShape ==
    /\ meta = [i \in SessIds |-> meta[i]] /\ \A i \in SessIds : meta[i] = None \/ RecordOK(meta[i])
    /\ idx \subseteq SessIds /\ token \in Nat /\ calls \in Nat
    /\ call = [p \in Instances |-> call[p]] /\ \A p \in Instances : FrameOK(call[p])
    /\ savedBy \in [SessIds -> SUBSET Nat]
    /\ storeFaults \in [read: Nat, index: Nat]

(* p makes a Put that has yet to write its record. *)
Drawing(p) == call[p].step \in PutSteps

(* No call began under a token that is still to come. *)
BeganBefore == \A p \in Instances : call[p].began <= token

(* What a call serves was issued no earlier than the call's own token. *)
Current(f) == f.op \in {"get", "touch", "update"} /\ f.step \in {"swap", "extend", "served"} => f.rec.gen >= f.began

RecordsInv == RecordsShape /\ BeganBefore /\ SavesKept /\ \A p \in Instances : Current(call[p])

-----------------------------------------------------------------------------
(* One call goes on to the frame g *)

(* The call of p moves to g; the token only grows, and the records keep     *)
(* the saves reported for them.                                             *)
Advances(p, g) ==
    /\ call' = [call EXCEPT ![p] = g] /\ FrameOK(g) /\ Current(g) /\ g.began <= token'
    /\ token' \in Nat /\ token <= token' /\ calls' = calls /\ idx' \subseteq SessIds
    /\ storeFaults' \in [read: Nat, index: Nat]
    /\ savedBy' \in [SessIds -> SUBSET Nat]
    /\ meta' = [i \in SessIds |-> meta'[i]]
    /\ \A i \in SessIds :
        /\ meta'[i] = None \/ RecordOK(meta'[i])
        /\ meta'[i] # None => savedBy'[i] \subseteq meta'[i].data

LEMMA AdvanceKeeps ==
    ASSUME RecordsInv, NEW p \in Instances, NEW g, Advances(p, g)
    PROVE  RecordsInv'
<1>1. /\ call'[p] = g /\ \A q \in Instances \ {p} : call'[q] = call[q]
      /\ call' = [q \in Instances |-> call'[q]]
  BY Zenon DEF Advances, RecordsInv, RecordsShape
<1>2. RecordsShape'
  BY <1>1, Zenon DEF Advances, RecordsInv, RecordsShape
<1>3. BeganBefore'
  <2>1. token \in Nat /\ token' \in Nat /\ token <= token' /\ \A q \in Instances : call[q].began \in Nat
    BY Zenon DEF Advances, RecordsInv, RecordsShape, FrameOK
  <2>2. g.began <= token' /\ \A q \in Instances : call[q].began <= token
    BY Zenon DEF Advances, RecordsInv, BeganBefore
  <2>3. \A q \in Instances \ {p} : call'[q].began <= token'
    BY <1>1, <2>1, <2>2
  <2> QED
    BY <1>1, <2>2, <2>3, Zenon DEF BeganBefore
<1>4. SavesKept'
  BY Zenon DEF Advances, SavesKept
<1>5. \A q \in Instances : Current(call'[q])
  BY <1>1, Zenon DEF Advances, RecordsInv
<1> QED
  BY <1>2, <1>3, <1>4, <1>5, Zenon DEF RecordsInv
-----------------------------------------------------------------------------
(* The frames a step leads to *)

(* A frame whose call names no fresh id, serves nothing and began no later. *)
Plain(f, g) ==
    /\ FrameOK(g) /\ g.step \notin PutSteps \union {"swap", "extend", "served"}
    /\ g.began \in {0, f.began}

LEMMA NoCallPlain == \A f : Plain(f, NoCall)
<1>1. DOMAIN NoCall = Fields
  BY Zenon DEF NoCall, Fields
<1> QED
  BY <1>1, Zenon DEF Plain, NoCall, FrameOK, PutSteps, ReadSteps, IdSteps

LEMMA MarkFrame ==
    ASSUME NEW f, FrameOK(f), f.id \in SessIds
    PROVE  /\ FrameOK(MarkStale(f)) /\ MarkStale(f).began = f.began /\ MarkStale(f).op = f.op
           /\ MarkStale(f).id = f.id /\ MarkStale(f).rec = f.rec
<1> DEFINE g == MarkStale(f)
<1>1. /\ DOMAIN g = Fields /\ g.op = f.op /\ g.step = f.step /\ g.id = f.id /\ g.n = f.n /\ g.rec = f.rec
      /\ g.gen = f.gen /\ g.began = f.began /\ g.todo = f.todo /\ g.stale = f.stale \union {f.id}
      /\ g.ids = f.ids /\ g.gone = f.gone
  BY Zenon DEF FrameOK, Fields, MarkStale
<1> HIDE DEF g
<1>2. FrameOK(g)
  BY <1>1, Zenon DEF FrameOK
<1> QED
  BY <1>1, <1>2, Zenon DEF g

LEMMA UnlinkFrame ==
    ASSUME NEW f, FrameOK(f), NEW ids \in SUBSET SessIds, NEW after
    PROVE  Plain(f, Unlinking(f, ids, after))
<1> DEFINE g == Unlinking(f, ids, after)
<1>1. /\ DOMAIN g = Fields /\ g.op = f.op /\ g.step = "look" /\ g.id = f.id /\ g.n = f.n /\ g.rec = f.rec
      /\ g.gen = f.gen /\ g.began = f.began /\ g.todo = f.todo /\ g.stale = f.stale
      /\ g.ids = ids /\ g.gone = {}
  BY Zenon DEF FrameOK, Fields, Unlinking
<1> HIDE DEF g
<1>2. Plain(f, g)
  BY <1>1, Zenon DEF FrameOK, Plain, PutSteps, ReadSteps, IdSteps
<1> QED
  BY <1>2, Zenon DEF g

LEMMA NextFrame ==
    ASSUME NEW f, FrameOK(f), NEW i \in f.todo
    PROVE  Plain(f, [f EXCEPT !.id = i, !.todo = @ \ {i}, !.step = "read"])
<1> DEFINE g == [f EXCEPT !.id = i, !.todo = @ \ {i}, !.step = "read"]
<1>1. /\ DOMAIN g = Fields /\ g.op = f.op /\ g.step = "read" /\ g.id = i /\ g.n = f.n /\ g.rec = f.rec
      /\ g.gen = f.gen /\ g.began = f.began /\ g.todo = f.todo \ {i} /\ g.stale = f.stale
      /\ g.ids = f.ids /\ g.gone = f.gone
  BY Zenon DEF FrameOK, Fields
<1> HIDE DEF g
<1>2. Plain(f, g)
  BY <1>1, Zenon DEF FrameOK, Plain, PutSteps, ReadSteps, IdSteps
<1> QED
  BY <1>2, Zenon DEF g

(* ListForUser and DeleteAllForUser go on from any frame. *)
LEMMA ProceedsPlain ==
    ASSUME NEW p \in Instances, NEW f, FrameOK(f), Proceeds(p, f)
    PROVE  \E g : call' = [call EXCEPT ![p] = g] /\ Plain(f, g)
<1>1. CASE \E i \in f.todo : Becomes(p, [f EXCEPT !.id = i, !.todo = @ \ {i}, !.step = "read"])
  <2>1. PICK i \in f.todo : Becomes(p, [f EXCEPT !.id = i, !.todo = @ \ {i}, !.step = "read"])
    BY <1>1, Zenon
  <2> QED
    BY <2>1, NextFrame, Zenon DEF Becomes
<1>2. CASE f.todo = {} /\ f.stale # {} /\ Becomes(p, Unlinking(f, f.stale, "return"))
  BY <1>2, UnlinkFrame, Zenon DEF Becomes, FrameOK
<1>3. CASE f.todo = {} /\ f.stale = {} /\ Returns(p)
  BY <1>3, NoCallPlain, Zenon DEF Becomes, Returns
<1> QED
  BY <1>1, <1>2, <1>3, Zenon DEF Proceeds

LEMMA StepFrame ==
    ASSUME NEW f, FrameOK(f), NEW s
    PROVE  LET g == [f EXCEPT !.step = s] IN
           /\ DOMAIN g = Fields /\ g.op = f.op /\ g.step = s /\ g.id = f.id /\ g.n = f.n /\ g.rec = f.rec
           /\ g.gen = f.gen /\ g.began = f.began /\ g.todo = f.todo /\ g.stale = f.stale
           /\ g.ids = f.ids /\ g.gone = f.gone
  BY Zenon DEF FrameOK, Fields

(* The steps that change no save, and a record only by removing it. *)
LEMMA Removing ==
    ASSUME RecordsInv, NEW i, meta' = meta \/ meta' = [meta EXCEPT ![i] = None], savedBy' = savedBy
    PROVE  /\ savedBy' \in [SessIds -> SUBSET Nat] /\ meta' = [k \in SessIds |-> meta'[k]]
           /\ \A k \in SessIds : /\ meta'[k] = None \/ RecordOK(meta'[k])
                                 /\ meta'[k] # None => savedBy'[k] \subseteq meta'[k].data
<1>1. meta = [k \in SessIds |-> meta[k]] /\ \A k \in SessIds : meta[k] = None \/ RecordOK(meta[k])
  BY Zenon DEF RecordsInv, RecordsShape
<1>2. meta' = [k \in SessIds |-> meta'[k]] /\ \A k \in SessIds : meta'[k] = None \/ meta'[k] = meta[k]
  BY <1>1, Zenon
<1>3. \A k \in SessIds : meta[k] # None => savedBy[k] \subseteq meta[k].data
  BY Zenon DEF RecordsInv, SavesKept
<1> QED
  BY <1>1, <1>2, <1>3, Zenon DEF RecordsInv, RecordsShape

LEMMA PlainAdvances ==
    ASSUME RecordsInv, NEW p \in Instances, NEW g, call' = [call EXCEPT ![p] = g], Plain(call[p], g),
           token' = token, calls' = calls, savedBy' = savedBy,
           idx' \subseteq SessIds, storeFaults' \in [read: Nat, index: Nat],
           NEW i, meta' = meta \/ meta' = [meta EXCEPT ![i] = None]
    PROVE  Advances(p, g)
<1>1. g.began <= token'
  BY DEF Plain, FrameOK, RecordsInv, RecordsShape, BeganBefore
<1>2. Current(g) /\ g.step \notin PutSteps
  BY Zenon DEF Plain, Current
<1>3. token \in Nat /\ token <= token'
  BY DEF RecordsInv, RecordsShape
<1> QED
  BY <1>1, <1>2, <1>3, Removing, Zenon DEF Advances, Plain

LEMMA AnswerCounted ==
    ASSUME RecordsInv, NEW v, NEW r, NEW absent, Answered(v, r, absent)
    PROVE  storeFaults' \in [read: Nat, index: Nat]
  BY DEF Answered, RecordsInv, RecordsShape

LEMMA FrameHere ==
    ASSUME RecordsInv, NEW p \in Instances
    PROVE  /\ FrameOK(call[p]) /\ Current(call[p]) /\ call[p].began <= token
           /\ call[p].step \in IdSteps => call[p].id \in SessIds
           /\ idx \subseteq SessIds /\ storeFaults \in [read: Nat, index: Nat] /\ token \in Nat
  BY Zenon DEF RecordsInv, RecordsShape, BeganBefore, FrameOK

LEMMA ReadRecordKeeps ==
    ASSUME RecordsInv, NEW p \in Instances, ReadRecord(p)
    PROVE  RecordsInv'
<1> DEFINE f == call[p]
<1>1. f.step = "read" /\ f.id \in SessIds /\ FrameOK(f)
  BY FrameHere, Zenon DEF ReadRecord, AtStep, IdSteps
<1>2. PICK r \in {meta[f.id], None} :
        /\ Answered(meta[f.id], r, None)
        /\ IF r # None THEN Becomes(p, [f EXCEPT !.rec = r, !.step = "compare"])
           ELSE IF f.op \in {"list", "deleteAll"} THEN Proceeds(p, MarkStale(f)) ELSE Returns(p)
  BY Zenon DEF ReadRecord
<1>3. UNCHANGED <<meta, idx, token, calls, savedBy>> /\ storeFaults' \in [read: Nat, index: Nat]
  BY <1>2, AnswerCounted, Zenon DEF ReadRecord
<1>4. \E g : call' = [call EXCEPT ![p] = g] /\ Plain(f, g)
  <2>1. CASE r # None
    <3> DEFINE g == [f EXCEPT !.rec = r, !.step = "compare"]
    <3>1. RecordOK(r)
      BY <1>1, <2>1, Zenon DEF RecordsInv, RecordsShape
    <3>2. /\ DOMAIN g = Fields /\ g.op = f.op /\ g.step = "compare" /\ g.id = f.id /\ g.n = f.n /\ g.rec = r
          /\ g.gen = f.gen /\ g.began = f.began /\ g.todo = f.todo /\ g.stale = f.stale
          /\ g.ids = f.ids /\ g.gone = f.gone
      BY <1>1, Zenon DEF FrameOK, Fields
    <3>3. call' = [call EXCEPT ![p] = g]
      BY <1>2, <2>1, Zenon DEF Becomes
    <3> HIDE DEF g
    <3>4. Plain(f, g)
      BY <1>1, <3>1, <3>2, Zenon DEF FrameOK, Plain, PutSteps, ReadSteps, IdSteps
    <3> QED
      BY <3>3, <3>4, Zenon
  <2>2. CASE r = None /\ f.op \in {"list", "deleteAll"}
    <3>1. PICK g : call' = [call EXCEPT ![p] = g] /\ Plain(MarkStale(f), g)
      BY <1>1, <1>2, <2>2, MarkFrame, ProceedsPlain, Zenon
    <3> QED
      BY <1>1, <3>1, MarkFrame, Zenon DEF Plain
  <2>3. CASE r = None /\ f.op \notin {"list", "deleteAll"}
    BY <1>2, <2>3, NoCallPlain, Zenon DEF Returns, Becomes
  <2> QED
    BY <2>1, <2>2, <2>3, Zenon
<1>5. PICK g : call' = [call EXCEPT ![p] = g] /\ Plain(f, g)
  BY <1>4, Zenon
<1> QED
  BY <1>3, <1>5, FrameHere, PlainAdvances, AdvanceKeeps, Zenon

LEMMA GoesPlain ==
    ASSUME NEW f, FrameOK(f), NEW s,
           s \notin PutSteps \union {"swap", "extend", "served", "index", "rollback"},
           s \in IdSteps => f.id \in SessIds, s \in ReadSteps => RecordOK(f.rec)
    PROVE  Plain(f, [f EXCEPT !.step = s])
<1> DEFINE g == [f EXCEPT !.step = s]
<1>1. /\ DOMAIN g = Fields /\ g.op = f.op /\ g.step = s /\ g.id = f.id /\ g.n = f.n /\ g.rec = f.rec
      /\ g.gen = f.gen /\ g.began = f.began /\ g.todo = f.todo /\ g.stale = f.stale
      /\ g.ids = f.ids /\ g.gone = f.gone
  BY StepFrame, Zenon
<1> HIDE DEF g
<1>2. Plain(f, g)
  BY <1>1, Zenon DEF FrameOK, Plain, PutSteps
<1> QED
  BY <1>2, Zenon DEF g

(* A step of one call that leaves the cache's contents, and keeps or ends  *)
(* the serving of the record it read.                                      *)
LEMMA GoesAdvances ==
    ASSUME RecordsInv, NEW p \in Instances, NEW s, Goes(p, s),
           s \in {"swap", "served"}, call[p].step \in ReadSteps \union {"index"},
           call[p].op \in {"get", "touch", "update"} => call[p].step \in ReadSteps /\ call[p].rec.gen >= call[p].began,
           s = "swap" => call[p].step \in ReadSteps,
           UNCHANGED <<meta, token, calls, savedBy>>, idx' \subseteq SessIds,
           storeFaults' \in [read: Nat, index: Nat]
    PROVE  RecordsInv'
<1> DEFINE f == call[p]
           g == [f EXCEPT !.step = s]
<1>1. FrameOK(f) /\ f.began <= token /\ token \in Nat /\ (f.step \in ReadSteps => RecordOK(f.rec) /\ f.id \in SessIds)
  BY FrameHere, Zenon DEF FrameOK, IdSteps
<1>2. /\ DOMAIN g = Fields /\ g.op = f.op /\ g.step = s /\ g.id = f.id /\ g.n = f.n /\ g.rec = f.rec
      /\ g.gen = f.gen /\ g.began = f.began /\ g.todo = f.todo /\ g.stale = f.stale
      /\ g.ids = f.ids /\ g.gone = f.gone
  BY <1>1, StepFrame, Zenon
<1>3. call' = [call EXCEPT ![p] = g]
  BY Zenon DEF Goes, Becomes
<1> HIDE DEF g
<1>4. FrameOK(g)
  BY <1>1, <1>2, Zenon DEF FrameOK, PutSteps, ReadSteps, IdSteps
<1>5. Current(g) /\ g.began <= token' /\ g.step \notin PutSteps
  BY <1>1, <1>2, Zenon DEF Current, PutSteps
<1>6. Advances(p, g)
  <2>1. token <= token' /\ token' \in Nat
    BY <1>1
  <2> QED
    BY <1>3, <1>4, <1>5, <2>1, Removing, Zenon DEF Advances
<1> QED
  BY <1>6, AdvanceKeeps, Zenon

LEMMA CompareTokenKeeps ==
    ASSUME RecordsInv, NEW p \in Instances, CompareToken(p)
    PROVE  RecordsInv'
<1> DEFINE f == call[p]
<1>1. /\ f.step = "compare" /\ f.id \in SessIds /\ FrameOK(f) /\ RecordOK(f.rec) /\ f.began <= token
      /\ token \in Nat /\ f.began \in Nat
  BY FrameHere, Zenon DEF CompareToken, AtStep, IdSteps, ReadSteps, FrameOK
<1>2. PICK g \in {token, 0} : Answered(token, g, 0) /\ IF g = f.rec.gen THEN Accepts(p) ELSE Rejects(p)
  BY Zenon DEF CompareToken
<1>3. /\ UNCHANGED <<meta, idx, token, calls, savedBy>> /\ storeFaults' \in [read: Nat, index: Nat]
      /\ idx' \subseteq SessIds
  BY <1>2, AnswerCounted, FrameHere, Zenon DEF CompareToken
<1>4. CASE \E h : call' = [call EXCEPT ![p] = h] /\ Plain(f, h)
  BY <1>3, <1>4, PlainAdvances, AdvanceKeeps, Zenon
<1>5. CASE g = f.rec.gen /\ f.op = "get" /\ Goes(p, "served")
  BY <1>1, <1>3, <1>5, GoesAdvances, Zenon DEF RecordOK, ReadSteps
<1>6. CASE g = f.rec.gen /\ f.op \in {"touch", "update"} /\ Goes(p, "swap")
  BY <1>1, <1>3, <1>6, GoesAdvances, Zenon DEF RecordOK, ReadSteps
<1>7. CASE g = f.rec.gen /\ f.op = "deleteIf" /\ Goes(p, "remove")
  <2>1. Plain(f, [f EXCEPT !.step = "remove"])
    BY <1>1, GoesPlain, Zenon DEF PutSteps
  <2> QED
    BY <1>4, <1>7, <2>1, Zenon DEF Goes, Becomes
<1>8. CASE g = f.rec.gen /\ f.op = "deleteIf" /\ Returns(p)
  BY <1>4, <1>8, NoCallPlain, Zenon DEF Returns, Becomes
<1>9. CASE g = f.rec.gen /\ f.op \in {"list", "deleteAll"} /\ Proceeds(p, f)
  BY <1>1, <1>4, <1>9, ProceedsPlain, Zenon
<1>10. CASE Rejects(p)
  <2>1. PICK s \in {"remove", "evict"} : Goes(p, s)
    BY <1>10, Zenon DEF Rejects
  <2>2. Plain(f, [f EXCEPT !.step = s])
    BY <1>1, <2>1, GoesPlain, Zenon DEF PutSteps
  <2> QED
    BY <1>4, <2>1, <2>2, Zenon DEF Goes, Becomes
<1> QED
  BY <1>2, <1>5, <1>6, <1>7, <1>8, <1>9, <1>10, Zenon DEF Accepts

LEMMA EvictKeeps ==
    ASSUME RecordsInv, NEW p \in Instances, Evict(p)
    PROVE  RecordsInv'
<1> DEFINE c == call[p]
           f == IF c.op = "list" THEN MarkStale(c) ELSE c
<1>1. c.step = "evict" /\ c.id \in SessIds /\ FrameOK(c) /\ idx \subseteq SessIds /\ storeFaults \in [read: Nat, index: Nat]
  BY FrameHere, Zenon DEF Evict, AtStep, IdSteps, ReadSteps
<1>2. FrameOK(f) /\ f.began = c.began /\ f.id = c.id
  BY <1>1, MarkFrame, Zenon
<1>3. \/ /\ meta' = [meta EXCEPT ![f.id] = None]
         /\ \E a : Becomes(p, Unlinking(f, {f.id}, a))
      \/ meta' = meta /\ (Proceeds(p, f) \/ Returns(p))
  BY Zenon DEF Evict
<1>4. UNCHANGED <<idx, token, calls, savedBy, storeFaults>>
  BY Zenon DEF Evict
<1> HIDE DEF f
<1>5. \E g : call' = [call EXCEPT ![p] = g] /\ Plain(f, g)
  BY <1>1, <1>2, <1>3, UnlinkFrame, ProceedsPlain, NoCallPlain DEF Becomes, Returns
<1>6. PICK g : call' = [call EXCEPT ![p] = g] /\ Plain(c, g)
  BY <1>2, <1>5, Zenon DEF Plain
<1> QED
  BY <1>1, <1>3, <1>4, <1>6, PlainAdvances, AdvanceKeeps, Zenon

LEMMA RemoveReadKeeps ==
    ASSUME RecordsInv, NEW p \in Instances, RemoveRead(p)
    PROVE  RecordsInv'
<1> DEFINE f == call[p]
<1>1. f.step = "remove" /\ f.id \in SessIds /\ FrameOK(f) /\ idx \subseteq SessIds /\ storeFaults \in [read: Nat, index: Nat]
  BY FrameHere, Zenon DEF RemoveRead, AtStep, IdSteps, ReadSteps
<1>2. \/ /\ meta' = [meta EXCEPT ![f.id] = None]
         /\ Becomes(p, Unlinking(f, {f.id}, "return")) \/ Proceeds(p, MarkStale(f))
      \/ meta' = meta /\ (Goes(p, "read") \/ Proceeds(p, f))
  BY Zenon DEF RemoveRead
<1>3. UNCHANGED <<idx, token, calls, savedBy, storeFaults>>
  BY Zenon DEF RemoveRead
<1>4. ASSUME Proceeds(p, MarkStale(f)) PROVE \E g : call' = [call EXCEPT ![p] = g] /\ Plain(f, g)
  BY <1>1, <1>4, MarkFrame, ProceedsPlain DEF Plain
<1>5. ASSUME Goes(p, "read") PROVE \E g : call' = [call EXCEPT ![p] = g] /\ Plain(f, g)
  <2>1. Plain(f, [f EXCEPT !.step = "read"])
    BY <1>1, GoesPlain, Zenon DEF PutSteps, ReadSteps
  <2> QED
    BY <1>5, <2>1, Zenon DEF Goes, Becomes
<1>6. \E g : call' = [call EXCEPT ![p] = g] /\ Plain(f, g)
  BY <1>1, <1>2, <1>4, <1>5, UnlinkFrame, ProceedsPlain DEF Becomes
<1>7. PICK g : call' = [call EXCEPT ![p] = g] /\ Plain(f, g)
  BY <1>6, Zenon
<1> QED
  BY <1>1, <1>2, <1>3, <1>7, PlainAdvances, AdvanceKeeps, Zenon

(* slide: the record that is replaced is the one the change was made to,   *)
(* so no save in it is lost.                                               *)
LEMMA SwapKeeps ==
    ASSUME RecordsInv, NEW p \in Instances, Swap(p)
    PROVE  RecordsInv'
<1> DEFINE f == call[p]
<1>1. /\ f.step = "swap" /\ f.id \in SessIds /\ FrameOK(f) /\ RecordOK(f.rec) /\ f.began <= token
      /\ token \in Nat /\ f.n \in Nat /\ Current(f)
      /\ idx \subseteq SessIds /\ storeFaults \in [read: Nat, index: Nat]
  BY FrameHere, Zenon DEF Swap, AtStep, IdSteps, ReadSteps, FrameOK
<1>2. UNCHANGED <<idx, token, calls, storeFaults>>
  BY Zenon DEF Swap
<1>3. CASE meta[f.id] # f.rec
  <2>1. Plain(f, [f EXCEPT !.step = "read"])
    BY <1>1, GoesPlain, Zenon DEF PutSteps, ReadSteps
  <2>2. call' = [call EXCEPT ![p] = [f EXCEPT !.step = "read"]] /\ meta' = meta /\ savedBy' = savedBy
    BY <1>3, Zenon DEF Swap, Goes, Becomes
  <2> QED
    BY <1>1, <1>2, <2>1, <2>2, PlainAdvances, AdvanceKeeps, Zenon
<1>4. CASE meta[f.id] = f.rec
  <2> DEFINE g == [f EXCEPT !.step = "extend"]
             new == Slid(f)
             saves == IF f.op = "update" THEN savedBy[f.id] \union {f.n} ELSE savedBy[f.id]
  <2>1. /\ DOMAIN g = Fields /\ g.op = f.op /\ g.step = "extend" /\ g.id = f.id /\ g.n = f.n /\ g.rec = f.rec
        /\ g.gen = f.gen /\ g.began = f.began /\ g.todo = f.todo /\ g.stale = f.stale
        /\ g.ids = f.ids /\ g.gone = f.gone
    BY <1>1, StepFrame, Zenon
  <2>2. /\ call' = [call EXCEPT ![p] = g] /\ meta' = [meta EXCEPT ![f.id] = new]
        /\ savedBy' = [savedBy EXCEPT ![f.id] = saves]
    BY <1>4, Zenon DEF Swap, Goes, Becomes
  <2>3. /\ DOMAIN new = {"gen", "data", "put", "seen"} /\ new.gen = f.rec.gen
        /\ new.data = IF f.op = "update" THEN f.rec.data \union {f.n} ELSE f.rec.data
    BY <1>1, Zenon DEF Slid, RecordOK
  <2>4. savedBy[f.id] \subseteq f.rec.data
    BY <1>1, <1>4, Zenon DEF RecordsInv, SavesKept, RecordOK
  <2> HIDE DEF g, new
  <2>5. saves \subseteq new.data
    BY <2>3, <2>4, Zenon
  <2>6. new = None \/ RecordOK(new)
    BY <1>1, <2>3, Zenon DEF RecordOK
  <2>7. savedBy \in [SessIds -> SUBSET Nat] /\ saves \in SUBSET Nat
    BY <1>1, Zenon DEF RecordsInv, RecordsShape
  <2> HIDE DEF saves
  <2>8. /\ meta' = [i \in SessIds |-> meta'[i]] /\ meta'[f.id] = new
        /\ \A i \in SessIds \ {f.id} : meta'[i] = meta[i]
    BY <1>1, <2>2, Zenon DEF RecordsInv, RecordsShape
  <2>9. /\ savedBy' \in [SessIds -> SUBSET Nat] /\ savedBy'[f.id] = saves
        /\ \A i \in SessIds \ {f.id} : savedBy'[i] = savedBy[i]
    BY <1>1, <2>2, <2>7, Zenon
  <2>10. FrameOK(g) /\ Current(g) /\ g.step \notin PutSteps
    BY <1>1, <2>1, Zenon DEF FrameOK, Current, PutSteps, ReadSteps, IdSteps
  <2>11. ASSUME NEW i \in SessIds
         PROVE  /\ meta'[i] = None \/ RecordOK(meta'[i])
                /\ meta'[i] # None => savedBy'[i] \subseteq meta'[i].data
    <3>1. CASE i = f.id
      BY <2>5, <2>6, <2>8, <2>9, <3>1, Zenon
    <3>2. CASE i # f.id
      BY <2>8, <2>9, <3>2, Zenon DEF RecordsInv, RecordsShape, SavesKept
    <3> QED
      BY <3>1, <3>2, Zenon
  <2>12. Advances(p, g)
    <3>1. token' \in Nat /\ token <= token' /\ g.began <= token'
      BY <1>1, <1>2, <2>1
    <3> QED
      BY <1>1, <1>2, <2>2, <2>8, <2>9, <2>10, <2>11, <3>1, Zenon DEF Advances
  <2> QED
    BY <2>12, AdvanceKeeps, Zenon
<1> QED
  BY <1>3, <1>4, Zenon

LEMMA ExtendIndexKeeps ==
    ASSUME RecordsInv, NEW p \in Instances, ExtendIndex(p)
    PROVE  RecordsInv'
<1>1. /\ call[p].step = "extend" /\ call[p].id \in SessIds /\ Current(call[p])
      /\ idx \subseteq SessIds /\ storeFaults \in [read: Nat, index: Nat]
  BY FrameHere, Zenon DEF ExtendIndex, AddMember, AtStep, IdSteps, ReadSteps
<1>2. /\ Goes(p, "served") /\ UNCHANGED <<meta, token, calls, savedBy>>
      /\ idx' \subseteq SessIds /\ storeFaults' \in [read: Nat, index: Nat]
  BY <1>1 DEF ExtendIndex, AddMember, IndexDown
<1> QED
  BY <1>1, <1>2, GoesAdvances, Zenon DEF Current, ReadSteps

LEMMA IndexRecordKeeps ==
    ASSUME RecordsInv, NEW p \in Instances, IndexRecord(p)
    PROVE  RecordsInv'
<1> DEFINE f == call[p]
<1>1. /\ f.step = "index" /\ f.id \in SessIds /\ FrameOK(f) /\ f.op = "put"
      /\ idx \subseteq SessIds /\ storeFaults \in [read: Nat, index: Nat]
  BY FrameHere, Zenon DEF IndexRecord, AddMember, AtStep, IdSteps, FrameOK
<1>2. /\ Goes(p, "served") \/ Goes(p, "rollback")
      /\ UNCHANGED <<meta, token, calls, savedBy>>
      /\ idx' \subseteq SessIds /\ storeFaults' \in [read: Nat, index: Nat]
  BY <1>1 DEF IndexRecord, AddMember, IndexDown
<1>3. CASE Goes(p, "served")
  BY <1>1, <1>2, <1>3, GoesAdvances, Zenon
<1>4. CASE Goes(p, "rollback")
  <2> DEFINE g == [f EXCEPT !.step = "rollback"]
  <2>1. /\ DOMAIN g = Fields /\ g.op = f.op /\ g.step = "rollback" /\ g.id = f.id /\ g.n = f.n /\ g.rec = f.rec
        /\ g.gen = f.gen /\ g.began = f.began /\ g.todo = f.todo /\ g.stale = f.stale
        /\ g.ids = f.ids /\ g.gone = f.gone
    BY <1>1, StepFrame, Zenon
  <2>2. call' = [call EXCEPT ![p] = g]
    BY <1>4, Zenon DEF Goes, Becomes
  <2> HIDE DEF g
  <2>3. Plain(f, g)
    BY <1>1, <2>1, Zenon DEF FrameOK, Plain, PutSteps, ReadSteps, IdSteps
  <2> QED
    BY <1>2, <2>2, <2>3, PlainAdvances, AdvanceKeeps, Zenon
<1> QED
  BY <1>2, <1>3, <1>4, Zenon

-----------------------------------------------------------------------------
(* Put *)

(* A Put goes on drafting, under the same id. *)
LEMMA DraftKeeps ==
    ASSUME RecordsInv, NEW p \in Instances, Drawing(p), NEW s \in PutSteps, NEW n \in Nat, s = "write" => n # 0,
           call' = [call EXCEPT ![p] = [call[p] EXCEPT !.gen = n, !.step = s]],
           token' \in Nat, token <= token',
           UNCHANGED <<meta, idx, calls, savedBy>>, storeFaults' \in [read: Nat, index: Nat]
    PROVE  RecordsInv'
<1> DEFINE f == call[p]
           g == [f EXCEPT !.gen = n, !.step = s]
<1>1. /\ FrameOK(f) /\ f.id \in SessIds /\ f.began <= token /\ f.began \in Nat /\ token \in Nat
      /\ idx \subseteq SessIds /\ f.op = "put"
  BY FrameHere, Zenon DEF FrameOK, Drawing, PutSteps, IdSteps
<1>2. /\ DOMAIN g = Fields /\ g.op = f.op /\ g.step = s /\ g.id = f.id /\ g.n = f.n /\ g.rec = f.rec
      /\ g.gen = n /\ g.began = f.began /\ g.todo = f.todo /\ g.stale = f.stale
      /\ g.ids = f.ids /\ g.gone = f.gone
  BY <1>1, Zenon DEF FrameOK, Fields
<1>3. call' = [call EXCEPT ![p] = g]
  OBVIOUS
<1> HIDE DEF g
<1>4. FrameOK(g) /\ Current(g)
  BY <1>1, <1>2, Zenon DEF FrameOK, Current, PutSteps, ReadSteps, IdSteps
<1>5. g.began <= token'
  BY <1>1, <1>2
<1>6. Advances(p, g)
  BY <1>1, <1>2, <1>3, <1>4, <1>5, Removing, Zenon DEF Advances
<1> QED
  BY <1>6, AdvanceKeeps, Zenon

(* A change of the step alone is one of the generation that keeps it. *)
LEMMA SameGen ==
    ASSUME NEW f, FrameOK(f), NEW s
    PROVE  [f EXCEPT !.step = s] = [f EXCEPT !.gen = f.gen, !.step = s]
  BY Zenon DEF FrameOK, Fields

LEMMA GenerationKeeps ==
    ASSUME RecordsInv, NEW p \in Instances, EnsureGeneration(p) \/ RereadGeneration(p)
    PROVE  RecordsInv'
<1> DEFINE f == call[p]
<1>1. FrameOK(f) /\ f.gen \in Nat /\ token \in Nat /\ idx \subseteq SessIds
  BY FrameHere, Zenon DEF FrameOK
<1>2. Drawing(p)
  BY Zenon DEF Drawing, PutSteps, EnsureGeneration, RereadGeneration, AtStep
<1>3. PICK g \in {token, 0} :
        /\ Answered(token, g, 0)
        /\ \/ g # 0 /\ Issues(p, g)
           \/ Goes(p, "create") \/ Returns(p)
  BY Zenon DEF EnsureGeneration, RereadGeneration
<1>4. UNCHANGED <<meta, idx, token, calls, savedBy>> /\ storeFaults' \in [read: Nat, index: Nat]
  BY <1>3, AnswerCounted, Zenon DEF EnsureGeneration, RereadGeneration
<1>5. token' \in Nat /\ token <= token'
  BY <1>1, <1>4, SMTT(30)
<1>6. CASE g # 0 /\ Issues(p, g)
  <2>1. g \in Nat /\ call' = [call EXCEPT ![p] = [call[p] EXCEPT !.gen = g, !.step = "write"]]
    BY <1>1, <1>3, <1>6, Zenon DEF Issues, Becomes
  <2>2. "write" \in PutSteps
    BY Zenon DEF PutSteps
  <2> QED
    BY <1>2, <1>4, <1>5, <1>6, <2>1, <2>2, DraftKeeps, Zenon
<1>7. CASE Goes(p, "create")
  <2>1. call' = [call EXCEPT ![p] = [call[p] EXCEPT !.gen = f.gen, !.step = "create"]]
    BY <1>1, <1>7, SameGen, Zenon DEF Goes, Becomes
  <2>2. "create" \in PutSteps
    BY Zenon DEF PutSteps
  <2> QED
    BY <1>1, <1>2, <1>4, <1>5, <2>1, <2>2, DraftKeeps, Zenon
<1>8. CASE Returns(p)
  BY <1>1, <1>4, <1>8, NoCallPlain, PlainAdvances, AdvanceKeeps, ZenonT(30) DEF Returns, Becomes
<1> QED
  BY <1>3, <1>6, <1>7, <1>8, Zenon

LEMMA CreateGenerationKeeps ==
    ASSUME RecordsInv, NEW p \in Instances, CreateGeneration(p)
    PROVE  RecordsInv'
<1> DEFINE f == call[p]
<1>1. FrameOK(f) /\ f.gen \in Nat /\ f.n \in Nat /\ token \in Nat /\ storeFaults \in [read: Nat, index: Nat]
  BY FrameHere, Zenon DEF FrameOK
<1>2. Drawing(p) /\ "reread" \in PutSteps
  BY Zenon DEF Drawing, PutSteps, CreateGeneration, AtStep
<1>3. call' = [call EXCEPT ![p] = [call[p] EXCEPT !.gen = f.gen, !.step = "reread"]]
  BY <1>1, SameGen, Zenon DEF CreateGeneration, Goes, Becomes
<1>4. token' \in Nat /\ token <= token'
  BY <1>1 DEF CreateGeneration
<1>5. UNCHANGED <<meta, idx, calls, savedBy, storeFaults>>
  BY Zenon DEF CreateGeneration
<1> QED
  BY <1>1, <1>2, <1>3, <1>4, <1>5, DraftKeeps, Zenon

(* A new record has no saves to keep. *)
LEMMA WriteRecordKeeps ==
    ASSUME RecordsInv, NEW p \in Instances, WriteRecord(p)
    PROVE  RecordsInv'
<1> DEFINE f == call[p]
           new == [gen |-> f.gen, data |-> {}, put |-> f.n, seen |-> f.n]
           g == [f EXCEPT !.step = "index"]
<1>1. /\ f.step = "write" /\ FrameOK(f) /\ f.id \in SessIds /\ f.began <= token /\ f.began \in Nat /\ token \in Nat
      /\ idx \subseteq SessIds /\ f.op = "put" /\ f.gen \in Nat \ {0} /\ storeFaults \in [read: Nat, index: Nat]
  BY FrameHere, Zenon DEF FrameOK, WriteRecord, AtStep, PutSteps, IdSteps
<1>2. savedBy \in [SessIds -> SUBSET Nat] /\ new.data = {}
  BY Zenon DEF RecordsInv, RecordsShape
<1>3. /\ DOMAIN g = Fields /\ g.op = f.op /\ g.step = "index" /\ g.id = f.id /\ g.n = f.n /\ g.rec = f.rec
      /\ g.gen = f.gen /\ g.began = f.began /\ g.todo = f.todo /\ g.stale = f.stale
      /\ g.ids = f.ids /\ g.gone = f.gone
  BY <1>1, StepFrame
<1>4. call' = [call EXCEPT ![p] = g] /\ meta' = [meta EXCEPT ![f.id] = new]
  BY Zenon DEF WriteRecord, Goes, Becomes
<1>5. UNCHANGED <<idx, token, calls, storeFaults>> /\ savedBy' = [savedBy EXCEPT ![f.id] = {}]
  BY Zenon DEF WriteRecord
<1>6. new = None \/ RecordOK(new)
  BY <1>1, Zenon DEF RecordOK
<1> HIDE DEF g, new
<1>7. /\ meta' = [i \in SessIds |-> meta'[i]] /\ meta'[f.id] = new
      /\ \A i \in SessIds \ {f.id} : meta'[i] = meta[i]
  BY <1>1, <1>4, Zenon DEF RecordsInv, RecordsShape
<1>8. FrameOK(g) /\ Current(g)
  BY <1>1, <1>3, Zenon DEF FrameOK, Current, PutSteps, ReadSteps, IdSteps
<1>10. /\ savedBy' \in [SessIds -> SUBSET Nat] /\ savedBy'[f.id] = {}
       /\ \A i \in SessIds \ {f.id} : savedBy'[i] = savedBy[i]
  BY <1>1, <1>2, <1>5, Zenon
<1>9. ASSUME NEW i \in SessIds
      PROVE  /\ meta'[i] = None \/ RecordOK(meta'[i])
             /\ meta'[i] # None => savedBy'[i] \subseteq meta'[i].data
  <2>1. CASE i = f.id
    BY <1>6, <1>7, <1>10, <2>1, Zenon
  <2>2. CASE i # f.id
    BY <1>7, <1>10, <2>2, Zenon DEF RecordsInv, RecordsShape, SavesKept
  <2> QED
    BY <2>1, <2>2, Zenon
<1>11. token' \in Nat /\ token <= token' /\ g.began <= token'
  BY <1>1, <1>3, <1>5
<1>12. Advances(p, g)
  BY <1>1, <1>4, <1>5, <1>7, <1>8, <1>9, <1>10, <1>11, Zenon DEF Advances
<1> QED
  BY <1>12, AdvanceKeeps, Zenon

LEMMA RollBackKeeps ==
    ASSUME RecordsInv, NEW p \in Instances, RollBack(p)
    PROVE  RecordsInv'
<1>1. \E i : meta' = meta \/ meta' = [meta EXCEPT ![i] = None]
  BY Zenon DEF RollBack
<1>2. UNCHANGED <<idx, token, calls, savedBy, storeFaults>> /\ call' = [call EXCEPT ![p] = NoCall]
  BY Zenon DEF RollBack, Returns, Becomes
<1> QED
  BY <1>1, <1>2, FrameHere, NoCallPlain, PlainAdvances, AdvanceKeeps, Zenon

-----------------------------------------------------------------------------
(* Delete, DeleteAllForUser, ListForUser and unlink *)

LEMMA ReadOwnerKeeps ==
    ASSUME RecordsInv, NEW p \in Instances, ReadOwner(p)
    PROVE  RecordsInv'
<1> DEFINE f == call[p]
<1>1. FrameOK(f) /\ f.id \in SessIds /\ idx \subseteq SessIds
  BY FrameHere, Zenon DEF ReadOwner, AtStep, IdSteps
<1>2. PICK r \in {meta[f.id], None} :
        Answered(meta[f.id], r, None) /\ Becomes(p, [f EXCEPT !.rec = r, !.step = "forget"])
  BY Zenon DEF ReadOwner
<1>3. UNCHANGED <<meta, idx, token, calls, savedBy>> /\ storeFaults' \in [read: Nat, index: Nat]
  BY <1>2, AnswerCounted, Zenon DEF ReadOwner
<1> DEFINE g == [f EXCEPT !.rec = r, !.step = "forget"]
<1>4. /\ DOMAIN g = Fields /\ g.op = f.op /\ g.step = "forget" /\ g.id = f.id /\ g.n = f.n /\ g.rec = r
      /\ g.gen = f.gen /\ g.began = f.began /\ g.todo = f.todo /\ g.stale = f.stale
      /\ g.ids = f.ids /\ g.gone = f.gone
  BY <1>1, Zenon DEF FrameOK, Fields
<1>5. call' = [call EXCEPT ![p] = g]
  BY <1>2, Zenon DEF Becomes
<1> HIDE DEF g
<1>6. Plain(f, g)
  BY <1>1, <1>4, Zenon DEF FrameOK, Plain, PutSteps, ReadSteps, IdSteps
<1> QED
  BY <1>1, <1>3, <1>5, <1>6, PlainAdvances, AdvanceKeeps, Zenon

LEMMA ForgetKeeps ==
    ASSUME RecordsInv, NEW p \in Instances, Forget(p)
    PROVE  RecordsInv'
<1> DEFINE f == call[p]
<1>1. FrameOK(f) /\ f.id \in SessIds /\ idx \subseteq SessIds /\ storeFaults \in [read: Nat, index: Nat]
  BY FrameHere, Zenon DEF Forget, AtStep, IdSteps
<1>2. /\ UNCHANGED <<idx, token, calls, savedBy, storeFaults>> /\ meta' = [meta EXCEPT ![f.id] = None]
      /\ Returns(p) \/ Becomes(p, Unlinking(f, {f.id}, "return"))
  BY Zenon DEF Forget
<1>3. \E g : call' = [call EXCEPT ![p] = g] /\ Plain(f, g)
  BY <1>1, <1>2, NoCallPlain, UnlinkFrame, Zenon DEF Returns, Becomes
<1> QED
  BY <1>1, <1>2, <1>3, PlainAdvances, AdvanceKeeps, Zenon

(* The rotated token is later than every token a call began under. *)
LEMMA RotateTokenKeeps ==
    ASSUME RecordsInv, NEW p \in Instances, RotateToken(p)
    PROVE  RecordsInv'
<1> DEFINE f == call[p]
           g == [f EXCEPT !.step = "members"]
<1>1. FrameOK(f) /\ f.began \in Nat /\ f.began <= token /\ token \in Nat
      /\ idx \subseteq SessIds /\ storeFaults \in [read: Nat, index: Nat]
  BY FrameHere, Zenon DEF FrameOK
<1>2. /\ UNCHANGED <<meta, idx, calls, savedBy, storeFaults>> /\ call' = [call EXCEPT ![p] = g]
      /\ token' = token + MaxCalls
  BY Zenon DEF RotateToken, Goes, Becomes
<1>3. Plain(f, g)
  BY <1>1, GoesPlain, Zenon DEF PutSteps, ReadSteps, IdSteps
<1>4. FrameOK(g) /\ Current(g) /\ g.step \notin PutSteps /\ g.began \in {0, f.began}
  BY <1>3, Zenon DEF Plain, Current
<1>5. token' \in Nat /\ token <= token' /\ g.began <= token'
  BY <1>1, <1>2, <1>4, CallsAssumption
<1>6. Advances(p, g)
  BY <1>1, <1>2, <1>4, <1>5, Removing, Zenon DEF Advances
<1> QED
  BY <1>6, AdvanceKeeps, Zenon

LEMMA LoadMembersKeeps ==
    ASSUME RecordsInv, NEW p \in Instances, LoadMembers(p)
    PROVE  RecordsInv'
<1> DEFINE f == call[p]
           g == [f EXCEPT !.todo = idx]
<1>1. FrameOK(f) /\ idx \subseteq SessIds /\ storeFaults \in [read: Nat, index: Nat]
  BY FrameHere, Zenon
<1>2. /\ DOMAIN g = Fields /\ g.op = f.op /\ g.step = f.step /\ g.id = f.id /\ g.n = f.n /\ g.rec = f.rec
      /\ g.gen = f.gen /\ g.began = f.began /\ g.todo = idx /\ g.stale = f.stale
      /\ g.ids = f.ids /\ g.gone = f.gone
  BY <1>1, Zenon DEF FrameOK, Fields
<1>3. UNCHANGED <<meta, idx, token, calls, savedBy, storeFaults>> /\ Proceeds(p, g)
  BY Zenon DEF LoadMembers
<1> HIDE DEF g
<1>4. FrameOK(g)
  BY <1>1, <1>2, Zenon DEF FrameOK
<1>5. PICK h : call' = [call EXCEPT ![p] = h] /\ Plain(g, h)
  BY <1>3, <1>4, ProceedsPlain, Zenon
<1>6. Plain(f, h)
  BY <1>2, <1>5, Zenon DEF Plain
<1> QED
  BY <1>1, <1>3, <1>5, <1>6, PlainAdvances, AdvanceKeeps, Zenon

LEMMA LookKeeps ==
    ASSUME RecordsInv, NEW p \in Instances, Look(p)
    PROVE  RecordsInv'
<1> DEFINE f == call[p]
<1>1. FrameOK(f) /\ idx \subseteq SessIds /\ f.step = "look"
  BY FrameHere, Zenon DEF Look, AtStep
<1>2. PICK i \in f.ids : \E r \in {meta[i], None} :
        /\ Answered(meta[i], r, None)
        /\ Becomes(p, [f EXCEPT !.ids = @ \ {i}, !.gone = IF r = None THEN @ \union {i} ELSE @])
  BY Zenon DEF Look
<1>3. PICK r \in {meta[i], None} :
        /\ Answered(meta[i], r, None)
        /\ Becomes(p, [f EXCEPT !.ids = @ \ {i}, !.gone = IF r = None THEN @ \union {i} ELSE @])
  BY <1>2, Zenon
<1>4. UNCHANGED <<meta, idx, token, calls, savedBy>> /\ storeFaults' \in [read: Nat, index: Nat]
  BY <1>3, AnswerCounted, Zenon DEF Look
<1> DEFINE taken == IF r = None THEN f.gone \union {i} ELSE f.gone
           g == [f EXCEPT !.ids = @ \ {i}, !.gone = IF r = None THEN @ \union {i} ELSE @]
<1>5. /\ DOMAIN g = Fields /\ g.op = f.op /\ g.step = f.step /\ g.id = f.id /\ g.n = f.n /\ g.rec = f.rec
      /\ g.gen = f.gen /\ g.began = f.began /\ g.todo = f.todo /\ g.stale = f.stale
      /\ g.ids = f.ids \ {i} /\ g.gone = taken
  BY <1>1, Zenon DEF FrameOK, Fields
<1>6. call' = [call EXCEPT ![p] = g]
  BY <1>3, Zenon DEF Becomes
<1> HIDE DEF g
<1>7. Plain(f, g)
  BY <1>1, <1>5, Zenon DEF FrameOK, Plain, PutSteps, ReadSteps, IdSteps
<1> QED
  BY <1>1, <1>4, <1>6, <1>7, PlainAdvances, AdvanceKeeps, Zenon

LEMMA LookAgainKeeps ==
    ASSUME RecordsInv, NEW p \in Instances, LookAgain(p)
    PROVE  RecordsInv'
<1> DEFINE f == call[p]
<1>1. FrameOK(f) /\ idx \subseteq SessIds /\ f.step = "relook"
  BY FrameHere, Zenon DEF LookAgain, AtStep
<1>2. PICK i \in f.gone : \E r \in {meta[i], None} :
        /\ Answered(meta[i], r, None)
        /\ Becomes(p, [f EXCEPT !.gone = @ \ {i}, !.ids = IF r = None THEN {} ELSE {i},
                                !.step = IF r = None THEN "relook" ELSE "relist"])
  BY Zenon DEF LookAgain
<1>3. PICK r \in {meta[i], None} :
        /\ Answered(meta[i], r, None)
        /\ Becomes(p, [f EXCEPT !.gone = @ \ {i}, !.ids = IF r = None THEN {} ELSE {i},
                                !.step = IF r = None THEN "relook" ELSE "relist"])
  BY <1>2, Zenon
<1>4. UNCHANGED <<meta, idx, token, calls, savedBy>> /\ storeFaults' \in [read: Nat, index: Nat]
  BY <1>3, AnswerCounted, Zenon DEF LookAgain
<1> DEFINE back == IF r = None THEN {} ELSE {i}
           s == IF r = None THEN "relook" ELSE "relist"
           g == [f EXCEPT !.gone = @ \ {i}, !.ids = back, !.step = s]
<1>5. /\ DOMAIN g = Fields /\ g.op = f.op /\ g.step = s /\ g.id = f.id /\ g.n = f.n /\ g.rec = f.rec
      /\ g.gen = f.gen /\ g.began = f.began /\ g.todo = f.todo /\ g.stale = f.stale
      /\ g.ids = back /\ g.gone = f.gone \ {i}
  BY <1>1, Zenon DEF FrameOK, Fields
<1>6. call' = [call EXCEPT ![p] = g]
  BY <1>3, Zenon DEF Becomes
<1> HIDE DEF g
<1>7. Plain(f, g)
  BY <1>1, <1>5, Zenon DEF FrameOK, Plain, PutSteps, ReadSteps, IdSteps
<1> QED
  BY <1>1, <1>4, <1>6, <1>7, PlainAdvances, AdvanceKeeps, Zenon

LEMMA UnlinkedPlain ==
    ASSUME NEW p \in Instances, FrameOK(call[p]), Unlinked(p)
    PROVE  \E g : call' = [call EXCEPT ![p] = g] /\ Plain(call[p], g)
  BY ProceedsPlain, NoCallPlain, Zenon DEF Unlinked, Returns, Becomes

LEMMA UnlinkKeeps ==
    ASSUME RecordsInv, NEW p \in Instances, DropMembers(p) \/ RelistMember(p) \/ EndUnlink(p)
    PROVE  RecordsInv'
<1> DEFINE f == call[p]
<1>1. FrameOK(f) /\ f.ids \subseteq SessIds /\ idx \subseteq SessIds /\ storeFaults \in [read: Nat, index: Nat]
  BY FrameHere, Zenon DEF FrameOK
<1>2. /\ UNCHANGED <<meta, token, calls, savedBy>> /\ idx' \subseteq SessIds
      /\ Unlinked(p) \/ Goes(p, "relook")
  BY <1>1, Zenon DEF DropMembers, RelistMember, EndUnlink
<1>5. storeFaults' \in [read: Nat, index: Nat]
  BY <1>1 DEF DropMembers, RelistMember, EndUnlink, IndexDown
<1>3. Plain(f, [f EXCEPT !.step = "relook"])
  BY <1>1, GoesPlain, Zenon DEF PutSteps, ReadSteps, IdSteps
<1>4. PICK g : call' = [call EXCEPT ![p] = g] /\ Plain(f, g)
  BY <1>1, <1>2, <1>3, UnlinkedPlain, Zenon DEF Goes, Becomes
<1> QED
  BY <1>1, <1>2, <1>4, <1>5, PlainAdvances, AdvanceKeeps, Zenon

-----------------------------------------------------------------------------
(* A call begins *)

Ops == {"put", "get", "touch", "update", "deleteIf", "delete", "deleteAll", "list"}

LEMMA BeginsFrame ==
    ASSUME NEW op \in Ops, NEW i, i \in SessIds \/ op \in {"deleteAll", "list"}, NEW n \in Nat, NEW b \in Nat
    PROVE  LET g == [NoCall EXCEPT !.op = op, !.step = FirstStep(op), !.id = i, !.n = n, !.began = b] IN
           FrameOK(g) /\ Current(g) /\ g.began = b
<1> DEFINE s == FirstStep(op)
           g == [NoCall EXCEPT !.op = op, !.step = s, !.id = i, !.n = n, !.began = b]
<1>1. /\ op = "put" => s = "ensure"
      /\ op \in {"get", "touch", "update", "deleteIf"} => s = "read"
      /\ op = "delete" => s = "owner"
      /\ op = "deleteAll" => s = "rotate"
      /\ op = "list" => s = "members"
  BY Zenon DEF FirstStep
<1> HIDE DEF s
<1>2. /\ DOMAIN g = Fields /\ g.op = op /\ g.step = s /\ g.id = i /\ g.n = n /\ g.rec = None /\ g.gen = 0
      /\ g.began = b /\ g.todo = {} /\ g.stale = {} /\ g.ids = {} /\ g.gone = {}
  BY Zenon DEF NoCall, Fields
<1> HIDE DEF g
<1>3. FrameOK(g)
  BY <1>1, <1>2 DEF FrameOK, Ops, PutSteps, ReadSteps, IdSteps
<1>4. Current(g)
  BY <1>1, <1>2, Zenon DEF Current, Ops
<1> QED
  BY <1>2, <1>3, <1>4, Zenon DEF g, s

LEMMA BeginsKeeps ==
    ASSUME RecordsInv, NEW p \in Instances, NEW op \in Ops, NEW i, i \in SessIds \/ op \in {"deleteAll", "list"},
           Begins(p, op, i)
    PROVE  RecordsInv'
<1> DEFINE g == [NoCall EXCEPT !.op = op, !.step = FirstStep(op), !.id = i, !.n = calls', !.began = token]
<1>1. /\ token \in Nat /\ calls' \in Nat /\ call' = [call EXCEPT ![p] = g]
      /\ UNCHANGED <<meta, idx, token, savedBy, storeFaults>>
  BY DEF Begins, Becomes, RecordsInv, RecordsShape
<1>2. /\ token \in Nat /\ calls' \in Nat
      /\ i \in SessIds \/ op \in {"deleteAll", "list"}
  BY <1>1, Zenon
<1>3. FrameOK(g) /\ Current(g) /\ g.began = token
  BY <1>2, BeginsFrame, Zenon DEF NoCall
<1> HIDE DEF g
<1>4. /\ call'[p] = g /\ \A q \in Instances \ {p} : call'[q] = call[q]
      /\ call' = [q \in Instances |-> call'[q]]
  BY <1>1, Zenon DEF RecordsInv, RecordsShape
<1>5. RecordsShape'
  BY <1>1, <1>3, <1>4, ZenonT(30) DEF RecordsInv, RecordsShape
<1>6. BeganBefore' /\ SavesKept' /\ \A q \in Instances : Current(call'[q])
  BY <1>1, <1>3, <1>4 DEF RecordsInv, BeganBefore, SavesKept
<1> QED
  BY <1>5, <1>6, Zenon DEF RecordsInv

-----------------------------------------------------------------------------
LEMMA RecordsInvInit == RecordsInit => RecordsInv
<1> SUFFICES ASSUME RecordsInit PROVE RecordsInv
  OBVIOUS
<1>1. PICK old \in {{}, OldIds} :
        /\ meta = [i \in SessIds |-> IF i \in old THEN [gen |-> 1, data |-> {}, put |-> 0, seen |-> 0] ELSE None]
        /\ idx = old /\ token = IF old = {} THEN 0 ELSE 1
  BY Zenon DEF RecordsInit
<1>2. /\ call = [p \in Instances |-> NoCall] /\ calls = 0
      /\ savedBy = [i \in SessIds |-> {}] /\ storeFaults = [read |-> 0, index |-> 0]
  BY Zenon DEF RecordsInit
<1>3. FrameOK(NoCall) /\ NoCall.step = "idle" /\ NoCall.began = 0
  BY NoCallPlain, Zenon DEF Plain, NoCall
<1>4. \A i \in SessIds : meta[i] = None \/ RecordOK(meta[i])
  BY <1>1 DEF RecordOK
<1>5. old \subseteq SessIds /\ token \in Nat
  BY <1>1, CallsAssumption, Zenon
<1>6. RecordsShape
  BY <1>1, <1>2, <1>3, <1>4, <1>5, Zenon DEF RecordsShape
<1>7. \A p \in Instances : call[p].step = "idle" /\ call[p].began = 0
  BY <1>2, <1>3, ZenonT(30)
<1>8. BeganBefore /\ SavesKept /\ \A p \in Instances : Current(call[p])
  BY <1>2, <1>5, <1>7 DEF BeganBefore, SavesKept, Current
<1> QED
  BY <1>6, <1>8, Zenon DEF RecordsInv

LEMMA RecordsStep == RecordsInv /\ [RecordsNext]_recordVars => RecordsInv'
<1> SUFFICES ASSUME RecordsInv, [RecordsNext]_recordVars PROVE RecordsInv'
  OBVIOUS
<1>1. CASE UNCHANGED recordVars
  BY <1>1, Zenon DEF recordVars, RecordsInv, RecordsShape, BeganBefore, SavesKept
<1>2. ASSUME NEW p \in Instances, NEW op \in {"put", "get", "touch", "update", "deleteIf", "delete"},
             NEW i \in SessIds, Begins(p, op, i)
      PROVE  RecordsInv'
  BY <1>2, BeginsKeeps, Zenon DEF Ops
<1>3. ASSUME NEW p \in Instances, NEW op \in {"deleteAll", "list"}, Begins(p, op, None)
      PROVE  RecordsInv'
  BY <1>3, BeginsKeeps, Zenon DEF Ops
<1> QED
  BY <1>1, <1>2, <1>3, ReadRecordKeeps, CompareTokenKeeps, EvictKeeps, RemoveReadKeeps, SwapKeeps, ZenonT(30),
     ExtendIndexKeeps, GenerationKeeps, CreateGenerationKeeps, WriteRecordKeeps, IndexRecordKeeps,
     RollBackKeeps, ReadOwnerKeeps, ForgetKeeps, RotateTokenKeeps, LoadMembersKeeps, LookKeeps,
     LookAgainKeeps, UnlinkKeeps DEF RecordsNext

(* For any number of instances, sessions, calls and faults, a change that   *)
(* UpdateData reported as saved stays in the record until the record itself *)
(* goes or a Put writes it anew: no touch, save or revocation that overlaps *)
(* it loses it.                                                             *)
THEOREM ReportedSavesStay == RecordsSpec => []SavesKept
<1>1. RecordsInv => SavesKept
  BY Zenon DEF RecordsInv
<1> QED
  BY RecordsInvInit, RecordsStep, <1>1, PTL DEF RecordsSpec

(* For any number of instances, sessions, calls and faults, a call never    *)
(* serves or writes a record whose token was rotated away before the call   *)
(* began, also when the token cannot be read.                               *)
THEOREM RevocationIsFinal == RecordsSpec => []RevokedNotServed
<1>1. RecordsInv => RevokedNotServed
  BY Zenon DEF RecordsInv, RevokedNotServed, Current
<1> QED
  BY RecordsInvInit, RecordsStep, <1>1, PTL DEF RecordsSpec

-----------------------------------------------------------------------------
(* The listeners of a response *)

Attempts == [listener: Nat, status: Statuses \cup {0}, how: {"returned", "panicked"}]

(* The fields of the writer, of the dispatch in progress and of the pass. *)
IsWriter(w) ==
    /\ w = [state |-> w.state, pending |-> w.pending, attempts |-> w.attempts, committed |-> w.committed,
            status |-> w.status, hijacked |-> w.hijacked]
    /\ w.pending \in Seq(Nat) /\ w.attempts \in Nat /\ w.committed \in BOOLEAN /\ w.hijacked \in BOOLEAN
IsFrame(f) == /\ f = [from |-> f.from, status |-> f.status, running |-> f.running]
              /\ f.status \in Statuses \cup {0} /\ f.running \in Nat
IsPass(p) ==
    /\ p = [attempted |-> p.attempted, budget |-> p.budget, taken |-> p.taken, by |-> p.by]
    /\ p.attempted \in Nat /\ p.budget \in Nat /\ p.taken \in BOOLEAN

CommitShape ==
    /\ IsWriter(rw) /\ IsFrame(frame) /\ IsPass(pass)
    /\ registered \in Nat /\ destPanics \in Nat /\ tried \in Seq(Attempts)

(* A dispatch is in progress exactly while the writer is dispatching; then  *)
(* nothing is committed, and only then does a listener run.                 *)
Placed ==
    /\ stage = "dispatch" <=> rw.state = "dispatching"
    /\ stage = "dispatch" => frame.from \in Application \cup {"finalize"} /\ ~rw.committed
    /\ stage # "dispatch" => frame.running = 0
    /\ rw.committed => rw.pending = << >>
    /\ ~rw.committed => rw.status = 0

InHand == IF frame.running = 0 THEN 0 ELSE 1

(* A listener is pending, running or tried, and is so once. *)
Once ==
    /\ \A a \in DOMAIN rw.pending : rw.pending[a] \in 1..registered
    /\ \A a, b \in DOMAIN rw.pending : rw.pending[a] = rw.pending[b] => a = b
    /\ \A a \in DOMAIN rw.pending : rw.pending[a] # frame.running
    /\ \A a \in DOMAIN tried : tried[a].listener \in 1..registered /\ tried[a].listener # frame.running
    /\ \A a \in DOMAIN tried, b \in DOMAIN rw.pending : tried[a].listener # rw.pending[b]
    /\ \A a, b \in DOMAIN tried : tried[a].listener = tried[b].listener => a = b
    /\ frame.running <= registered
    /\ ~rw.hijacked => Len(tried) + Len(rw.pending) + InHand = registered

(* The last attempt: of this dispatch when it is over, and one that broke   *)
(* its dispatch when application code may still commit.                     *)
LastTried ==
    /\ stage = "dispatch" /\ frame.running = 0 /\ rw.pending = << >> =>
        tried # << >> /\ tried[Len(tried)].status = frame.status
    /\ stage \in Application /\ ~rw.committed /\ tried # << >> /\ destPanics = 0 =>
        tried[Len(tried)].how = "panicked"
    /\ rw.committed /\ tried # << >> /\ destPanics = 0 /\ rw.status # 0 =>
        (tried[Len(tried)].how = "returned" => tried[Len(tried)].status = rw.status)

(* A request about to end left none out, unless a break of finalize's own   *)
(* dispatch went unanswered.                                                *)
Closing ==
    stage \in {"close", "over"} /\ ending = "no" /\ ~rw.hijacked =>
        Len(tried) = registered \/ (pass.by = "finalize" /\ ~rw.committed)

(* The budget of the passes covers the listeners still pending and those    *)
(* attempted since the pass began.                                          *)
Budgeted ==
    /\ pass.taken => /\ rw.state # "idle" /\ pass.attempted <= rw.attempts
                     /\ Len(rw.pending) + (rw.attempts - pass.attempted) <= pass.budget
    /\ pass.attempted <= rw.attempts
    /\ ending # "budget"

CommitInv == CommitShape /\ Placed /\ Once /\ LastTried /\ Closing /\ Budgeted

(* Listeners are numbered as they are registered.  They wait in ascending   *)
(* order, a running one is above all that wait and below all that were      *)
(* tried, and the tried ones descend; none is registered once one was       *)
(* tried.                                                                   *)
LastFirst ==
    /\ rw.state = "idle" => tried = << >>
    /\ \A a, b \in DOMAIN rw.pending : a < b => rw.pending[a] < rw.pending[b]
    /\ frame.running # 0 => \A b \in DOMAIN rw.pending : rw.pending[b] < frame.running
    /\ frame.running # 0 => \A a \in DOMAIN tried : frame.running < tried[a].listener
    /\ \A a \in DOMAIN tried, b \in DOMAIN rw.pending : rw.pending[b] < tried[a].listener
    /\ \A a, b \in DOMAIN tried : a < b => tried[b].listener < tried[a].listener

(* With nothing pending and nothing running, every listener was tried. *)
LEMMA NothingLeft ==
    ASSUME CommitShape, Once, rw.pending = << >>, frame.running = 0, ~rw.hijacked
    PROVE  Len(tried) = registered
<1>1. Len(tried) \in Nat
  BY LenProperties, Zenon DEF CommitShape
<1>2. Len(rw.pending) = 0 /\ InHand = 0
  BY EmptySeq, Zenon DEF InHand
<1>3. Len(tried) + Len(rw.pending) + InHand = registered
  BY Zenon DEF Once
<1> QED
  BY <1>1, <1>2, <1>3

LEMMA InvImpliesFirst == CommitInv /\ LastFirst => ListenersFirst
<1> SUFFICES ASSUME CommitInv, LastFirst PROVE ListenersFirst
  OBVIOUS
<1>1. tried \in Seq(Attempts) /\ DOMAIN tried = 1..Len(tried)
  BY LenProperties, Zenon DEF CommitInv, CommitShape
<1>2. \A a, b \in 1..Len(tried) : a < b => tried[b].listener < tried[a].listener
  BY <1>1, Zenon DEF LastFirst
<1>3. rw.committed => rw.pending = << >> /\ frame.running = 0
  BY Zenon DEF CommitInv, Placed
<1>4. rw.committed /\ ~rw.hijacked => Len(tried) = registered
  BY <1>3, NothingLeft, Zenon DEF CommitInv
<1>5. rw.committed /\ tried # << >> /\ destPanics = 0 /\ rw.status # 0 =>
        (tried[Len(tried)].how = "returned" => tried[Len(tried)].status = rw.status)
  BY Zenon DEF CommitInv, LastTried
<1>6. stage = "over" /\ ending = "no" /\ ~rw.hijacked =>
        Len(tried) = registered \/ (pass.by = "finalize" /\ ~rw.committed)
  BY Zenon DEF CommitInv, Closing
<1>7. ending # "budget"
  BY Zenon DEF CommitInv, Budgeted
<1> QED
  BY <1>2, <1>3, <1>4, <1>5, <1>6, <1>7, ZenonT(30) DEF ListenersFirst

LEMMA CommitInit_Inv == CommitInit => CommitInv
<1> SUFFICES ASSUME CommitInit PROVE CommitInv
  OBVIOUS
<1>1. /\ rw.state = "idle" /\ rw.pending = << >> /\ rw.attempts = 0 /\ ~rw.committed /\ rw.status = 0
      /\ ~rw.hijacked /\ rw.committed \in BOOLEAN /\ rw.hijacked \in BOOLEAN
      /\ rw = [state |-> rw.state, pending |-> rw.pending, attempts |-> rw.attempts,
               committed |-> rw.committed, status |-> rw.status, hijacked |-> rw.hijacked]
  BY Zenon DEF CommitInit
<1>2. IsFrame(frame) /\ frame.running = 0 /\ IsPass(pass) /\ ~pass.taken /\ pass.attempted = 0
  BY Zenon DEF CommitInit, NoFrame, NoPass, IsFrame, IsPass
<1>3. /\ registered = 0 /\ destPanics = 0 /\ stage = "handler" /\ ending = "no"
      /\ tried = << >> /\ tried \in Seq(Attempts) /\ rw.pending \in Seq(Nat) /\ Len(rw.pending) = 0 /\ Len(tried) = 0
  BY <1>1, EmptySeq, Zenon DEF CommitInit
<1>4. CommitShape
  BY <1>1, <1>2, <1>3 DEF CommitShape, IsWriter
<1>5. Placed
  BY <1>1, <1>2, <1>3, Zenon DEF Placed
<1>6. Once
  BY <1>1, <1>2, <1>3 DEF Once, InHand
<1>7. LastTried
  BY <1>1, <1>2, <1>3, Zenon DEF LastTried
<1>8. Closing
  BY <1>3, Zenon DEF Closing
<1>9. Budgeted
  BY <1>1, <1>2, <1>3 DEF Budgeted
<1> QED
  BY <1>4, <1>5, <1>6, <1>7, <1>8, <1>9, ZenonT(30) DEF CommitInv

(* What the registry holds is read from these alone. *)
LEMMA OnceSame ==
    ASSUME Once, rw'.pending = rw.pending, rw'.hijacked = rw.hijacked, frame'.running = frame.running,
           registered' = registered, tried' = tried
    PROVE  Once'
<1>1. InHand' = InHand
  BY Zenon DEF InHand
<1>2. ~rw'.hijacked => Len(tried') + Len(rw'.pending) + InHand' = registered'
  BY <1>1, Zenon DEF Once
<1>3. /\ \A a \in DOMAIN rw'.pending : rw'.pending[a] \in 1..registered'
      /\ \A a, b \in DOMAIN rw'.pending : rw'.pending[a] = rw'.pending[b] => a = b
      /\ \A a \in DOMAIN rw'.pending : rw'.pending[a] # frame'.running
  BY Zenon DEF Once
<1>4. /\ \A a \in DOMAIN tried' : tried'[a].listener \in 1..registered' /\ tried'[a].listener # frame'.running
      /\ \A a \in DOMAIN tried', b \in DOMAIN rw'.pending : tried'[a].listener # rw'.pending[b]
      /\ \A a, b \in DOMAIN tried' : tried'[a].listener = tried'[b].listener => a = b
      /\ frame'.running <= registered'
  BY DEF Once
<1> QED
  BY <1>2, <1>3, <1>4, Zenon DEF Once

LEMMA CommitStutters == CommitInv /\ UNCHANGED commitVars => CommitInv'
<1> SUFFICES ASSUME CommitInv, UNCHANGED commitVars PROVE CommitInv'
  OBVIOUS
<1>1. /\ rw' = rw /\ stage' = stage /\ frame' = frame /\ pass' = pass /\ registered' = registered
      /\ tried' = tried /\ ending' = ending /\ destPanics' = destPanics
  BY Zenon DEF commitVars
<1>2. CommitShape' /\ Placed'
  BY <1>1, Zenon DEF CommitInv, CommitShape, Placed, IsWriter, IsFrame, IsPass
<1>3. Once'
  BY <1>1, OnceSame, Zenon DEF CommitInv
<1>4. LastTried' /\ Closing' /\ Budgeted'
  BY <1>1, ZenonT(30) DEF CommitInv, LastTried, Closing, Budgeted
<1> QED
  BY <1>2, <1>3, <1>4, Zenon DEF CommitInv

-----------------------------------------------------------------------------
(* Fields of the writer after a write. *)
LEMMA StateSets ==
    ASSUME NEW w, IsWriter(w), NEW s, NEW v, v = [w EXCEPT !.state = s]
    PROVE  /\ IsWriter(v) /\ v.state = s /\ v.pending = w.pending /\ v.attempts = w.attempts
           /\ v.committed = w.committed /\ v.status = w.status /\ v.hijacked = w.hijacked
<1>1. /\ v.state = s /\ v.pending = w.pending /\ v.attempts = w.attempts
      /\ v.committed = w.committed /\ v.status = w.status /\ v.hijacked = w.hijacked
      /\ v = [state |-> v.state, pending |-> v.pending, attempts |-> v.attempts, committed |-> v.committed,
              status |-> v.status, hijacked |-> v.hijacked]
  BY Zenon DEF IsWriter
<1> QED
  BY <1>1, Zenon DEF IsWriter

LEMMA CommitSets ==
    ASSUME NEW w, IsWriter(w), NEW status, NEW v, v = Committing(w, status)
    PROVE  /\ IsWriter(v) /\ v.state = w.state /\ v.pending = w.pending /\ v.attempts = w.attempts
           /\ v.committed /\ v.status = status /\ v.hijacked = w.hijacked
<1>1. /\ v.state = w.state /\ v.pending = w.pending /\ v.attempts = w.attempts
      /\ v.committed = TRUE /\ v.status = status /\ v.hijacked = w.hijacked
      /\ v = [state |-> v.state, pending |-> v.pending, attempts |-> v.attempts, committed |-> v.committed,
              status |-> v.status, hijacked |-> v.hijacked]
  BY Zenon DEF IsWriter, Committing
<1> QED
  BY <1>1, Zenon DEF IsWriter

LEMMA BeginDispatchKeeps ==
    ASSUME CommitInv, NEW from \in Application \cup {"finalize"}, NEW status \in Statuses,
           BeginDispatch(from, status), rw.pending # << >>, stage # "dispatch", ~rw.committed,
           UNCHANGED <<pass, registered, tried, ending, destPanics>>
    PROVE  CommitInv'
<1>1. /\ IsWriter(rw') /\ rw'.state = "dispatching" /\ rw'.pending = rw.pending /\ rw'.attempts = rw.attempts
      /\ rw'.committed = rw.committed /\ rw'.status = rw.status /\ rw'.hijacked = rw.hijacked
  <2>1. IsWriter(rw) /\ rw' = [rw EXCEPT !.state = "dispatching"]
    BY Zenon DEF CommitInv, CommitShape, BeginDispatch
  <2> QED
    BY <2>1, StateSets
<1>2. IsFrame(frame') /\ frame'.running = 0 /\ frame'.from = from /\ stage' = "dispatch"
  BY Zenon DEF BeginDispatch, IsFrame
<1>3. CommitShape'
  BY <1>1, <1>2, Zenon DEF CommitInv, CommitShape
<1>4. Placed'
  BY <1>1, <1>2, Zenon DEF CommitInv, Placed
<1>5. Once'
  BY <1>1, <1>2, OnceSame, Zenon DEF CommitInv, Placed
<1>6. LastTried'
  BY <1>1, <1>2, Zenon DEF CommitInv, LastTried, Application
<1>7. Closing'
  BY <1>2, Zenon DEF Closing
<1>8. Budgeted'
  BY <1>1, Zenon DEF CommitInv, Budgeted
<1> QED
  BY <1>3, <1>4, <1>5, <1>6, <1>7, <1>8, ZenonT(30) DEF CommitInv

LEMMA RegisterKeeps == CommitInv /\ Register => CommitInv'
<1> SUFFICES ASSUME CommitInv, Register PROVE CommitInv'
  OBVIOUS
<1> DEFINE k == registered + 1
<1>1. /\ rw' = [rw EXCEPT !.pending = Append(@, k)] /\ registered' = k /\ k \in Nat /\ stage \in Application
      /\ rw.state = "idle" /\ ~rw.committed
      /\ UNCHANGED <<stage, frame, pass, tried, ending, destPanics>>
  BY DEF Register, CommitInv, CommitShape
<1>2. /\ rw'.pending = Append(rw.pending, k) /\ rw'.state = rw.state /\ rw'.attempts = rw.attempts
      /\ rw'.committed = rw.committed /\ rw'.status = rw.status /\ rw'.hijacked = rw.hijacked
      /\ rw' = [state |-> rw'.state, pending |-> rw'.pending, attempts |-> rw'.attempts,
                committed |-> rw'.committed, status |-> rw'.status, hijacked |-> rw'.hijacked]
  BY <1>1, Zenon DEF CommitInv, CommitShape, IsWriter
<1>3. /\ rw.pending \in Seq(Nat) /\ rw'.pending \in Seq(Nat) /\ Len(rw'.pending) = Len(rw.pending) + 1
      /\ \A a \in 1..Len(rw.pending) : rw'.pending[a] = rw.pending[a]
      /\ rw'.pending[Len(rw.pending) + 1] = k
      /\ DOMAIN rw.pending = 1..Len(rw.pending) /\ DOMAIN rw'.pending = 1..(Len(rw.pending) + 1)
      /\ Len(rw.pending) \in Nat
  BY <1>1, <1>2, AppendProperties, LenProperties DEF CommitInv, CommitShape, IsWriter
<1>4. CommitShape'
  BY <1>1, <1>2, <1>3, Zenon DEF CommitInv, CommitShape, IsWriter, IsFrame, IsPass
<1>5. stage # "dispatch" /\ frame.running = 0
  BY <1>1, Zenon DEF CommitInv, Placed
<1>6. Placed'
  BY <1>1, <1>2, <1>5, Zenon DEF CommitInv, Placed
<1>7. Once'
  <2> HIDE DEF k
  <2>1. k = registered + 1 /\ registered \in Nat
    BY Zenon DEF k, CommitInv, CommitShape
  <2>2. /\ \A a \in DOMAIN rw.pending : rw.pending[a] \in 1..registered /\ rw.pending[a] \in 1..k /\ rw.pending[a] # k
        /\ \A a \in DOMAIN tried : /\ tried[a].listener \in 1..registered /\ tried[a].listener \in 1..k
                                   /\ tried[a].listener # k
    BY <2>1 DEF CommitInv, Once
  <2>3. \A a \in DOMAIN rw'.pending : a \in DOMAIN rw.pending \/ a = Len(rw.pending) + 1
    BY <1>3
  <2>4. /\ \A a \in DOMAIN rw'.pending : rw'.pending[a] \in 1..registered'
        /\ \A a \in DOMAIN rw'.pending : rw'.pending[a] # frame'.running
      <3>1. k \in 1..k /\ k # 0
      BY <2>1
    <3>2. \A a \in DOMAIN rw'.pending : rw'.pending[a] \in 1..k
      BY <1>3, <2>2, <2>3, <3>1, Zenon
    <3>3. \A a \in 1..k : a # 0
      BY <2>1
    <3> QED
      BY <1>1, <1>5, <3>2, <3>3, Zenon
  <2>5. \A a, b \in DOMAIN rw'.pending : rw'.pending[a] = rw'.pending[b] => a = b
    BY <1>3, <2>2, <2>3, ZenonT(30) DEF CommitInv, Once
  <2>6. /\ \A a \in DOMAIN tried' : tried'[a].listener \in 1..registered' /\ tried'[a].listener # frame'.running
        /\ \A a, b \in DOMAIN tried' : tried'[a].listener = tried'[b].listener => a = b
    BY <1>1, <2>2, Zenon DEF CommitInv, Once
  <2>7. \A a \in DOMAIN tried', b \in DOMAIN rw'.pending : tried'[a].listener # rw'.pending[b]
    BY <1>1, <1>3, <2>2, <2>3, SMTT(30) DEF CommitInv, Once
  <2>8. ~rw'.hijacked => Len(tried') + Len(rw'.pending) + InHand' = registered'
    <3>1. InHand = 0 /\ InHand' = 0 /\ Len(tried) \in Nat /\ Len(tried') = Len(tried)
      BY <1>1, <1>5, LenProperties, Zenon DEF InHand, CommitInv, CommitShape
    <3>2. ~rw.hijacked => Len(tried) + Len(rw.pending) + InHand = registered
      BY Zenon DEF CommitInv, Once
    <3> QED
      BY <1>1, <1>2, <1>3, <2>1, <3>1, <3>2, SMTT(30)
  <2>9. frame'.running <= registered'
    BY <1>1, <1>5, <2>1
  <2> QED
    BY <2>4, <2>5, <2>6, <2>7, <2>8, <2>9, Zenon DEF Once
<1>8. LastTried'
  BY <1>1, <1>2, <1>5, Zenon DEF CommitInv, LastTried
<1>9. Closing'
  BY <1>1, Zenon DEF Closing, Application
<1>10. Budgeted'
  BY <1>1, <1>2, Zenon DEF CommitInv, Budgeted
<1> QED
  BY <1>4, <1>6, <1>7, <1>8, <1>9, <1>10, ZenonT(30) DEF CommitInv
(* A commit by application code, nothing being pending. *)
LEMMA CommitKeeps ==
    ASSUME CommitInv, NEW status \in Statuses, stage \in Application, WriteOutcome(rw) = "commit",
           rw' = Committing(rw, status), UNCHANGED <<frame, stage, pass, registered, tried, ending, destPanics>>
    PROVE  CommitInv'
<1>1. /\ IsWriter(rw') /\ rw'.state = rw.state /\ rw'.pending = rw.pending /\ rw'.attempts = rw.attempts
      /\ rw'.committed /\ rw'.status = status /\ rw'.hijacked = rw.hijacked
  <2>1. IsWriter(rw)
    BY Zenon DEF CommitInv, CommitShape
  <2> QED
    BY <2>1, CommitSets
<1>2. rw.pending = << >> /\ ~rw.committed /\ stage # "dispatch"
  BY Zenon DEF WriteOutcome, Application
<1>3. CommitShape'
  BY <1>1, Zenon DEF CommitInv, CommitShape, IsFrame, IsPass
<1>4. Placed'
  BY <1>1, <1>2, Zenon DEF CommitInv, Placed
<1>5. Once'
  BY <1>1, OnceSame, Zenon DEF CommitInv
<1>6. LastTried'
  <2>1. tried # << >> /\ destPanics = 0 => tried[Len(tried)].how = "panicked"
    BY <1>2, Zenon DEF CommitInv, LastTried
  <2>2. tried' = tried /\ destPanics' = destPanics /\ stage' # "dispatch" /\ rw'.committed
    BY <1>1, <1>2, Zenon
  <2>3. tried' # << >> /\ destPanics' = 0 => ~ (tried'[Len(tried')].how = "returned")
    BY <2>1, <2>2, Zenon
  <2> QED
    BY <2>2, <2>3, Zenon DEF LastTried
<1>7. Closing'
  BY Zenon DEF Closing, Application
<1>8. Budgeted'
  BY <1>1, Zenon DEF CommitInv, Budgeted
<1> QED
  BY <1>3, <1>4, <1>5, <1>6, <1>7, <1>8, ZenonT(30) DEF CommitInv

LEMMA WritesKeeps == ASSUME CommitInv, NEW status \in Statuses, Writes(status) PROVE CommitInv'
<1>1. CASE WriteOutcome(rw) = "ignored"
  BY <1>1, CommitStutters, Zenon DEF Writes, commitVars
<1>2. CASE WriteOutcome(rw) = "dispatch"
  <2>1. /\ rw.pending # << >> /\ ~rw.committed /\ stage \in Application /\ stage # "dispatch"
        /\ BeginDispatch(stage, status) /\ UNCHANGED <<pass, registered, tried, ending, destPanics>>
    BY <1>2, Zenon DEF Writes, WriteOutcome, Application
  <2> QED
    BY <2>1, BeginDispatchKeeps, Zenon
<1>3. CASE WriteOutcome(rw) = "commit"
  BY <1>3, CommitKeeps, ZenonT(30) DEF Writes
<1> QED
  BY <1>1, <1>2, <1>3, Zenon DEF Writes

LEMMA HijackKeeps == CommitInv /\ Hijack => CommitInv'
<1> SUFFICES ASSUME CommitInv, Hijack PROVE CommitInv'
  OBVIOUS
<1>1. /\ stage = "handler" /\ IsWriter(rw) /\ UNCHANGED <<stage, frame, pass, registered, tried, ending, destPanics>>
      /\ rw' = [rw EXCEPT !.committed = TRUE, !.hijacked = TRUE, !.pending = << >>, !.state = "done"]
  BY Zenon DEF Hijack, CommitInv, CommitShape
<1>2. /\ rw'.state = "done" /\ rw'.pending = << >> /\ rw'.attempts = rw.attempts
      /\ rw'.committed = TRUE /\ rw'.status = rw.status /\ rw'.hijacked = TRUE
      /\ rw' = [state |-> rw'.state, pending |-> rw'.pending, attempts |-> rw'.attempts,
                committed |-> rw'.committed, status |-> rw'.status, hijacked |-> rw'.hijacked]
  BY <1>1, Zenon DEF IsWriter
<1>3. rw'.pending \in Seq(Nat) /\ Len(rw'.pending) = 0 /\ DOMAIN rw'.pending = {} /\ Len(rw.pending) \in Nat
  BY <1>1, <1>2, EmptySeq, LenProperties DEF IsWriter
<1>4. CommitShape'
  BY <1>1, <1>2, <1>3, Zenon DEF CommitInv, CommitShape, IsWriter, IsFrame, IsPass
<1>5. Placed'
  BY <1>1, <1>2, Zenon DEF CommitInv, Placed
<1>6. Once'
  BY <1>1, <1>2, <1>3, Zenon DEF CommitInv, Once
<1>7. LastTried'
  BY <1>1, <1>2, Zenon DEF CommitInv, LastTried, Placed
<1>8. Closing'
  BY <1>1, Zenon DEF Closing
<1>9. Budgeted'
  BY <1>1, <1>2, <1>3, SMTT(30) DEF CommitInv, CommitShape, IsWriter, IsPass, Budgeted
<1> QED
  BY <1>4, <1>5, <1>6, <1>7, <1>8, <1>9, Zenon DEF CommitInv

LEMMA CallListenerKeeps == CommitInv /\ CallListener => CommitInv'
<1> SUFFICES ASSUME CommitInv, CallListener PROVE CommitInv'
  OBVIOUS
<1> DEFINE n == Len(rw.pending)
           l == rw.pending[n]
<1>1. /\ stage = "dispatch" /\ frame.running = 0 /\ rw.pending # << >> /\ IsWriter(rw) /\ IsFrame(frame)
      /\ rw' = [rw EXCEPT !.pending = SubSeq(@, 1, n - 1), !.attempts = @ + 1]
      /\ frame' = [frame EXCEPT !.running = l]
      /\ UNCHANGED <<stage, pass, registered, tried, ending, destPanics>>
  BY Zenon DEF CallListener, CommitInv, CommitShape
<1>2. /\ rw'.pending = SubSeq(rw.pending, 1, n - 1) /\ rw'.state = rw.state /\ rw'.attempts = rw.attempts + 1
      /\ rw'.committed = rw.committed /\ rw'.status = rw.status /\ rw'.hijacked = rw.hijacked
      /\ rw' = [state |-> rw'.state, pending |-> rw'.pending, attempts |-> rw'.attempts,
                committed |-> rw'.committed, status |-> rw'.status, hijacked |-> rw'.hijacked]
  BY <1>1, Zenon DEF IsWriter
<1>3. n \in Nat \ {0} /\ DOMAIN rw.pending = 1..n /\ rw.pending \in Seq(Nat)
  BY <1>1, EmptySeq, LenProperties, Zenon DEF IsWriter
<1>4. /\ rw'.pending \in Seq(Nat) /\ Len(rw'.pending) = n - 1 /\ DOMAIN rw'.pending = 1..(n - 1)
      /\ \A a \in 1..(n - 1) : rw'.pending[a] = rw.pending[a]
  BY <1>2, <1>3, SubSeqProperties, SMTT(30)
<1>5. /\ frame'.running = l /\ frame'.from = frame.from /\ frame'.status = frame.status
      /\ frame' = [from |-> frame'.from, status |-> frame'.status, running |-> frame'.running]
  BY <1>1, Zenon DEF IsFrame
<1>6. l \in 1..registered /\ l \in Nat /\ l # 0 /\ registered \in Nat
  BY <1>3, SMTT(30) DEF CommitInv, CommitShape, Once
<1> HIDE DEF l, n
<1>7. CommitShape'
  <2>1. IsFrame(frame')
    BY <1>1, <1>5, <1>6, Zenon DEF IsFrame
  <2>2. IsWriter(rw')
    BY <1>1, <1>2, <1>4, SMTT(30) DEF IsWriter
  <2> QED
    BY <1>1, <2>1, <2>2, Zenon DEF CommitInv, CommitShape, IsPass
<1>8. Placed'
  BY <1>1, <1>2, <1>5, Zenon DEF CommitInv, Placed
<1>9. Once'
  <2>1. \A a \in DOMAIN rw'.pending : a \in DOMAIN rw.pending /\ a # n /\ rw'.pending[a] = rw.pending[a]
    BY <1>3, <1>4, SMTT(30)
  <2>2. n \in DOMAIN rw.pending /\ rw.pending[n] = l
    BY <1>3 DEF l
  <2>0. /\ \A a \in DOMAIN rw.pending : rw.pending[a] \in 1..registered
        /\ \A a, b \in DOMAIN rw.pending : rw.pending[a] = rw.pending[b] => a = b
        /\ \A a \in DOMAIN tried, b \in DOMAIN rw.pending : tried[a].listener # rw.pending[b]
        /\ \A a, b \in DOMAIN tried : tried[a].listener = tried[b].listener => a = b
    BY Zenon DEF CommitInv, Once
  <2>3. \A a \in DOMAIN rw'.pending : rw'.pending[a] \in 1..registered' /\ rw'.pending[a] # frame'.running
    <3>1. registered' = registered /\ frame'.running = rw.pending[n]
      BY <1>1, <1>5, <2>2, Zenon
    <3> QED
      BY <2>0, <2>1, <2>2, <3>1, Zenon
  <2>4. \A a, b \in DOMAIN rw'.pending : rw'.pending[a] = rw'.pending[b] => a = b
    BY <2>1, Zenon DEF CommitInv, Once
  <2>5. \A a \in DOMAIN tried' : tried'[a].listener \in 1..registered' /\ tried'[a].listener # frame'.running
    BY <1>1, <1>5, <2>2 DEF CommitInv, Once
  <2>6. /\ \A a \in DOMAIN tried', b \in DOMAIN rw'.pending : tried'[a].listener # rw'.pending[b]
        /\ \A a, b \in DOMAIN tried' : tried'[a].listener = tried'[b].listener => a = b
    <3>1. tried' = tried
      BY <1>1, Zenon
    <3>2. \A a \in DOMAIN tried, b \in DOMAIN rw'.pending : tried[a].listener # rw'.pending[b]
      BY <2>0, <2>1, Zenon
    <3> QED
      BY <2>0, <3>1, <3>2, Zenon
  <2>7. frame'.running <= registered'
    BY <1>1, <1>5, <1>6
  <2>8. ~rw'.hijacked => Len(tried') + Len(rw'.pending) + InHand' = registered'
    <3>1. InHand = 0 /\ InHand' = 1 /\ Len(tried) \in Nat /\ Len(tried') = Len(tried)
      BY <1>1, <1>5, <1>6, LenProperties, Zenon DEF InHand, CommitInv, CommitShape
    <3>2. ~rw.hijacked => Len(tried) + n + InHand = registered
      BY Zenon DEF CommitInv, Once, n
    <3> QED
      BY <1>1, <1>2, <1>3, <1>4, <3>1, <3>2, SMTT(30)
  <2> QED
    BY <2>3, <2>4, <2>5, <2>6, <2>7, <2>8, ZenonT(30) DEF Once
<1>10. LastTried'
  BY <1>1, <1>2, <1>5, <1>6, Zenon DEF CommitInv, LastTried, Placed, Application
<1>11. Closing'
  BY <1>1, Zenon DEF Closing
<1>12. Budgeted'
  BY <1>1, <1>2, <1>3, <1>4, SMTT(30) DEF CommitInv, CommitShape, IsWriter, IsPass, Budgeted, n
<1> QED
  BY <1>7, <1>8, <1>9, <1>10, <1>11, <1>12, Zenon DEF CommitInv
-----------------------------------------------------------------------------
(* The running listener becomes the last one tried. *)
LEMMA TriedKeeps ==
    ASSUME CommitInv, NEW how \in {"returned", "panicked"}, Tried(how), frame.running # 0,
           rw'.pending = rw.pending, rw'.hijacked = rw.hijacked, frame'.running = 0, registered' = registered
    PROVE  /\ Once' /\ tried' \in Seq(Attempts) /\ tried' # << >>
           /\ tried'[Len(tried')].how = how /\ tried'[Len(tried')].status = frame.status
<1> DEFINE e == [listener |-> frame.running, status |-> frame.status, how |-> how]
           m == Len(tried)
<1>1. e.listener = frame.running /\ e.status = frame.status /\ e.how = how /\ e \in Attempts
  BY Zenon DEF CommitInv, CommitShape, IsFrame, Attempts
<1>2. tried' = Append(tried, e) /\ tried \in Seq(Attempts)
  BY Zenon DEF Tried, CommitInv, CommitShape
<1> HIDE DEF e
<1>3. /\ tried' \in Seq(Attempts) /\ Len(tried') = m + 1 /\ m \in Nat /\ tried'[m + 1] = e
      /\ \A a \in 1..m : tried'[a] = tried[a]
      /\ DOMAIN tried = 1..m /\ DOMAIN tried' = 1..(m + 1)
  BY <1>1, <1>2, AppendProperties, LenProperties
<1>4. tried' # << >>
  BY <1>3, EmptySeq
<1> HIDE DEF m
<1>5. \A a \in DOMAIN tried' : (a = m + 1 /\ tried'[a] = e) \/ (a \in DOMAIN tried /\ tried'[a] = tried[a])
  <2>0. m \in Nat
    BY <1>3, Zenon
  <2>1. \A a \in 1..(m + 1) : a = m + 1 \/ a \in 1..m
    BY <2>0
  <2> QED
    BY <1>3, <2>1, Zenon
<1>6. /\ frame.running \in 1..registered /\ registered \in Nat
      /\ \A a \in DOMAIN tried : tried[a].listener \in 1..registered /\ tried[a].listener # e.listener
      /\ \A a, b \in DOMAIN tried : tried[a].listener = tried[b].listener => a = b
  BY <1>1 DEF CommitInv, CommitShape, IsFrame, Once
<1>7. /\ \A b \in DOMAIN rw.pending : rw.pending[b] # e.listener /\ rw.pending[b] \in 1..registered
      /\ \A a \in DOMAIN tried, b \in DOMAIN rw.pending : tried[a].listener # rw.pending[b]
      /\ \A a, b \in DOMAIN rw.pending : rw.pending[a] = rw.pending[b] => a = b
  BY <1>1, Zenon DEF CommitInv, Once
<1>8. \A a \in 1..registered : a # 0
  BY <1>6
<1>9. Once'
  <2>1. \A a \in DOMAIN tried' : tried'[a].listener \in 1..registered
    BY <1>1, <1>5, <1>6, Zenon
  <2>2. \A a, b \in DOMAIN tried' : tried'[a].listener = tried'[b].listener => a = b
    <3> SUFFICES ASSUME NEW a \in DOMAIN tried', NEW b \in DOMAIN tried', tried'[a].listener = tried'[b].listener
                 PROVE  a = b
      OBVIOUS
    <3> QED
      BY <1>5, <1>6, Zenon
  <2>3. \A a \in DOMAIN tried', b \in DOMAIN rw.pending : tried'[a].listener # rw.pending[b]
    BY <1>5, <1>7, ZenonT(30)
  <2>4. ~rw.hijacked => Len(tried') + Len(rw.pending) + 0 = registered
    <3>1. InHand = 1 /\ Len(rw.pending) \in Nat
      BY LenProperties, Zenon DEF InHand, CommitInv, CommitShape, IsWriter
    <3>2. ~rw.hijacked => m + Len(rw.pending) + InHand = registered
      BY Zenon DEF CommitInv, Once, m
    <3>3. Len(tried') = m + 1 /\ m \in Nat
      BY <1>3, Zenon
    <3>4. \A k \in Nat : m + k + 1 = m + 1 + k + 0
      BY <3>3
    <3> QED
      BY <3>1, <3>2, <3>3, <3>4, Zenon
  <2>5. InHand' = 0
    BY Zenon DEF InHand
  <2>6. 0 <= registered
    BY <1>6
  <2>7. /\ \A a \in DOMAIN rw'.pending : rw'.pending[a] \in 1..registered'
        /\ \A a, b \in DOMAIN rw'.pending : rw'.pending[a] = rw'.pending[b] => a = b
        /\ \A a \in DOMAIN rw'.pending : rw'.pending[a] # frame'.running
    BY <1>7, <1>8, Zenon
  <2>8. /\ \A a \in DOMAIN tried' : tried'[a].listener \in 1..registered' /\ tried'[a].listener # frame'.running
        /\ \A a \in DOMAIN tried', b \in DOMAIN rw'.pending : tried'[a].listener # rw'.pending[b]
    BY <1>8, <2>1, <2>3, Zenon
  <2>9. ~rw'.hijacked => Len(tried') + Len(rw'.pending) + InHand' = registered'
    BY <2>4, <2>5, Zenon
  <2> QED
    BY <2>2, <2>6, <2>7, <2>8, <2>9, ZenonT(30) DEF Once
<1> QED
  BY <1>1, <1>3, <1>4, <1>9, Zenon

LEMMA ListenerReturnsKeeps == CommitInv /\ ListenerReturns => CommitInv'
<1> SUFFICES ASSUME CommitInv, ListenerReturns PROVE CommitInv'
  OBVIOUS
<1>1. /\ stage = "dispatch" /\ frame.running # 0 /\ Tried("returned") /\ IsFrame(frame)
      /\ frame' = [frame EXCEPT !.running = 0] /\ UNCHANGED <<rw, stage, pass, registered, ending, destPanics>>
  BY Zenon DEF ListenerReturns, CommitInv, CommitShape
<1>2. IsFrame(frame') /\ frame'.running = 0 /\ frame'.from = frame.from /\ frame'.status = frame.status
  BY <1>1, Zenon DEF IsFrame
<1>3. /\ Once' /\ tried' \in Seq(Attempts) /\ tried' # << >>
      /\ tried'[Len(tried')].how = "returned" /\ tried'[Len(tried')].status = frame.status
  BY <1>1, <1>2, TriedKeeps, Zenon
<1>4. CommitShape'
  BY <1>1, <1>2, <1>3, Zenon DEF CommitInv, CommitShape, IsWriter, IsPass
<1>5. Placed'
  BY <1>1, <1>2, Zenon DEF CommitInv, Placed
<1>6. LastTried'
  BY <1>1, <1>2, <1>3, Zenon DEF CommitInv, LastTried, Placed, Application
<1>7. Closing'
  BY <1>1, Zenon DEF Closing
<1>8. Budgeted'
  BY <1>1, Zenon DEF CommitInv, Budgeted
<1> QED
  BY <1>3, <1>4, <1>5, <1>6, <1>7, <1>8, ZenonT(30) DEF CommitInv

LEMMA ListenerWritesKeeps == ASSUME CommitInv, NEW status \in Statuses, ListenerWrites(status) PROVE CommitInv'
<1>1. rw' = rw
  BY Zenon DEF ListenerWrites, WriteOutcome, CommitInv, Placed
<1> QED
  BY <1>1, CommitStutters, Zenon DEF ListenerWrites, commitVars

-----------------------------------------------------------------------------
(* Where a panic leads: to an answer, or to the end of the connection, and  *)
(* never because the budget ran out.                                        *)
LEMMA UnwindsTo ==
    ASSUME CommitInv, NEW place \in Application \cup {"finalize"}, NEW kind \in {"listener", "own", "abort"},
           IsWriter(rw'), rw'.attempts = rw.attempts, rw'.pending = rw.pending,
           kind = "listener" \/ rw.state # "idle" => rw'.state # "idle", Unwinds(place, kind, rw')
    PROVE  /\ IsPass(pass') /\ Budgeted'
           /\ \/ stage' = "panicAnswer" /\ ending' = ending
              \/ stage' = "close" /\ ending' # "no"
<1>0. /\ IsPass(pass) /\ IsWriter(rw) /\ Budgeted /\ Len(rw.pending) \in Nat
      /\ pass.attempted \in Nat /\ pass.budget \in Nat /\ rw.attempts \in Nat
  BY LenProperties, Zenon DEF CommitInv, CommitShape, IsPass, IsWriter
<1>1. ASSUME NEW why \in {"abort", "own"}, EndsWith(why)
      PROVE  IsPass(pass') /\ Budgeted' /\ stage' = "close" /\ ending' # "no"
  <2>1. pass' = pass /\ stage' = "close" /\ ending' = why /\ why # "no" /\ why # "budget"
    BY <1>1, Zenon DEF EndsWith
  <2>2. Budgeted'
    BY <1>0, <2>1, Zenon DEF Budgeted
  <2> QED
    BY <1>0, <2>1, <2>2, Zenon
<1>2. ASSUME NEW by, Answers(by)
      PROVE  IsPass(pass') /\ Budgeted' /\ stage' = "panicAnswer" /\ ending' = ending
  <2>1. /\ pass'.taken = FALSE /\ pass'.attempted = rw'.attempts /\ pass'.budget = 0 /\ pass'.by = by
        /\ pass' = [attempted |-> pass'.attempted, budget |-> pass'.budget, taken |-> pass'.taken, by |-> pass'.by]
        /\ stage' = "panicAnswer" /\ ending' = ending
    BY <1>2, Zenon DEF Answers
  <2>2. IsPass(pass')
    <3>1. rw'.attempts \in Nat /\ 0 \in Nat /\ FALSE \in BOOLEAN
      BY <1>0, Zenon
    <3> QED
      BY <2>1, <3>1, Zenon DEF IsPass
  <2>3. Budgeted'
    BY <1>0, <2>1 DEF Budgeted
  <2> QED
    BY <2>1, <2>2, <2>3, Zenon
<1>3. ASSUME kind = "listener", rw'.attempts # pass.attempted, NextPass(rw')
      PROVE  IsPass(pass') /\ Budgeted' /\ stage' = "panicAnswer" /\ ending' = ending
  <2> DEFINE budget == IF pass.taken THEN pass.budget ELSE Len(rw'.pending) + 1
  <2>1. budget \in Nat \ {0} /\ Len(rw.pending) <= budget - 1
    BY <1>0, <1>3 DEF Budgeted, IsPass
  <2>2. /\ stage' = "panicAnswer" /\ ending' = ending
        /\ pass' = [pass EXCEPT !.attempted = rw'.attempts, !.budget = budget - 1, !.taken = TRUE]
    BY <1>3, <2>1, Zenon DEF NextPass
  <2> HIDE DEF budget
  <2>3. /\ pass'.taken = TRUE /\ pass'.attempted = rw'.attempts /\ pass'.budget = budget - 1 /\ pass'.by = pass.by
        /\ pass' = [attempted |-> pass'.attempted, budget |-> pass'.budget, taken |-> pass'.taken, by |-> pass'.by]
    BY <1>0, <2>2, Zenon DEF IsPass
  <2>4. IsPass(pass')
    <3>1. rw'.attempts \in Nat /\ budget - 1 \in Nat /\ TRUE \in BOOLEAN
      BY <1>0, <2>1
    <3> QED
      BY <2>3, <3>1, Zenon DEF IsPass
  <2>5. Budgeted'
    BY <1>0, <1>3, <2>1, <2>2, <2>3 DEF Budgeted
  <2> QED
    BY <2>2, <2>4, <2>5, Zenon
<1> QED
  BY <1>1, <1>2, <1>3, Zenon DEF Unwinds
LEMMA ListenerPanicsKeeps == ASSUME CommitInv, NEW kind \in {"listener", "abort"}, ListenerPanics(kind) PROVE CommitInv'
<1>1. /\ stage = "dispatch" /\ frame.running # 0 /\ Tried("panicked") /\ frame' = NoFrame
      /\ rw' = [rw EXCEPT !.state = IF rw.pending = << >> THEN "done" ELSE "resumed"]
      /\ \/ Unwinds(frame.from, kind, rw')
         \/ frame.from \in Application /\ stage' = frame.from /\ UNCHANGED <<pass, ending>>
      /\ UNCHANGED <<registered, destPanics>>
  BY Zenon DEF ListenerPanics
<1>2. /\ IsWriter(rw') /\ rw'.state \in {"done", "resumed"} /\ rw'.pending = rw.pending /\ rw'.attempts = rw.attempts
      /\ rw'.committed = rw.committed /\ rw'.status = rw.status /\ rw'.hijacked = rw.hijacked
  <2> DEFINE s == IF rw.pending = << >> THEN "done" ELSE "resumed"
  <2>1. IsWriter(rw) /\ rw' = [rw EXCEPT !.state = s] /\ s \in {"done", "resumed"}
    BY <1>1, Zenon DEF CommitInv, CommitShape
  <2> HIDE DEF s
  <2> QED
    BY <2>1, StateSets
<1>3. IsFrame(frame') /\ frame'.running = 0
  BY <1>1, Zenon DEF NoFrame, IsFrame
<1>4. /\ Once' /\ tried' \in Seq(Attempts) /\ tried' # << >> /\ tried'[Len(tried')].how = "panicked"
  BY <1>1, <1>2, <1>3, TriedKeeps, Zenon
<1>5. frame.from \in Application \cup {"finalize"} /\ ~rw.committed
  BY <1>1, Zenon DEF CommitInv, Placed
<1>6. /\ IsPass(pass') /\ Budgeted'
      /\ \/ stage' \in Application /\ ending' = ending
         \/ stage' = "close" /\ ending' # "no"
  <2>1. CASE Unwinds(frame.from, kind, rw')
    <3>1. /\ IsPass(pass') /\ Budgeted'
          /\ \/ stage' = "panicAnswer" /\ ending' = ending
             \/ stage' = "close" /\ ending' # "no"
      BY <1>2, <1>5, <2>1, UnwindsTo, Zenon
    <3> QED
      BY <3>1, Zenon DEF Application
  <2>2. CASE frame.from \in Application /\ stage' = frame.from /\ UNCHANGED <<pass, ending>>
    <3>1. IsPass(pass') /\ Budgeted'
      BY <1>2, <2>2, Zenon DEF CommitInv, CommitShape, Budgeted
    <3> QED
      BY <2>2, <3>1, Zenon
  <2> QED
    BY <1>1, <2>1, <2>2, Zenon
<1>7. CommitShape'
  BY <1>1, <1>2, <1>3, <1>4, <1>6, Zenon DEF CommitInv, CommitShape
<1>8. Placed'
  BY <1>1, <1>2, <1>3, <1>5, <1>6, Zenon DEF CommitInv, Placed, Application
<1>9. LastTried'
  <2>1. stage' # "dispatch" /\ ~rw'.committed
    BY <1>2, <1>5, <1>6, Zenon DEF Application
  <2> QED
    BY <1>4, <2>1, Zenon DEF LastTried
<1>10. Closing'
  BY <1>6, Zenon DEF Closing, Application
<1> QED
  BY <1>4, <1>6, <1>7, <1>8, <1>9, <1>10, ZenonT(30) DEF CommitInv

LEMMA DispatchEndsKeeps == CommitInv /\ DispatchEnds => CommitInv'
<1> SUFFICES ASSUME CommitInv, DispatchEnds PROVE CommitInv'
  OBVIOUS
<1> DEFINE w == [rw EXCEPT !.state = "done"]
<1>1. /\ stage = "dispatch" /\ frame.running = 0 /\ rw.pending = << >> /\ frame' = NoFrame
      /\ registered' = registered /\ tried' = tried
  BY Zenon DEF DispatchEnds
<1>2. /\ IsWriter(w) /\ w.state = "done" /\ w.pending = rw.pending /\ w.attempts = rw.attempts
      /\ w.committed = rw.committed /\ w.status = rw.status /\ w.hijacked = rw.hijacked
  <2>1. IsWriter(rw)
    BY Zenon DEF CommitInv, CommitShape
  <2> QED
    BY <2>1, StateSets
<1>3. \/ /\ frame.from = "finalize" /\ rw' = w
         /\ stage' = "close" /\ UNCHANGED <<pass, ending, destPanics>>
      \/ /\ frame.from # "finalize" /\ rw' = Committing(w, frame.status)
         /\ stage' = frame.from /\ UNCHANGED <<pass, ending, destPanics>>
      \/ /\ frame.from # "finalize" /\ rw' = w /\ destPanics' = destPanics + 1
         /\ Unwinds(frame.from, "own", w)
  BY Zenon DEF DispatchEnds
<1> HIDE DEF w
<1>4. IsFrame(frame') /\ frame'.running = 0
  BY <1>1, Zenon DEF NoFrame, IsFrame
<1>5. /\ frame.from \in Application \cup {"finalize"} /\ ~rw.committed /\ rw.status = 0
      /\ tried # << >> /\ tried[Len(tried)].status = frame.status
      /\ destPanics \in Nat /\ IsPass(pass) /\ Budgeted
  BY <1>1, Zenon DEF CommitInv, CommitShape, Placed, LastTried
<1>6. ~rw.hijacked => Len(tried) = registered
  BY <1>1, NothingLeft, Zenon DEF CommitInv
<1>7. CASE frame.from = "finalize" /\ rw' = w /\ stage' = "close" /\ UNCHANGED <<pass, ending, destPanics>>
  <2>1. Once'
    BY <1>1, <1>2, <1>4, <1>7, OnceSame, ZenonT(30) DEF CommitInv
  <2>2. CommitShape'
    BY <1>1, <1>2, <1>4, <1>7, ZenonT(30) DEF CommitInv, CommitShape
  <2>3. Placed' /\ LastTried'
    BY <1>1, <1>2, <1>4, <1>5, <1>7, ZenonT(30) DEF Placed, LastTried, Application
  <2>4. Closing'
    BY <1>1, <1>2, <1>6, <1>7, ZenonT(30) DEF Closing
  <2>5. Budgeted'
    BY <1>2, <1>5, <1>7, ZenonT(30) DEF Budgeted
  <2> QED
    BY <2>1, <2>2, <2>3, <2>4, <2>5, ZenonT(30) DEF CommitInv
<1>8. CASE /\ frame.from # "finalize" /\ rw' = Committing(w, frame.status)
           /\ stage' = frame.from /\ UNCHANGED <<pass, ending, destPanics>>
  <2>1. /\ IsWriter(rw') /\ rw'.state = "done" /\ rw'.pending = rw.pending /\ rw'.attempts = rw.attempts
        /\ rw'.committed /\ rw'.status = frame.status /\ rw'.hijacked = rw.hijacked
    BY <1>2, <1>8, CommitSets
  <2>2. stage' \in Application /\ stage' # "dispatch" /\ stage' # "close" /\ stage' # "over"
    BY <1>5, <1>8, Zenon DEF Application
  <2>3. Once'
    BY <1>1, <1>4, <2>1, OnceSame, ZenonT(30) DEF CommitInv
  <2>4. CommitShape'
    BY <1>1, <1>4, <1>8, <2>1, ZenonT(30) DEF CommitInv, CommitShape
  <2>5. Placed'
    BY <1>1, <1>4, <2>1, <2>2, Zenon DEF Placed
  <2>6. LastTried'
    BY <1>1, <1>5, <2>1, <2>2, Zenon DEF LastTried
  <2>7. Closing'
    BY <2>2, Zenon DEF Closing
  <2>8. Budgeted'
    BY <1>5, <1>8, <2>1, Zenon DEF Budgeted
  <2> QED
    BY <2>3, <2>4, <2>5, <2>6, <2>7, <2>8, ZenonT(30) DEF CommitInv
<1>9. CASE frame.from # "finalize" /\ rw' = w /\ destPanics' = destPanics + 1 /\ Unwinds(frame.from, "own", w)
  <2>1. /\ IsPass(pass') /\ Budgeted'
        /\ \/ stage' = "panicAnswer" /\ ending' = ending
           \/ stage' = "close" /\ ending' # "no"
    BY <1>2, <1>5, <1>9, UnwindsTo, Zenon
  <2>2. Once'
    BY <1>1, <1>2, <1>4, <1>9, OnceSame, ZenonT(30) DEF CommitInv
  <2>3. CommitShape'
    BY <1>1, <1>2, <1>4, <1>5, <1>9, <2>1 DEF CommitInv, CommitShape
  <2>4. Placed'
    BY <1>1, <1>2, <1>4, <1>5, <1>9, <2>1, Zenon DEF Placed
  <2>5. LastTried'
    <3>1. destPanics' # 0 /\ stage' # "dispatch"
      BY <1>5, <1>9, <2>1
    <3> QED
      BY <3>1, Zenon DEF LastTried
  <2>6. Closing'
    BY <2>1, Zenon DEF Closing
  <2> QED
    BY <2>1, <2>2, <2>3, <2>4, <2>5, <2>6, ZenonT(30) DEF CommitInv
<1> QED
  BY <1>3, <1>7, <1>8, <1>9, Zenon
LEMMA ApplicationPanicsKeeps == ASSUME CommitInv, NEW kind \in {"own", "abort"}, ApplicationPanics(kind) PROVE CommitInv'
<1>1. /\ stage \in Application /\ rw' = rw /\ Unwinds(stage, kind, rw')
      /\ UNCHANGED <<frame, registered, tried, destPanics>>
  BY Zenon DEF ApplicationPanics
<1>2. /\ IsPass(pass') /\ Budgeted'
      /\ \/ stage' = "panicAnswer" /\ ending' = ending
         \/ stage' = "close" /\ ending' # "no"
  <2>1. IsWriter(rw')
    BY <1>1, Zenon DEF CommitInv, CommitShape
  <2> QED
    BY <1>1, <2>1, UnwindsTo, Zenon
<1>3. CommitShape'
  BY <1>1, <1>2, Zenon DEF CommitInv, CommitShape, IsWriter, IsFrame
<1>4. Placed'
  BY <1>1, <1>2, Zenon DEF CommitInv, Placed, Application
<1>5. Once'
  BY <1>1, OnceSame, Zenon DEF CommitInv
<1>6. LastTried'
  BY <1>1, <1>2, Zenon DEF CommitInv, LastTried, Application
<1>7. Closing'
  BY <1>2, Zenon DEF Closing
<1> QED
  BY <1>2, <1>3, <1>4, <1>5, <1>6, <1>7, ZenonT(30) DEF CommitInv

(* The request moves on outside a dispatch, to the end or not. *)
LEMMA MovesOn ==
    ASSUME CommitInv, UNCHANGED <<rw, frame, pass, registered, tried, ending, destPanics>>,
           stage # "dispatch", stage' # "dispatch", stage' \in Application => stage \in Application, Closing'
    PROVE  CommitInv'
<1>1. CommitShape' /\ Budgeted'
  BY Zenon DEF CommitInv, CommitShape, Budgeted, IsWriter, IsFrame, IsPass
<1>2. Placed'
  BY Zenon DEF CommitInv, Placed
<1>3. Once'
  BY OnceSame, Zenon DEF CommitInv
<1>4. LastTried'
  BY Zenon DEF CommitInv, LastTried
<1> QED
  BY <1>1, <1>2, <1>3, <1>4, Zenon DEF CommitInv

LEMMA RequestKeeps == CommitInv /\ (HandlerReturns \/ AnswerReturns \/ Finalize \/ Close) => CommitInv'
<1>1. ASSUME CommitInv, HandlerReturns PROVE CommitInv'
  <2>1. Closing'
    BY <1>1, Zenon DEF HandlerReturns, Closing
  <2> QED
    BY <1>1, <2>1, MovesOn, Zenon DEF HandlerReturns, Application
<1>2. ASSUME CommitInv, AnswerReturns PROVE CommitInv'
  <2>1. Closing'
    <3>1. frame.running = 0 /\ (rw.committed => rw.pending = << >>)
      BY <1>2, Zenon DEF AnswerReturns, CommitInv, Placed
    <3>2. rw.committed /\ ~rw.hijacked => Len(tried) = registered
      BY <1>2, <3>1, NothingLeft, Zenon DEF CommitInv
    <3> QED
      BY <1>2, <3>2, Zenon DEF AnswerReturns, Closing
  <2> QED
    BY <1>2, <2>1, MovesOn, Zenon DEF AnswerReturns, Application
<1>3. ASSUME CommitInv, Finalize PROVE CommitInv'
  <2>1. CASE rw.pending # << >>
    <3>1. /\ BeginDispatch("finalize", 200) /\ 200 \in Statuses /\ stage # "dispatch" /\ ~rw.committed
          /\ UNCHANGED <<pass, registered, tried, ending, destPanics>>
      BY <1>3, <2>1, ListenersAssumption, Zenon DEF Finalize, CommitInv, Placed
    <3> QED
      BY <1>3, <2>1, <3>1, BeginDispatchKeeps, Zenon
  <2>2. CASE rw.pending = << >>
    <3>1. stage' = "close" /\ stage = "finalize" /\ frame.running = 0
          /\ UNCHANGED <<rw, frame, pass, registered, tried, ending, destPanics>>
      BY <1>3, <2>2, Zenon DEF Finalize, CommitInv, Placed
    <3>2. ~rw.hijacked => Len(tried) = registered
      BY <1>3, <2>2, <3>1, NothingLeft, Zenon DEF CommitInv
    <3>3. Closing'
      BY <3>1, <3>2, Zenon DEF Closing
    <3> QED
      BY <1>3, <3>1, <3>3, MovesOn, Zenon DEF Application
  <2> QED
    BY <2>1, <2>2, Zenon
<1>4. ASSUME CommitInv, Close PROVE CommitInv'
  <2>1. Closing'
    BY <1>4, Zenon DEF Close, Closing, CommitInv
  <2> QED
    BY <1>4, <2>1, MovesOn, Zenon DEF Close, Application
<1> QED
  BY <1>1, <1>2, <1>3, <1>4, Zenon

LEMMA CommitStep == CommitInv /\ [CommitNext]_commitVars => CommitInv'
  BY RegisterKeeps, HijackKeeps, CallListenerKeeps, ListenerReturnsKeeps, DispatchEndsKeeps, RequestKeeps,
     WritesKeeps, ListenerWritesKeeps, ListenerPanicsKeeps, ApplicationPanicsKeeps, CommitStutters, ZenonT(30)
  DEF CommitNext

-----------------------------------------------------------------------------
(* The order of the attempts *)

(* A step that leaves the listeners where they are, or ends a dispatch. *)
LEMMA SameOrder ==
    ASSUME LastFirst, rw'.pending = rw.pending, tried' = tried, frame'.running \in {0, frame.running},
           rw'.state = "idle" => rw.state = "idle"
    PROVE  LastFirst'
  BY ZenonT(30) DEF LastFirst

(* The new listener is above all that wait; none was tried. *)
LEMMA RegisterOrdered ==
    ASSUME CommitInv, LastFirst, Register
    PROVE  LastFirst'
<1> DEFINE n == Len(rw.pending)
<1>1. /\ tried = << >> /\ tried' = tried /\ frame' = frame /\ frame.running = 0 /\ IsWriter(rw) /\ registered \in Nat
      /\ rw' = [rw EXCEPT !.pending = Append(@, registered + 1)]
  BY Zenon DEF Register, CommitInv, CommitShape, Placed, LastFirst, Application
<1>2. rw'.pending = Append(rw.pending, registered + 1) /\ rw.pending \in Seq(Nat)
  BY <1>1, Zenon DEF IsWriter
<1>3. /\ n \in Nat /\ DOMAIN rw.pending = 1..n /\ DOMAIN rw'.pending = 1..(n + 1)
      /\ rw'.pending[n + 1] = registered + 1
      /\ \A a \in 1..n : rw'.pending[a] = rw.pending[a]
  BY <1>1, <1>2, AppendProperties, LenProperties
<1> HIDE DEF n
<1>4. /\ \A a \in 1..n : rw.pending[a] \in 1..registered
      /\ \A a, b \in 1..n : a < b => rw.pending[a] < rw.pending[b]
  BY <1>3, Zenon DEF CommitInv, Once, LastFirst
<1>5. \A a, b \in DOMAIN rw'.pending : a < b => rw'.pending[a] < rw'.pending[b]
  <2> SUFFICES ASSUME NEW a \in 1..(n + 1), NEW b \in 1..(n + 1), a < b
               PROVE  rw'.pending[a] < rw'.pending[b]
    BY <1>3, Zenon
  <2>1. a \in 1..n
    BY <1>3
  <2>2. CASE b = n + 1
    BY <1>1, <1>3, <1>4, <2>1, <2>2
  <2>3. CASE b # n + 1
    <3>1. b \in 1..n
      BY <1>3, <2>3
    <3> QED
      BY <1>3, <1>4, <2>1, <3>1, Zenon
  <2> QED
    BY <2>2, <2>3, Zenon
<1>6. DOMAIN tried' = {}
  BY <1>1, EmptySeq
<1> QED
  BY <1>1, <1>5, <1>6, Zenon DEF LastFirst

(* The top of the pending ones becomes the running one. *)
LEMMA CallListenerOrdered ==
    ASSUME CommitInv, LastFirst, CallListener
    PROVE  LastFirst'
<1> DEFINE n == Len(rw.pending)
<1>1. /\ IsWriter(rw) /\ IsFrame(frame) /\ rw.pending # << >> /\ tried' = tried
      /\ rw' = [rw EXCEPT !.pending = SubSeq(@, 1, n - 1), !.attempts = @ + 1]
      /\ frame' = [frame EXCEPT !.running = rw.pending[n]]
  BY Zenon DEF CallListener, CommitInv, CommitShape
<1>2. /\ rw'.pending = SubSeq(rw.pending, 1, n - 1) /\ rw'.state = rw.state
      /\ frame'.running = rw.pending[n] /\ rw.pending \in Seq(Nat)
  BY <1>1, Zenon DEF IsWriter, IsFrame
<1>3. n \in Nat \ {0} /\ DOMAIN rw.pending = 1..n
  BY <1>1, <1>2, EmptySeq, LenProperties, Zenon
<1>4. DOMAIN rw'.pending = 1..(n - 1) /\ \A a \in 1..(n - 1) : rw'.pending[a] = rw.pending[a]
  BY <1>2, <1>3, SubSeqProperties, LenProperties, SMTT(30)
<1> HIDE DEF n
<1>5. \A a \in DOMAIN rw'.pending : a \in DOMAIN rw.pending /\ a < n /\ rw'.pending[a] = rw.pending[a]
  BY <1>3, <1>4
<1>6. n \in DOMAIN rw.pending
  BY <1>3
<1>7. /\ \A a, b \in DOMAIN rw'.pending : a < b => rw'.pending[a] < rw'.pending[b]
      /\ \A b \in DOMAIN rw'.pending : rw'.pending[b] < frame'.running
      /\ \A a \in DOMAIN tried' : frame'.running < tried'[a].listener
      /\ \A a \in DOMAIN tried', b \in DOMAIN rw'.pending : rw'.pending[b] < tried'[a].listener
  BY <1>1, <1>2, <1>5, <1>6, ZenonT(30) DEF LastFirst
<1> QED
  BY <1>1, <1>2, <1>7, Zenon DEF LastFirst

(* The running listener is below all that were tried and becomes the last. *)
LEMMA TriedOrdered ==
    ASSUME CommitInv, LastFirst, NEW how, Tried(how), frame.running # 0,
           rw'.pending = rw.pending, frame'.running = 0, rw'.state # "idle"
    PROVE  LastFirst'
<1> DEFINE e == [listener |-> frame.running, status |-> frame.status, how |-> how]
           m == Len(tried)
<1>1. tried' = Append(tried, e) /\ tried \in Seq(Attempts) /\ e.listener = frame.running
  BY Zenon DEF Tried, CommitInv, CommitShape
<1> HIDE DEF e
<1>2. /\ m \in Nat /\ tried'[m + 1] = e /\ \A a \in 1..m : tried'[a] = tried[a]
      /\ DOMAIN tried = 1..m /\ DOMAIN tried' = 1..(m + 1)
  <2>1. tried \in Seq(Attempts \cup {e}) /\ e \in Attempts \cup {e}
    BY <1>1
  <2> QED
    BY <1>1, <2>1, AppendProperties, LenProperties
<1> HIDE DEF m
<1>3. \A a \in DOMAIN tried' : (a = m + 1 /\ tried'[a] = e) \/ (a \in DOMAIN tried /\ tried'[a] = tried[a])
  <2>1. \A a \in 1..(m + 1) : a = m + 1 \/ a \in 1..m
    BY <1>2
  <2> QED
    BY <1>2, <2>1, Zenon
<1>4. \A a, b \in DOMAIN tried' : a < b => a \in DOMAIN tried
  BY <1>2
<1>5. /\ \A b \in DOMAIN rw.pending : rw.pending[b] < e.listener
      /\ \A a \in DOMAIN tried : e.listener < tried[a].listener
      /\ \A a \in DOMAIN tried, b \in DOMAIN rw.pending : rw.pending[b] < tried[a].listener
      /\ \A a, b \in DOMAIN tried : a < b => tried[b].listener < tried[a].listener
      /\ \A a, b \in DOMAIN rw.pending : a < b => rw.pending[a] < rw.pending[b]
  BY <1>1, Zenon DEF LastFirst
<1>6. \A a \in DOMAIN tried', b \in DOMAIN rw'.pending : rw'.pending[b] < tried'[a].listener
  BY <1>3, <1>5, ZenonT(30)
<1>7. \A a, b \in DOMAIN tried' : a < b => tried'[b].listener < tried'[a].listener
  <2> SUFFICES ASSUME NEW a \in DOMAIN tried', NEW b \in DOMAIN tried', a < b
               PROVE  tried'[b].listener < tried'[a].listener
    OBVIOUS
  <2>1. a \in DOMAIN tried /\ tried'[a] = tried[a]
    BY <1>2, <1>4, Zenon
  <2> QED
    BY <1>3, <1>5, <2>1, Zenon
<1> QED
  BY <1>5, <1>6, <1>7, Zenon DEF LastFirst

LEMMA OrderInit == CommitInit => LastFirst
<1> SUFFICES ASSUME CommitInit PROVE LastFirst
  OBVIOUS
<1>1. tried = << >> /\ rw.pending = << >> /\ frame.running = 0
  BY Zenon DEF CommitInit, NoFrame
<1>2. DOMAIN tried = {} /\ DOMAIN rw.pending = {}
  BY <1>1, EmptySeq
<1> QED
  BY <1>1, <1>2, Zenon DEF LastFirst

LEMMA OrderStep == CommitInv /\ LastFirst /\ [CommitNext]_commitVars => LastFirst'
<1> SUFFICES ASSUME CommitInv, LastFirst, [CommitNext]_commitVars PROVE LastFirst'
  OBVIOUS
<1>0. IsWriter(rw) /\ IsFrame(frame)
  BY Zenon DEF CommitInv, CommitShape
<1>1. ASSUME UNCHANGED <<rw, frame, tried>> PROVE LastFirst'
  BY <1>1, SameOrder, Zenon
<1>2. ASSUME NEW from, NEW status, BeginDispatch(from, status), tried' = tried PROVE LastFirst'
  <2>1. rw'.pending = rw.pending /\ rw'.state = "dispatching" /\ frame'.running = 0
    BY <1>0, <1>2, Zenon DEF BeginDispatch, IsWriter
  <2> QED
    BY <1>2, <2>1, SameOrder, Zenon
<1>3. ASSUME NEW status, rw' = Committing(rw, status), UNCHANGED <<frame, tried>> PROVE LastFirst'
  <2>1. rw'.pending = rw.pending /\ rw'.state = rw.state
    BY <1>0, <1>3, Zenon DEF Committing, IsWriter
  <2> QED
    BY <1>3, <2>1, SameOrder, Zenon
<1>4. CASE Hijack
  <2>1. rw'.pending = << >> /\ rw'.state = "done" /\ UNCHANGED <<frame, tried>> /\ frame.running = 0
    BY <1>0, <1>4, Zenon DEF Hijack, IsWriter, CommitInv, Placed
  <2>2. DOMAIN rw'.pending = {}
    BY <2>1, EmptySeq
  <2> QED
    BY <2>1, <2>2, Zenon DEF LastFirst
<1>5. CASE ListenerReturns
  <2>1. /\ frame.running # 0 /\ Tried("returned") /\ rw' = rw /\ frame' = [frame EXCEPT !.running = 0]
        /\ rw.state = "dispatching"
    BY <1>5, Zenon DEF ListenerReturns, CommitInv, Placed
  <2>2. frame'.running = 0
    BY <1>0, <2>1, Zenon DEF IsFrame
  <2> QED
    BY <2>1, <2>2, TriedOrdered, Zenon
<1>6. ASSUME NEW kind, ListenerPanics(kind) PROVE LastFirst'
  <2>1. frame.running # 0 /\ Tried("panicked") /\ frame' = NoFrame
        /\ rw' = [rw EXCEPT !.state = IF rw.pending = << >> THEN "done" ELSE "resumed"]
    BY <1>6, Zenon DEF ListenerPanics
  <2>2. rw'.pending = rw.pending /\ rw'.state # "idle" /\ frame'.running = 0
    BY <1>0, <2>1, Zenon DEF IsWriter, NoFrame
  <2> QED
    BY <2>1, <2>2, TriedOrdered, Zenon
<1>7. CASE DispatchEnds
  <2>1. tried' = tried /\ frame'.running = 0
    BY <1>7, Zenon DEF DispatchEnds, NoFrame
  <2>2. rw'.pending = rw.pending /\ rw'.state = "done"
    <3> DEFINE w == [rw EXCEPT !.state = "done"]
    <3>1. w.pending = rw.pending /\ w.state = "done" /\ IsWriter(w)
      BY <1>0, StateSets
    <3>2. rw' = w \/ rw' = Committing(w, frame.status)
      BY <1>7, Zenon DEF DispatchEnds
    <3> HIDE DEF w
    <3>3. ASSUME rw' = Committing(w, frame.status) PROVE rw'.pending = w.pending /\ rw'.state = w.state
      BY <3>1, <3>3, CommitSets
    <3> QED
      BY <3>1, <3>2, <3>3, Zenon
  <2> QED
    BY <2>1, <2>2, SameOrder, Zenon
<1>8. ASSUME NEW status, Writes(status) PROVE LastFirst'
  BY <1>1, <1>2, <1>3, <1>8, Zenon DEF Writes
<1>9. ASSUME NEW status, ListenerWrites(status) PROVE LastFirst'
  BY <1>1, <1>3, <1>9, Zenon DEF ListenerWrites
<1>10. CASE HandlerReturns \/ AnswerReturns \/ Close \/ UNCHANGED commitVars
  BY <1>1, <1>10, Zenon DEF HandlerReturns, AnswerReturns, Close, commitVars
<1>11. ASSUME NEW kind, ApplicationPanics(kind) PROVE LastFirst'
  BY <1>1, <1>11, Zenon DEF ApplicationPanics
<1>12. CASE Finalize
  BY <1>1, <1>2, <1>12, Zenon DEF Finalize
<1> QED
  BY <1>4, <1>5, <1>6, <1>7, <1>8, <1>9, <1>10, <1>11, <1>12, RegisterOrdered, CallListenerOrdered, ZenonT(30)
  DEF CommitNext

(* For any number of listeners: headers leave only after every listener was *)
(* attempted, each once and the last registered first, the last attempt     *)
(* with the status the client gets,                                         *)
(* and no panic of a listener ends the connection for want of budget        *)
(* (dispatch, WriteHeader, finalize, onPanic, answerPanic).                 *)
THEOREM ListenersRunFirst == CommitSpec => []ListenersFirst
<1>1. CommitInit => CommitInv /\ LastFirst
  BY CommitInit_Inv, OrderInit, Zenon
<1>2. CommitInv /\ LastFirst /\ [CommitNext]_commitVars => CommitInv' /\ LastFirst'
  BY CommitStep, OrderStep, Zenon
<1>3. CommitInv /\ LastFirst => ListenersFirst
  BY InvImpliesFirst, Zenon
<1> QED
  BY <1>1, <1>2, <1>3, PTL DEF CommitSpec
=============================================================================
