--------------------------- MODULE ServerSession ---------------------------
(***************************************************************************)
(* Sessions kept on the server (auth/drivers/session/server.go): requests  *)
(* that overlap load the session their cookie names, change their copy and *)
(* save it, while the record may be revoked, signed out or expire.  A      *)
(* record store call is one step, as auth.ServerSessionStore promises      *)
(* (SessionRecords models the store).  The transitions of one session take *)
(* turns (internal/buildonce/serial.go): turn[r] is the one in progress.   *)
(* Put, Flash and a read of the request's own flash take no turn.          *)
(***************************************************************************)
EXTENDS Naturals, FiniteSets

LOCAL INSTANCE Bags

CONSTANTS
    Requests,      \* requests of the visitors
    DataKeys,      \* keys of the data section, "user" (UserIDSessionKey) among them
    FlashKeys,     \* keys of the flash section
    Nil,           \* no value
    MaxIds,        \* bound: session ids drawn
    MaxOps,        \* bound: operations of the handlers
    MaxStoreFaults \* bound: store calls that fail

ASSUME SessionAssumption == "user" \in DataKeys /\ Nil \notin Requests \cup {"u"}

Ids == 1..MaxIds
NoRecord == [owner |-> FALSE, absent |-> TRUE]

VARIABLES
    records,    \* records[i]: the record of session id i
    sess,       \* sess[r]: the ServerSession of request r
    turn,       \* turn[r]: the transition in progress and what it holds
    opsLeft,    \* operations the handlers may still make
    issued,     \* ids some response's cookie carried
    drawn,      \* ids drawn so far
    movedFrom,  \* movedFrom[i]: the id whose record a save moved to i, or 0
    revoked,    \* issued ids whose signed-in record was ended: revoked, signed out, signed in anew
    delivered,  \* the bag of flash values that records delivered: value and record id
    storeFaults \* store calls that failed

sessVars == <<records, sess, turn, opsLeft, issued, drawn, movedFrom, revoked, delivered, storeFaults>>

NoData == [k \in DataKeys |-> Nil]
NoFlash == [k \in FlashKeys |-> Nil]
NoBase == [data |-> Nil]
Idle == [at |-> "none"]
Has(i) == records[i] # NoRecord

(* A session made new, with no record yet (ServerStore.Create): it is       *)
(* modified, so that its first save sends the cookie.                       *)
Created(i) ==
    [on |-> TRUE, id |-> i, saved |-> 0, data |-> NoData, flash |-> NoFlash, base |-> NoBase,
     own |-> [k \in FlashKeys |-> 0], sets |-> 0, modified |-> TRUE, destroyed |-> FALSE,
     retiring |-> FALSE, touched |-> {}]

Off == [on |-> FALSE]

(* Earlier requests left a record under id 1, with a flash. *)
SessInit ==
    /\ \E owned \in BOOLEAN :
        records = [i \in Ids |->
            IF i = 1
            THEN [owner |-> owned, aged |-> FALSE,
                  data |-> [NoData EXCEPT !["user"] = IF owned THEN "u" ELSE Nil],
                  flash |-> [k \in FlashKeys |-> <<"before", k>>]]
            ELSE NoRecord]
    /\ sess = [r \in Requests |-> Off] /\ turn = [r \in Requests |-> Idle] /\ opsLeft = MaxOps
    /\ issued = {1} /\ drawn = 1 /\ movedFrom = [i \in Ids |-> 0] /\ revoked = {}
    /\ delivered = EmptyBag /\ storeFaults = 0

Draw(i) == i = drawn + 1 /\ i \in Ids /\ drawn' = i

Fails == storeFaults < MaxStoreFaults /\ storeFaults' = storeFaults + 1

(* An operation of the handler of r. *)
Operates(r) == sess[r].on /\ opsLeft > 0 /\ opsLeft' = opsLeft - 1

(* An operation that takes the session's turn. *)
TakesTurn(r) == turn[r] = Idle /\ Operates(r)

ghosts == <<issued, movedFrom, revoked, delivered>>

(* A client's cookie names a signed-in record under i. *)
SignedIn(i) == i \in issued /\ Has(i) /\ records[i].owner

(* The record of i is deleted for good. *)
Ends(i) ==
    /\ records' = [records EXCEPT ![i] = NoRecord]
    /\ revoked' = IF SignedIn(i) THEN revoked \cup {i} ELSE revoked

-----------------------------------------------------------------------------
(* Loading: ServerStore.Get *)

LoadFresh(r) ==
    /\ ~sess[r].on /\ turn[r] = Idle /\ opsLeft > 0
    /\ \E i \in Ids : Draw(i) /\ sess' = [sess EXCEPT ![r] = Created(i)]
    /\ UNCHANGED <<records, turn, opsLeft, ghosts, storeFaults>>

(* The cookie names a live record. *)
LoadRecord(r, i) ==
    /\ ~sess[r].on /\ turn[r] = Idle /\ opsLeft > 0
    /\ i \in issued /\ Has(i) /\ ~records[i].aged
    /\ LET rec == records[i] IN
       sess' = [sess EXCEPT ![r] = [Created(i) EXCEPT
                    !.modified = FALSE, !.saved = i, !.data = rec.data, !.flash = rec.flash,
                    !.base = [data |-> rec.data, flash |-> rec.flash]]]
    /\ UNCHANGED <<records, turn, opsLeft, ghosts, drawn, storeFaults>>

(* The record is past the lifetime policy: the load is refused, and the    *)
(* record retired if it still is past it when the removal lands.           *)
LoadAged(r, i) ==
    /\ ~sess[r].on /\ turn[r] = Idle /\ opsLeft > 0 /\ i \in issued /\ Has(i) /\ records[i].aged
    /\ turn' = [turn EXCEPT ![r] = [at |-> "reap", id |-> i]]
    /\ UNCHANGED <<records, sess, opsLeft, ghosts, drawn, storeFaults>>

Reap(r) ==
    /\ turn[r].at = "reap"
    /\ LET i == turn[r].id IN
       \/ /\ records' = IF Has(i) /\ records[i].aged THEN [records EXCEPT ![i] = NoRecord] ELSE records
          /\ UNCHANGED storeFaults
       \/ Fails /\ UNCHANGED records
    /\ turn' = [turn EXCEPT ![r] = Idle]
    /\ \E i \in Ids : Draw(i) /\ sess' = [sess EXCEPT ![r] = Created(i)]
    /\ UNCHANGED <<opsLeft, ghosts>>

-----------------------------------------------------------------------------
(* What the handler does to its copy *)

PutValue(r, k) ==
    /\ Operates(r) /\ k # "user"
    /\ sess' = [sess EXCEPT ![r].data[k] = r, ![r].modified = TRUE, ![r].touched = @ \cup {k}]
    /\ UNCHANGED <<records, turn, ghosts, drawn, storeFaults>>

(* The n-th value the request flashes is <<r, n>>. *)
Flash(r, k) ==
    /\ Operates(r)
    /\ LET n == sess[r].sets + 1 IN
       sess' = [sess EXCEPT ![r].flash[k] = <<r, n>>, ![r].own[k] = n, ![r].sets = n,
                            ![r].modified = TRUE]
    /\ UNCHANGED <<records, turn, ghosts, drawn, storeFaults>>

Persisted(s) == s.saved # 0 /\ s.saved = s.id /\ s.base # NoBase

(* localFlashLocked: the value is consumed in memory. *)
LocalFlash(s, k) == ~(s.own[k] = 0 /\ Persisted(s) /\ s.base.flash[k] # Nil)

GetFlashLocal(r, k) ==
    /\ Operates(r) /\ LocalFlash(sess[r], k)
    /\ sess' = [sess EXCEPT ![r].flash[k] = Nil, ![r].own[k] = 0,
                            ![r].modified = @ \/ sess[r].flash[k] # Nil]
    /\ UNCHANGED <<records, turn, ghosts, drawn, storeFaults>>

Clear(r) ==
    /\ TakesTurn(r)
    /\ sess' = [sess EXCEPT ![r].data = NoData, ![r].flash = NoFlash, ![r].modified = TRUE,
                            ![r].own = [k \in FlashKeys |-> 0], ![r].touched = DataKeys]
    /\ UNCHANGED <<records, turn, ghosts, drawn, storeFaults>>

Regenerate(r) ==
    /\ TakesTurn(r) /\ ~sess[r].retiring
    /\ \E i \in Ids : Draw(i) /\ sess' = [sess EXCEPT ![r].id = i, ![r].modified = TRUE]
    /\ UNCHANGED <<records, turn, ghosts, storeFaults>>

-----------------------------------------------------------------------------
(* Sign-in and sign-out (auth/drivers/schemes/session.go) *)

(* loginReserved first retires the record of the id it rotates away from. *)
LoginRetire(r) ==
    /\ TakesTurn(r) /\ ~sess[r].retiring /\ ~sess[r].destroyed
    /\ Ends(sess[r].id)
    /\ sess' = [sess EXCEPT ![r].retiring = TRUE]
    /\ UNCHANGED <<turn, issued, movedFrom, delivered, drawn, storeFaults>>

(* Regenerate, the user key, and recordServerSession, whose failure is      *)
(* logged only.                                                             *)
LoginRecord(r) ==
    /\ turn[r] = Idle /\ sess[r].on /\ sess[r].retiring
    /\ \E i \in Ids :
        /\ Draw(i)
        /\ sess' = [sess EXCEPT ![r].id = i, ![r].data["user"] = "u", ![r].modified = TRUE,
                                ![r].retiring = FALSE, ![r].touched = @ \cup {"user"}]
        /\ \/ records' = [records EXCEPT ![i] = [owner |-> TRUE, aged |-> FALSE,
                                                 data |-> NoData, flash |-> NoFlash]]
              /\ UNCHANGED storeFaults
           \/ Fails /\ UNCHANGED records
    /\ UNCHANGED <<turn, opsLeft, ghosts>>

(* Logout: Invalidate, then the record of the id the session had. *)
Logout(r) ==
    /\ TakesTurn(r) /\ ~sess[r].retiring /\ ~sess[r].destroyed
    /\ \E i \in Ids :
        /\ Draw(i)
        /\ sess' = [sess EXCEPT ![r].destroyed = TRUE, ![r].id = i, ![r].data = NoData,
                                ![r].flash = NoFlash, ![r].own = [k \in FlashKeys |-> 0],
                                ![r].modified = TRUE]
        /\ \/ Ends(sess[r].id) /\ UNCHANGED storeFaults
           \/ Fails /\ UNCHANGED <<records, revoked>>
    /\ UNCHANGED <<turn, issued, movedFrom, delivered>>

-----------------------------------------------------------------------------
(* Saving: ServerStore.Save, holding the turn *)

(* The modified mark is cleared before the snapshot is taken. *)
SaveBegins(r) ==
    /\ TakesTurn(r) /\ ~sess[r].retiring /\ ~sess[r].destroyed /\ sess[r].modified
    /\ LET s == sess[r] IN
       turn' = [turn EXCEPT ![r] =
           [at |-> IF s.saved \notin {0, s.id}
                   THEN IF s.data["user"] # Nil THEN "probe" ELSE "retire"
                   ELSE "update",
            saved |-> s.saved, id |-> s.id, base |-> s.base, data |-> s.data, flash |-> s.flash,
            own |-> {k \in FlashKeys : s.own[k] # 0}, seq |-> s.sets, touched |-> s.touched,
            moves |-> FALSE]]
    /\ sess' = [sess EXCEPT ![r].modified = FALSE, ![r].touched = {}]
    /\ UNCHANGED <<records, ghosts, drawn, storeFaults>>

(* A destroyed session: the cookie goes, then its record. *)
SaveDestroyed(r) ==
    /\ TakesTurn(r) /\ sess[r].destroyed /\ sess[r].saved # 0
    /\ \/ Ends(sess[r].saved) /\ sess' = [sess EXCEPT ![r].saved = 0] /\ UNCHANGED storeFaults
       \/ Fails /\ UNCHANGED <<records, revoked, sess>>
    /\ UNCHANGED <<turn, issued, movedFrom, delivered, drawn>>

At(r, place) == turn[r].at = place
Goes(r, place) == turn' = [turn EXCEPT ![r].at = place]

(* The save fails: the mark is put back and no cookie is written. *)
SaveFails(r) ==
    /\ turn' = [turn EXCEPT ![r] = Idle]
    /\ sess' = [sess EXCEPT ![r].modified = TRUE, ![r].touched = @ \cup turn[r].touched]

(* A store call of the save fails. *)
SaveCallFails(r) ==
    /\ turn[r].at \in {"fetch", "put", "swap", "retire", "update", "create"}
    /\ Fails
    /\ IF turn[r].at = "swap" THEN Goes(r, "undo") /\ UNCHANGED sess ELSE SaveFails(r)
    /\ UNCHANGED <<records, opsLeft, ghosts, drawn>>

(* Is there a record under the new id already (a sign-in wrote it)?  An     *)
(* error other than not found goes on to the ordinary path.                 *)
Probe(r) ==
    /\ At(r, "probe")
    /\ \/ Goes(r, IF Has(turn[r].id) THEN "retire" ELSE "fetch") /\ UNCHANGED storeFaults
       \/ Fails /\ Goes(r, "retire")
    /\ UNCHANGED <<records, sess, opsLeft, ghosts, drawn>>

(* moveRecord: the record that vouches for the successor. *)
MoveFetch(r) ==
    /\ At(r, "fetch")
    /\ IF Has(turn[r].saved) /\ records[turn[r].saved].owner
       THEN Goes(r, "put") /\ UNCHANGED sess
       ELSE SaveFails(r)
    /\ UNCHANGED <<records, opsLeft, ghosts, drawn, storeFaults>>

Written(r, owned) ==
    [owner |-> owned, aged |-> FALSE, data |-> turn[r].data, flash |-> turn[r].flash]

MovePut(r) ==
    /\ At(r, "put")
    /\ records' = [records EXCEPT ![turn[r].id] = Written(r, TRUE)]
    /\ Goes(r, "swap")
    /\ UNCHANGED <<sess, opsLeft, ghosts, drawn, storeFaults>>

(* Bug: the successor is kept whether or not the old record was there. *)
MoveSwapUnchecked(r) ==
    /\ At(r, "swap")
    /\ records' = [records EXCEPT ![turn[r].saved] = NoRecord]
    /\ turn' = [turn EXCEPT ![r].at = "finish", ![r].moves = TRUE]
    /\ UNCHANGED <<sess, opsLeft, ghosts, drawn, storeFaults>>

MoveSwap(r) ==
    /\ At(r, "swap")
    /\ IF Has(turn[r].saved)
       THEN /\ records' = [records EXCEPT ![turn[r].saved] = NoRecord]
            /\ turn' = [turn EXCEPT ![r].at = "finish", ![r].moves = TRUE]
       ELSE Goes(r, "undo") /\ UNCHANGED records
    /\ UNCHANGED <<sess, opsLeft, ghosts, drawn, storeFaults>>

(* The successor is removed again, as far as the store can. *)
MoveUndo(r) ==
    /\ At(r, "undo")
    /\ \/ records' = [records EXCEPT ![turn[r].id] = NoRecord] /\ UNCHANGED storeFaults
       \/ Fails /\ UNCHANGED records
    /\ SaveFails(r)
    /\ UNCHANGED <<opsLeft, ghosts, drawn>>

(* The record of an id the session rotated away from goes first. *)
Retire(r) ==
    /\ At(r, "retire")
    /\ records' = [records EXCEPT ![turn[r].saved] = NoRecord]
    /\ turn' = [turn EXCEPT ![r].at = "update", ![r].saved = 0]
    /\ sess' = [sess EXCEPT ![r].saved = 0]
    /\ UNCHANGED <<opsLeft, ghosts, drawn, storeFaults>>

(* applyChanges: what now holds where it differs from the base. *)
Changed(current, base, now) ==
    [k \in DOMAIN current |-> IF now[k] # base[k] THEN now[k] ELSE current[k]]

(* Bug: the whole copy is written. *)
SavedWhole(t, rec) ==
    [owner |-> rec.owner, aged |-> FALSE, data |-> t.data, flash |-> t.flash]

(* Bug: the data is merged, the flash written as the session held it. *)
SavedFlashWhole(t, rec) ==
    LET merges == t.saved = t.id /\ t.base # NoBase IN
    [owner |-> rec.owner, aged |-> FALSE, flash |-> t.flash,
     data |-> IF merges THEN Changed(rec.data, t.base.data, t.data) ELSE t.data]

(* The record once the save is in it: a merge when the session was loaded   *)
(* from it, and the flash the request set itself in any case.               *)
Saved(t, rec) ==
    LET merges == t.saved = t.id /\ t.base # NoBase
        flash == IF merges THEN Changed(rec.flash, t.base.flash, t.flash) ELSE t.flash IN
    [owner |-> rec.owner, aged |-> FALSE,
     data |-> IF merges THEN Changed(rec.data, t.base.data, t.data) ELSE t.data,
     flash |-> [k \in FlashKeys |-> IF k \in t.own /\ t.flash[k] # Nil THEN t.flash[k] ELSE flash[k]]]

(* UpdateData: never creates a record.  A signed-out session's first save   *)
(* creates it.                                                              *)
Update(r) ==
    /\ At(r, "update")
    /\ LET t == turn[r] IN
       \/ /\ Has(t.id)
          /\ records' = [records EXCEPT ![t.id] = Saved(t, @)]
          /\ Goes(r, "finish") /\ UNCHANGED sess
       \/ /\ ~Has(t.id) /\ t.id # t.saved /\ sess[r].data["user"] = Nil
          /\ Goes(r, "create") /\ UNCHANGED <<records, sess>>
       \/ /\ ~Has(t.id) /\ (t.id = t.saved \/ sess[r].data["user"] # Nil)
          /\ SaveFails(r) /\ UNCHANGED records
    /\ UNCHANGED <<opsLeft, ghosts, drawn, storeFaults>>

CreateRecord(r) ==
    /\ At(r, "create")
    /\ records' = [records EXCEPT ![turn[r].id] = Written(r, FALSE)]
    /\ Goes(r, "finish")
    /\ UNCHANGED <<sess, opsLeft, ghosts, drawn, storeFaults>>

(* finishSave: the cookie, and what was written becomes the base.  A flash  *)
(* set after the snapshot stays the request's own.                          *)
FinishSave(r) ==
    /\ At(r, "finish")
    /\ LET t == turn[r] IN
       /\ sess' = [sess EXCEPT ![r].saved = t.id,
                ![r].base = [data |-> t.data, flash |-> t.flash],
                ![r].own = [k \in FlashKeys |-> IF @[k] <= t.seq THEN 0 ELSE @[k]]]
       /\ issued' = issued \cup {t.id}
       /\ movedFrom' = IF t.moves THEN [movedFrom EXCEPT ![t.id] = t.saved] ELSE movedFrom
    /\ turn' = [turn EXCEPT ![r] = Idle]
    /\ UNCHANGED <<records, opsLeft, revoked, delivered, drawn, storeFaults>>

-----------------------------------------------------------------------------
(* Flash and shared values held by the record *)

(* GetFlash and FlushFlash of loaded values: the keys asked for. *)
FlashBegins(r, ks, flush) ==
    /\ TakesTurn(r)
    /\ \E k \in ks : ~LocalFlash(sess[r], k) /\ sess[r].flash[k] # Nil
    /\ turn' = [turn EXCEPT ![r] = [at |-> "take", id |-> sess[r].id, ks |-> ks, flush |-> flush]]
    /\ UNCHANGED <<records, sess, ghosts, drawn, storeFaults>>

(* consumeFlash, in one UpdateData step; nothing to take writes nothing. *)
Take(r) ==
    /\ At(r, "take") /\ Has(turn[r].id)
    /\ LET t == turn[r]
           has == \E k \in t.ks : records[t.id].flash[k] # Nil IN
       /\ turn' = [turn EXCEPT ![r] = [at |-> "took", id |-> t.id, ks |-> t.ks, flush |-> t.flush,
                                         held |-> records[t.id].flash]]
       /\ records' = IF has
                THEN [records EXCEPT ![t.id].flash = [k \in FlashKeys |-> IF k \in t.ks THEN Nil ELSE @[k]],
                                     ![t.id].aged = FALSE]
                ELSE records
    /\ UNCHANGED <<sess, opsLeft, ghosts, drawn, storeFaults>>

(* The record is gone or the store fails: nothing is consumed. *)
TakeFails(r) ==
    /\ At(r, "take")
    /\ IF Has(turn[r].id) THEN Fails ELSE UNCHANGED storeFaults
    /\ turn' = [turn EXCEPT ![r] = Idle]
    /\ UNCHANGED <<records, sess, opsLeft, ghosts, drawn>>

(* The values leave the session; its own values stay for GetFlash, and lie  *)
(* over the record's for FlushFlash, which takes them all.                  *)
Took(r) ==
    /\ At(r, "took")
    /\ LET t == turn[r]
           s == sess[r]
           mine == {k \in t.ks : s.own[k] # 0} IN
       /\ delivered' = delivered (+) SetToBag(
            {[value |-> t.held[k], record |-> t.id] :
                k \in {x \in t.ks : t.held[x] # Nil /\ ~(t.flush /\ x \in mine)}})
       /\ sess' = [sess EXCEPT
            ![r].base = IF Persisted(s) THEN [@ EXCEPT !.flash = [k \in FlashKeys |-> IF k \in t.ks THEN Nil ELSE @[k]]]
                        ELSE @,
            ![r].flash = [k \in FlashKeys |-> IF k \in t.ks /\ (t.flush \/ k \notin mine) THEN Nil ELSE @[k]],
            ![r].own = IF t.flush THEN [k \in FlashKeys |-> 0] ELSE @,
            ![r].modified = TRUE]
    /\ turn' = [turn EXCEPT ![r] = Idle]
    /\ UNCHANGED <<records, opsLeft, issued, movedFrom, revoked, drawn, storeFaults>>

(* UpdateShared with an update that keeps a value and makes one where there *)
(* is none, as the CSRF token is made.                                      *)
ShareBegins(r, k) ==
    /\ TakesTurn(r) /\ k # "user" /\ Persisted(sess[r])
    /\ turn' = [turn EXCEPT ![r] = [at |-> "share", id |-> sess[r].id, key |-> k]]
    /\ UNCHANGED <<records, sess, ghosts, drawn, storeFaults>>

Share(r) ==
    /\ At(r, "share") /\ Has(turn[r].id)
    /\ LET t == turn[r]
           cur == records[t.id].data[t.key]
           held == IF cur = Nil THEN r ELSE cur IN
       /\ records' = IF cur = Nil
                     THEN [records EXCEPT ![t.id].data[t.key] = held, ![t.id].aged = FALSE]
                     ELSE records
       /\ turn' = [turn EXCEPT ![r] = [at |-> "shared", id |-> t.id, key |-> t.key, held |-> held]]
    /\ UNCHANGED <<sess, opsLeft, ghosts, drawn, storeFaults>>

ShareFails(r) ==
    /\ At(r, "share")
    /\ IF Has(turn[r].id) THEN Fails ELSE UNCHANGED storeFaults
    /\ turn' = [turn EXCEPT ![r] = Idle]
    /\ UNCHANGED <<records, sess, opsLeft, ghosts, drawn>>

(* The session adopts the value, as its own and in the base. *)
Shared(r) ==
    /\ At(r, "shared")
    /\ LET t == turn[r] IN
       sess' = [sess EXCEPT ![r].base = IF Persisted(sess[r]) THEN [@ EXCEPT !.data[t.key] = t.held] ELSE @,
                            ![r].data[t.key] = t.held, ![r].modified = TRUE]
    /\ turn' = [turn EXCEPT ![r] = Idle]
    /\ UNCHANGED <<records, opsLeft, ghosts, drawn, storeFaults>>

-----------------------------------------------------------------------------
(* The rest of the world *)

(* A session is revoked, or all of them are. *)
Revoke(gone) ==
    /\ \E i \in gone : Has(i) /\ records[i].owner
    /\ records' = [i \in Ids |-> IF i \in gone /\ Has(i) /\ records[i].owner THEN NoRecord ELSE records[i]]
    /\ revoked' = revoked \cup {i \in gone : SignedIn(i)}
    /\ UNCHANGED <<sess, turn, opsLeft, issued, drawn, movedFrom, delivered, storeFaults>>

(* The lifetime policy ends the session; later its record expires. *)
Ages(i) ==
    /\ Has(i)
    /\ \/ ~records[i].aged /\ records' = [records EXCEPT ![i].aged = TRUE]
       \/ records[i].aged /\ records' = [records EXCEPT ![i] = NoRecord]
    /\ UNCHANGED <<sess, turn, opsLeft, issued, drawn, movedFrom, revoked, delivered, storeFaults>>

SaveStep(r) ==
    \/ SaveBegins(r) \/ SaveDestroyed(r) \/ SaveCallFails(r) \/ Probe(r) \/ MoveFetch(r) \/ MovePut(r)
    \/ MoveSwap(r) \/ MoveUndo(r) \/ Retire(r) \/ Update(r) \/ CreateRecord(r) \/ FinishSave(r)

FlashStep(r) ==
    \/ \E k \in FlashKeys : Flash(r, k) \/ GetFlashLocal(r, k) \/ FlashBegins(r, {k}, FALSE)
    \/ FlashBegins(r, FlashKeys, TRUE) \/ Take(r) \/ TakeFails(r) \/ Took(r)

RequestStep(r) ==
    \/ LoadFresh(r) \/ Reap(r) \/ \E i \in Ids : LoadRecord(r, i) \/ LoadAged(r, i)
    \/ Clear(r) \/ Regenerate(r) \/ LoginRetire(r) \/ LoginRecord(r) \/ Logout(r)
    \/ \E k \in DataKeys : PutValue(r, k) \/ ShareBegins(r, k)
    \/ Share(r) \/ ShareFails(r) \/ Shared(r) \/ SaveStep(r) \/ FlashStep(r)

SessNext ==
    \/ \E r \in Requests : RequestStep(r)
    \/ \E i \in Ids : Revoke({i}) \/ Ages(i)
    \/ Revoke(Ids)

SessSpec == SessInit /\ [][SessNext]_sessVars

-----------------------------------------------------------------------------
(* Properties *)

(* A record delivers a flash value once: of the requests of one session     *)
(* that read the same flash at most one gets it, and no save puts it back   *)
(* (GetFlash, FlushFlash, consumeFlash, applyChanges).                      *)
FlashOnce ==
    \A d \in DOMAIN delivered : delivered[d] = 1

(* A signed-in record a client's cookie named and that was ended stays      *)
(* ended, and it never has a successor a client knows of; of the requests   *)
(* that regenerate one session at most one keeps its successor (moveRecord, *)
(* ServerStore.write).                                                      *)
RevocationHolds ==
    /\ \A i \in revoked : Has(i) => ~records[i].owner
    /\ \A i \in Ids :
        Cardinality({j \in issued : movedFrom[j] = i}) <= IF i \in revoked THEN 0 ELSE 1

(* A save into the record the session was loaded from changes only the keys *)
(* its request changed since its last save: what an overlapping request     *)
(* wrote stays (applyChanges, finishSave).                                  *)
SavesMerge ==
    [][\A r \in Requests :
        LET t == turn[r] IN
        t.at = "update" /\ turn'[r].at = "finish" /\ t.saved = t.id =>
            \A k \in DataKeys \ t.touched : records'[t.id].data[k] = records[t.id].data[k]]_sessVars
=============================================================================
