------------------------------ MODULE Migrator ------------------------------
(***************************************************************************)
(* The migration runner (orm/migrate/migrator.go, state.go): Up, Down and  *)
(* Fresh of several Migrator instances against one database, each under    *)
(* the migration lock of its driver.  Postgres holds a session lock on the *)
(* connection that does the work and runs a migration and its record in    *)
(* one transaction; MySQL holds a row lock on a connection of its own;     *)
(* SQLite claims a lock row that a later runner may steal once it is old.  *)
(* A migration is a body of two statements.                                *)
(***************************************************************************)
EXTENDS Integers, Sequences, FiniteSets, FiniteSetsExt, SequencesExt

CONSTANTS
    Runners,      \* Migrator instances, one call at a time each
    MaxVersion,   \* the registered migrations are 1..MaxVersion, by version
    Drivers,      \* the drivers considered
    NoRunner,       \* the owner of a free lock
    MaxCalls,     \* bound: calls of Up, Down and Fresh
    MaxMigFaults  \* bound: failed statements, lost connections and crashes

Versions == 1..MaxVersion

VARIABLES
    driver,   \* the database in use
    miglock,  \* owner of the migration lock, and whether locked_at is old
    schema,   \* schema[v]: "absent", "partial" or "done"
    records,  \* rows of the migrations table, in the order of their ids
    runner,   \* runner[r]: what instance r is doing
    calls, migFaults,
    lockLost,     \* ghost: a working runner lost the lock to somebody
    torn,     \* ghost: the versions whose body broke off before its record
    dropped   \* ghost: a Fresh ended between its first and its last drop

migVars == <<driver, miglock, schema, records, runner, calls, migFaults, lockLost, torn, dropped>>

Ops == {"up", "down", "fresh"}
Idle == [pc |-> "idle", op |-> "up", depth |-> 0, todo |-> <<>>, batch |-> 0, steps |-> 0]

MigInit ==
    /\ driver \in Drivers
    /\ miglock = [owner |-> NoRunner, old |-> FALSE]
    /\ schema = [v \in Versions |-> "absent"]
    /\ records = <<>>
    /\ runner = [r \in Runners |-> Idle]
    /\ calls = 0 /\ migFaults = 0 /\ lockLost = FALSE /\ torn = {} /\ dropped = FALSE

UseTx == driver = "postgres"
Recorded == {records[i].v : i \in DOMAIN records}
LastBatch == Max({records[i].batch : i \in DOMAIN records} \cup {0})
InBatch(b) == {records[i].v : i \in {j \in DOMAIN records : records[j].batch = b}}
Ascending(S) == SetToSortSeq(S, <)
Descending(S) == SetToSortSeq(S, >)

Working(r) == runner[r].depth > 0
Becomes(r, s) == runner' = [runner EXCEPT ![r] = s]
At(r, pc) == Becomes(r, [runner[r] EXCEPT !.pc = pc])
MigFault == migFaults < MaxMigFaults /\ migFaults' = migFaults + 1
-----------------------------------------------------------------------------
(* The migration lock *)

CallMigrate(r) ==
    /\ runner[r].pc = "idle" /\ calls < MaxCalls /\ calls' = calls + 1
    /\ \E op \in Ops, n \in 1..2 :
        Becomes(r, [Idle EXCEPT !.pc = "wait", !.op = op, !.steps = IF op = "down" THEN n ELSE 0])
    /\ UNCHANGED <<driver, miglock, schema, records, migFaults, lockLost, torn, dropped>>

(* The UPDATE of sqliteAcquireLock also takes a row whose locked_at is old. *)
Claimable == miglock.owner = NoRunner \/ (driver = "sqlite" /\ miglock.old)

EnterLock(r) ==
    /\ runner[r].pc = "wait" /\ Claimable
    /\ miglock' = [owner |-> r, old |-> FALSE]
    /\ lockLost' = (lockLost \/ (miglock.owner # NoRunner /\ Working(miglock.owner)))
    /\ Becomes(r, [runner[r] EXCEPT !.depth = 1, !.pc = IF runner[r].op = "fresh" THEN "drop" ELSE "plan"])
    /\ UNCHANGED <<driver, schema, records, calls, migFaults, torn, dropped>>

(* sqliteAcquireLock gives up after its last attempt. *)
LockTimeout(r) ==
    /\ runner[r].pc = "wait" /\ driver = "sqlite" /\ ~Claimable
    /\ Becomes(r, Idle)
    /\ UNCHANGED <<driver, miglock, schema, records, calls, migFaults, lockLost, torn, dropped>>

(* SQLite clears the row whoever owns it; a session can only unlock its own. *)
ReleasedBy(r) ==
    IF driver = "sqlite" \/ miglock.owner = r THEN [owner |-> NoRunner, old |-> FALSE] ELSE miglock

(* withMigrationLock returns: an inner call only counts itself out. *)
LeaveLock(r) ==
    /\ runner[r].pc = "leave"
    /\ IF runner[r].depth > 1 THEN /\ Becomes(r, [runner[r] EXCEPT !.depth = @ - 1])
                                   /\ UNCHANGED miglock
       ELSE Becomes(r, Idle) /\ miglock' = ReleasedBy(r)
    /\ UNCHANGED <<driver, schema, records, calls, migFaults, lockLost, torn, dropped>>

-----------------------------------------------------------------------------
(* Up and Down *)

(* runUp: the pending migrations in version order, in one new batch. *)
PlanUp(r) ==
    /\ runner[r].pc = "plan" /\ runner[r].op # "down"
    /\ Becomes(r, [runner[r] EXCEPT !.pc = "next", !.todo = Ascending(Versions \ Recorded),
                                    !.batch = LastBatch + 1])
    /\ UNCHANGED <<driver, miglock, schema, records, calls, migFaults, lockLost, torn, dropped>>

(* Bug: the oldest batch goes first. *)
PlanDownOldest(r) ==
    /\ runner[r].pc = "plan" /\ runner[r].op = "down"
    /\ Becomes(r, [runner[r] EXCEPT !.pc = "next", !.todo = Descending(InBatch(1)), !.batch = 1])
    /\ UNCHANGED <<driver, miglock, schema, records, calls, migFaults, lockLost, torn, dropped>>

(* runDown: the last batch, newest version first. *)
PlanDown(r) ==
    /\ runner[r].pc = "plan" /\ runner[r].op = "down"
    /\ Becomes(r, [runner[r] EXCEPT !.pc = "next", !.todo = Descending(InBatch(LastBatch)),
                                    !.batch = LastBatch])
    /\ UNCHANGED <<driver, miglock, schema, records, calls, migFaults, lockLost, torn, dropped>>

(* The next migration; when there is none, the next lower batch of a Down. *)
NextMigration(r) ==
    LET s == runner[r] IN
    /\ s.pc = "next"
    /\ \/ s.todo # <<>> /\ At(r, "body")
       \/ /\ s.todo = <<>> /\ s.op = "down" /\ s.steps > 1 /\ s.batch > 1
          /\ Becomes(r, [s EXCEPT !.batch = @ - 1, !.steps = @ - 1,
                                  !.todo = Descending(InBatch(s.batch - 1))])
       \/ s.todo = <<>> /\ ~(s.op = "down" /\ s.steps > 1 /\ s.batch > 1) /\ At(r, "leave")
    /\ UNCHANGED <<driver, miglock, schema, records, calls, migFaults, lockLost, torn, dropped>>

Target(r) == IF runner[r].op = "down" THEN "absent" ELSE "done"

(* A statement of the body; in a transaction nothing shows before commit. *)
Body(r) ==
    LET v == Head(runner[r].todo) IN
    /\ runner[r].pc \in {"body", "body2"}
    /\ At(r, IF runner[r].pc = "body" THEN "body2" ELSE "record")
    /\ schema' = IF UseTx THEN schema
                 ELSE [schema EXCEPT ![v] = IF runner[r].pc = "body" THEN "partial" ELSE Target(r)]
    /\ UNCHANGED <<driver, miglock, records, calls, migFaults, lockLost, torn, dropped>>

(* recordMigration, whose version is unique, or removeMigration. *)
RecordRow(r) ==
    LET v == Head(runner[r].todo) IN
    IF runner[r].op = "down" THEN records' = SelectSeq(records, LAMBDA x : x.v # v)
    ELSE v \notin Recorded /\ records' = Append(records, [v |-> v, batch |-> runner[r].batch])

MigrationDone(r) == Becomes(r, [runner[r] EXCEPT !.pc = "next", !.todo = Tail(@)])

(* The record, and on Postgres the commit of body and record together. *)
RecordMigration(r) ==
    LET v == Head(runner[r].todo) IN
    /\ runner[r].pc = "record"
    /\ RecordRow(r) /\ MigrationDone(r)
    /\ schema' = IF UseTx THEN [schema EXCEPT ![v] = Target(r)] ELSE schema
    /\ torn' = torn \ {v}
    /\ UNCHANGED <<driver, miglock, calls, migFaults, lockLost, dropped>>

(* The record of a version that is there already: the INSERT fails. *)
RecordTwice(r) ==
    /\ runner[r].pc = "record" /\ runner[r].op # "down" /\ Head(runner[r].todo) \in Recorded
    /\ At(r, "leave")
    /\ UNCHANGED <<driver, miglock, schema, records, calls, migFaults, lockLost, torn, dropped>>

(* Commit reports an error after it took effect. *)
CommitUnknown(r) ==
    LET v == Head(runner[r].todo) IN
    /\ runner[r].pc = "record" /\ UseTx /\ MigFault
    /\ RecordRow(r) /\ At(r, "leave") /\ schema' = [schema EXCEPT ![v] = Target(r)]
    /\ UNCHANGED <<driver, miglock, calls, lockLost, torn, dropped>>

(* What stopping in the middle of a migration leaves behind. *)
TornBy(r) == IF ~UseTx /\ runner[r].pc \in {"body2", "record"} THEN {Head(runner[r].todo)} ELSE {}

HalfDropped(r) == runner[r].pc = "drop"

(* A statement fails: the call returns the error and releases the lock. *)
StatementFails(r) ==
    /\ runner[r].pc \in {"plan", "body", "body2", "record", "drop"} /\ MigFault
    /\ At(r, "leave")
    /\ torn' = torn \cup TornBy(r) /\ dropped' = (dropped \/ HalfDropped(r))
    /\ UNCHANGED <<driver, miglock, schema, records, calls, lockLost>>

-----------------------------------------------------------------------------
(* Fresh *)

(* The tables go one at a time, the migrations table among them and the    *)
(* lock table excepted; then Up runs under the lock that is held.          *)
DropTables(r) ==
    /\ runner[r].pc = "drop"
    /\ \/ /\ \E v \in Versions : schema[v] # "absent" /\ schema' = [schema EXCEPT ![v] = "absent"]
          /\ UNCHANGED <<miglock, records, runner, torn, dropped>>
       \/ records # <<>> /\ records' = <<>> /\ UNCHANGED <<miglock, schema, runner, torn, dropped>>
       \/ /\ records = <<>> /\ \A v \in Versions : schema[v] = "absent"
          /\ Becomes(r, [runner[r] EXCEPT !.pc = "plan", !.depth = 2]) /\ dropped' = FALSE /\ torn' = {}
          /\ UNCHANGED <<miglock, schema, records>>
    /\ UNCHANGED <<driver, calls, migFaults, lockLost>>

-----------------------------------------------------------------------------
(* Faults *)

(* The process dies: the database ends its session, but not a SQLite row. *)
CrashRunner(r) ==
    /\ runner[r].pc # "idle" /\ MigFault /\ Becomes(r, Idle)
    /\ torn' = torn \cup TornBy(r) /\ dropped' = (dropped \/ HalfDropped(r))
    /\ miglock' = IF driver # "sqlite" /\ miglock.owner = r THEN [owner |-> NoRunner, old |-> FALSE]
                  ELSE miglock
    /\ UNCHANGED <<driver, schema, records, calls, lockLost>>

(* The connection that holds the lock breaks.  On Postgres it is the one   *)
(* that does the work, whose next statement fails; on MySQL nothing tells  *)
(* the runner.                                                             *)
LockConnBreaks(r) ==
    /\ driver # "sqlite" /\ miglock.owner = r /\ runner[r].pc # "leave" /\ MigFault
    /\ miglock' = [owner |-> NoRunner, old |-> FALSE]
    /\ IF UseTx THEN Becomes(r, Idle) /\ UNCHANGED lockLost /\ dropped' = (dropped \/ HalfDropped(r))
       ELSE lockLost' = TRUE /\ UNCHANGED <<runner, dropped>>
    /\ UNCHANGED <<driver, schema, records, calls, torn>>

(* sqliteLockStaleAfter passes; nothing renews locked_at. *)
LockGrowsOld ==
    /\ driver = "sqlite" /\ miglock.owner # NoRunner /\ ~miglock.old
    /\ miglock' = [miglock EXCEPT !.old = TRUE]
    /\ UNCHANGED <<driver, schema, records, runner, calls, migFaults, lockLost, torn, dropped>>

RunnerStep(r) ==
    \/ EnterLock(r) \/ LockTimeout(r) \/ LeaveLock(r)
    \/ PlanUp(r) \/ PlanDown(r) \/ NextMigration(r) \/ Body(r)
    \/ RecordMigration(r) \/ RecordTwice(r) \/ DropTables(r)

MigNext ==
    \/ \E r \in Runners : CallMigrate(r) \/ RunnerStep(r)
    \/ \E r \in Runners : CommitUnknown(r) \/ StatementFails(r) \/ CrashRunner(r) \/ LockConnBreaks(r)
    \/ LockGrowsOld

MigSpec == MigInit /\ [][MigNext]_migVars

-----------------------------------------------------------------------------
(* Properties *)

(* Fields have their types. *)
MigTypeOK ==
    /\ driver \in Drivers /\ schema \in [Versions -> {"absent", "partial", "done"}]
    /\ miglock.owner \in Runners \cup {NoRunner}
    /\ Recorded \subseteq Versions /\ torn \subseteq Versions

(* Two calls work at the same time only after the lock was lost under a    *)
(* running one: a SQLite row grew old, or MySQL's lock connection broke.   *)
(* On Postgres never (withMigrationLock, acquireMigrationLock).            *)
MigrationsExclusive ==
    (\E r, q \in Runners : r # q /\ Working(r) /\ Working(q)) => lockLost /\ driver # "postgres"

(* The migrations table tells the truth about every migration, unless a    *)
(* Fresh broke off among its drops or the lock was lost: what is recorded  *)
(* was applied to its end, what is not left no trace.  With transactions   *)
(* that is so whatever fails; without them for every migration but the     *)
(* ones whose own body or record failed (runMigrationUp, runMigrationDown).*)
RecordsMatchSchema ==
    ~lockLost /\ ~dropped /\ (\A r \in Runners : runner[r].pc # "drop") =>
        \A v \in Versions :
            \/ ~UseTx /\ v \in torn
            \/ ~UseTx /\ \E r \in Runners : /\ runner[r].pc \in {"body2", "record"}
                                            /\ Head(runner[r].todo) = v
            \/ schema[v] = IF v \in Recorded THEN "done" ELSE "absent"

(* The batches in the migrations table are numbered without a gap, which   *)
(* Down counts on when it steps from a batch to the one below (runUp takes *)
(* the highest plus one, runDown empties the highest first).               *)
BatchesWithoutGap == ~lockLost => {records[i].batch : i \in DOMAIN records} = 1..LastBatch

(* Rollback undoes migrations in the reverse of the order they were        *)
(* applied in, whatever failed before: a record that goes is the last one  *)
(* (runDown, by batch and by version, both descending).                    *)
RollsBackInReverse ==
    [][~lockLost' /\ Len(records') < Len(records) => records' = <<>> \/ records' = Front(records)]_migVars

(* Whatever crashes and races, the migrations table is a true and ordered  *)
(* record of what was applied, by one process at a time.                   *)
MigrationsSound ==
    /\ [](MigrationsExclusive /\ RecordsMatchSchema /\ BatchesWithoutGap)
    /\ RollsBackInReverse
=============================================================================
