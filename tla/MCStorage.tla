------------------------------ MODULE MCStorage ------------------------------
(* Small instances of what keeps state in a database or in files: the file *)
(* cache and its locks, transactions and migrations.  A behaviour is one of *)
(* the part named by subject; the variables of the other parts keep their   *)
(* initial values.                                                          *)
EXTENDS FileCache, FileLock, TxScope, Migrator, TLC

CONSTANTS c1, c2, c3

(* Two goroutines of one process and one of another. *)
MCProcessOf == c1 :> "p" @@ c2 :> "p" @@ c3 :> "q"

VARIABLE subject

storageVars == <<subject, fileVars, lockVars, txVars, migVars>>

StorageInit ==
    /\ subject \in {"file cache", "file lock", "transaction", "migration"}
    /\ FileInit /\ LockInit /\ TxInit /\ MigInit
    /\ subject # "migration" => driver = "sqlite"

CacheMoves == subject = "file cache" /\ FileNext /\ UNCHANGED <<subject, lockVars, txVars, migVars>>
LockMoves == subject = "file lock" /\ LockNext /\ UNCHANGED <<subject, fileVars, txVars, migVars>>
TxMoves == subject = "transaction" /\ TxNext /\ UNCHANGED <<subject, fileVars, lockVars, migVars>>
MigrationMoves == subject = "migration" /\ MigNext /\ UNCHANGED <<subject, fileVars, lockVars, txVars>>

StorageNext == CacheMoves \/ LockMoves \/ TxMoves \/ MigrationMoves

StorageSpec == StorageInit /\ [][StorageNext]_storageVars
=============================================================================
